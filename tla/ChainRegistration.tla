------------------------- MODULE ChainRegistration -------------------------
(***************************************************************************)
(* registerWithBlockchain (cmd/node/appchain.go): each time a worker node  *)
(* connects to the chain it registers itself in the topics of its          *)
(* configuration and, as a reputer, stakes on every topic it has just      *)
(* registered in.  The node may crash at any point; when it is started     *)
(* again it runs the whole function again.                                 *)
(*                                                                         *)
(* A message goes through SendDataWithRetry, taken here by what it         *)
(* promises (BoundedDelivery.tla): the chain executes it some number of    *)
(* times, possibly none, and the call returns.  The error it returns is    *)
(* nil in every case (NilErrorMeansAcknowledged of SendDataWithRetry.tla   *)
(* is refuted), so the branches that log it or end the process are dead.   *)
(*                                                                         *)
(* External: the chain.  It executes a registration only from an account   *)
(* that can pay the fee and is not registered in the topic yet, and a      *)
(* stake only from an account that is registered and has the amount.       *)
(***************************************************************************)
EXTENDS Integers, Sequences

CONSTANTS
  Topics,           \* the topics' numerical ids
  TopicIds,         \* the configured topic ids, numerical or not
  WorkerMode,       \* "worker", "reputer" or anything else
  InitialStake,
  Fee,              \* the chain's registration fee
  Balances,         \* possible balances of the account at the start
  StakingAttempts,  \* NUM_STAKING_RETRIES + 1
  MaxCrashes        \* bound: crashes of the node

ASSUME RegistrationAssumption ==
  /\ TopicIds \in Seq(Topics \cup {"notNumerical"})
  /\ "notNumerical" \notin Topics
  /\ InitialStake \in Nat
  /\ Fee \in Nat
  /\ Balances \subseteq Nat
  /\ StakingAttempts \in Nat
  /\ MaxCrashes \in Nat

VARIABLES
  pc,
  index,              \* index of the current topic
  executed,           \* executions of the message being sent
  excused,            \* history: topics this run could not register or stake in
  registeredAtStart,  \* history: topics registered when this run began
  crashes,
  registered,         \* chain: the topics the node is registered in
  balance,            \* chain: the account's balance
  stake               \* chain: the reputer's stake in each topic

node == <<pc, index, executed, excused, registeredAtStart, crashes>>
chain == <<registered, balance, stake>>
vars == <<node, chain>>

(* parseTopicIds keeps the configured ids that are numbers.  It keeps no   *)
(* state: the loop over its result is the loop over the configured ids     *)
(* that passes over the others (NotNumerical).                             *)
Numerical(id) == id \in Topics

Topic == TopicIds[index]

Init ==
  /\ pc = "down"
  /\ index = 1
  /\ executed = 0
  /\ excused = {}
  /\ registeredAtStart = {}
  /\ crashes = 0
  /\ registered = {}
  /\ balance \in Balances
  /\ stake = [t \in Topics |-> 0]

-----------------------------------------------------------------------------
(* NewAppChain has a client and an account, and calls the function, which  *)
(* ends the process when the worker mode is none it knows.                 *)
Start ==
  /\ pc = "down"
  /\ pc' = IF WorkerMode \in {"worker", "reputer"} THEN "params" ELSE "exited"
  /\ index' = 1
  /\ executed' = 0
  /\ excused' = {}
  /\ registeredAtStart' = registered
  /\ UNCHANGED <<crashes, chain>>

(* The fee is read once for all topics.  Without it nothing is registered. *)
QueryParams ==
  /\ pc = "params"
  /\ \/ pc' = "topic" /\ UNCHANGED excused
     \/ pc' = "done" /\ excused' = Topics
  /\ UNCHANGED <<index, executed, registeredAtStart, crashes, chain>>

NotNumerical ==
  /\ pc = "topic"
  /\ index <= Len(TopicIds)
  /\ ~Numerical(Topic)
  /\ index' = index + 1
  /\ UNCHANGED <<pc, executed, excused, registeredAtStart, crashes, chain>>

AtTopic == pc = "topic" /\ index <= Len(TopicIds) /\ Numerical(Topic)

EndOfTopics ==
  /\ pc = "topic"
  /\ index > Len(TopicIds)
  /\ pc' = "done"
  /\ UNCHANGED <<index, executed, excused, registeredAtStart, crashes, chain>>

(* A topic that fails is left for the next one.                            *)
AfterFailureReturn == "done"
AfterFailure == "topic"

Excuse ==
  /\ pc' = AfterFailure
  /\ index' = index + 1
  /\ excused' = excused \cup {Topic}
  /\ UNCHANGED <<executed, registeredAtStart, crashes, chain>>

(* isReputerRegistered or isWorkerRegistered fails.                        *)
RegistrationQueryFails == AtTopic /\ Excuse

KnownRegisteredNever == FALSE
KnownRegistered == Topic \in registered

AlreadyRegistered ==
  /\ AtTopic
  /\ KnownRegistered
  /\ index' = index + 1
  /\ UNCHANGED <<pc, executed, excused, registeredAtStart, crashes, chain>>

NotRegistered ==
  /\ AtTopic
  /\ ~KnownRegistered
  /\ pc' = "balance"
  /\ UNCHANGED <<index, executed, excused, registeredAtStart, crashes, chain>>

(* hasBalanceForRegistration fails.                                        *)
BalanceQueryFails == pc = "balance" /\ Excuse

BalanceTooLow == pc = "balance" /\ ~(Fee <= balance) /\ Excuse

BalanceSuffices ==
  /\ pc = "balance"
  /\ Fee <= balance
  /\ pc' = "register"
  /\ executed' = 0
  /\ UNCHANGED <<index, excused, registeredAtStart, crashes, chain>>

(* The chain executes MsgRegister; the call may or may not learn of it.    *)
ExecuteRegister ==
  /\ pc = "register"
  /\ Topic \notin registered
  /\ Fee <= balance
  /\ registered' = registered \cup {Topic}
  /\ balance' = balance - Fee
  /\ executed' = executed + 1
  /\ UNCHANGED <<pc, index, excused, registeredAtStart, crashes, stake>>

Stakes == WorkerMode = "reputer" /\ InitialStake > 0

(* The call returns, executed or not.                                      *)
RegisterReturns ==
  /\ pc = "register"
  /\ executed' = 0
  /\ excused' = IF executed = 0 THEN excused \cup {Topic} ELSE excused
  /\ IF Stakes THEN pc' = "stake" /\ UNCHANGED index
     ELSE pc' = "topic" /\ index' = index + 1
  /\ UNCHANGED <<registeredAtStart, crashes, chain>>

MayStakeAgain == TRUE
MayStake == executed < StakingAttempts

ExecuteAddStake ==
  /\ pc = "stake"
  /\ MayStake
  /\ Topic \in registered
  /\ InitialStake <= balance
  /\ stake' = [stake EXCEPT ![Topic] = @ + InitialStake]
  /\ balance' = balance - InitialStake
  /\ executed' = executed + 1
  /\ UNCHANGED <<pc, index, excused, registeredAtStart, crashes, registered>>

AddStakeReturns ==
  /\ pc = "stake"
  /\ pc' = "topic"
  /\ index' = index + 1
  /\ executed' = 0
  /\ excused' = IF executed = 0 THEN excused \cup {Topic} ELSE excused
  /\ UNCHANGED <<registeredAtStart, crashes, chain>>

(* The node stops or crashes, at any point, and loses its memory.          *)
Crash ==
  /\ pc \notin {"down", "exited"}
  /\ crashes < MaxCrashes
  /\ crashes' = crashes + 1
  /\ pc' = "down"
  /\ UNCHANGED <<index, executed, excused, registeredAtStart, chain>>

Terminated == pc \in {"done", "exited"} /\ UNCHANGED vars

Next ==
  \/ Start \/ QueryParams \/ EndOfTopics \/ NotNumerical \/ RegistrationQueryFails
  \/ AlreadyRegistered \/ NotRegistered \/ BalanceQueryFails \/ BalanceTooLow
  \/ BalanceSuffices \/ ExecuteRegister \/ RegisterReturns
  \/ ExecuteAddStake \/ AddStakeReturns \/ Crash \/ Terminated

Spec == Init /\ [][Next]_vars

-----------------------------------------------------------------------------
TypeOK ==
  /\ pc \in {"down", "params", "topic", "balance", "register", "stake", "done", "exited"}
  /\ index \in 1..(Len(TopicIds) + 1)
  /\ executed \in 0..StakingAttempts \cup {1}
  /\ excused \subseteq Topics
  /\ registeredAtStart \subseteq Topics
  /\ crashes \in 0..MaxCrashes
  /\ registered \subseteq Topics
  /\ balance \in Nat
  /\ stake \in [Topics -> Nat]

(* However often the node crashes and runs again, whatever is repeated in  *)
(* its configuration and whichever acknowledgements are lost, a topic gets *)
(* at most as many initial stakes as one call makes attempts: no later run *)
(* adds to what an earlier one staked.                                     *)
StakeBounded == \A t \in Topics : stake[t] <= StakingAttempts * InitialStake

(* Whatever fails, is repeated or crashes, all the runs together stake     *)
(* like one: a topic gets stake only between the execution of its          *)
(* registration and the return of the call that stakes, or a crash; it     *)
(* gets whole initial stakes, at most StakingAttempts; and that time never *)
(* comes again.                                                            *)
Staking ==
  INSTANCE TopicStaking WITH
    Amount <- InitialStake,
    Bound <- StakingAttempts,
    staking <- IF pc \in {"register", "stake"} THEN {Topic} \cap registered ELSE {}

ImplementsTopicStaking == Staking!Spec

(* README.md:93: the initial stake "will not have an effect on subsequent  *)
(* runs when the node is already registered".                              *)
NoStakeWhenAlreadyRegistered ==
  [][\A t \in registeredAtStart : stake'[t] = stake[t]]_vars

(* A pass over the topics leaves none out: at its end the node is          *)
(* registered in every configured topic but those whose query, balance or  *)
(* message failed in this pass.  One failing topic does not stop the rest. *)
EveryTopicAccounted ==
  pc = "done" =>
    \A k \in DOMAIN TopicIds :
      Numerical(TopicIds[k]) => TopicIds[k] \in registered \cup excused
=============================================================================
