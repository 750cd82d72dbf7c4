---------------------- MODULE ChainRegistrationProofs ----------------------
(* Proofs about ChainRegistration for every set of topics, configuration,  *)
(* fee, stake, number of attempts and number of crashes.                   *)
EXTENDS ChainRegistration, TLAPS

(* A topic is numerical and not skipped while its checks and messages run. *)
AtNumericalTopic ==
  pc \in {"balance", "register", "stake"} => index <= Len(TopicIds) /\ Topic \in Topics

(* Stake stands only where the node is registered, so a topic about to be  *)
(* registered has none, and what a running call has staked it staked on an *)
(* empty topic, once per execution.                                        *)
StakeAccounted ==
  /\ \A t \in Topics : t \notin registered => stake[t] = 0
  /\ pc = "balance" => Topic \notin registered
  /\ pc = "register" => stake[Topic] = 0
  /\ pc = "stake" => /\ executed <= StakingAttempts
                     /\ stake[Topic] <= executed * InitialStake

(* A topic the node was registered in when the run began is passed over.   *)
OldTopicsPassed ==
  /\ registeredAtStart \subseteq registered
  /\ pc \in {"register", "stake"} => Topic \notin registeredAtStart

(* The topics behind the index are registered or excused; so is the one    *)
(* whose registration was executed.                                        *)
PassedTopicsAccounted ==
  /\ pc = "params" => index = 1
  /\ pc \in {"topic", "balance", "register", "stake"} =>
       \A k \in 1..(index - 1) :
         Numerical(TopicIds[k]) => TopicIds[k] \in registered \cup excused
  /\ pc = "register" /\ executed # 0 => Topic \in registered
  /\ pc = "stake" => Topic \in registered \cup excused

IInv ==
  /\ TypeOK
  /\ AtNumericalTopic
  /\ StakeAccounted
  /\ StakeBounded
  /\ OldTopicsPassed
  /\ PassedTopicsAccounted
  /\ EveryTopicAccounted

-----------------------------------------------------------------------------
LEMMA ProductGrows ==
  ASSUME NEW m \in Nat, NEW n \in Nat, m <= n, NEW d \in Nat
  PROVE  /\ m * d \in Nat
         /\ m * d <= n * d
         /\ (m + 1) * d = m * d + d
<1>1. PICK k \in Nat : n = m + k
  <2>1. n - m \in Nat
    OBVIOUS
  <2> QED BY <2>1
<1>2. n * d = m * d + k * d
  BY <1>1
<1>3. m * d \in Nat /\ k * d \in Nat
  OBVIOUS
<1>4. (m + 1) * d = m * d + d
  OBVIOUS
<1> QED BY <1>2, <1>3, <1>4

LEMMA TopicIdsFacts ==
  /\ Len(TopicIds) \in Nat
  /\ DOMAIN TopicIds = 1..Len(TopicIds)
  BY RegistrationAssumption

LEMMA InitIInv == Init => IInv
<1> SUFFICES ASSUME Init PROVE IInv
  OBVIOUS
<1>1. balance \in Nat /\ StakingAttempts * InitialStake \in Nat
  BY RegistrationAssumption, ProductGrows DEF Init
<1> QED
  BY <1>1, TopicIdsFacts, RegistrationAssumption DEF Init, IInv, TypeOK, AtNumericalTopic, StakeAccounted, StakeBounded, OldTopicsPassed, PassedTopicsAccounted, EveryTopicAccounted

(* A topic that fails is excused, whatever the chain holds.                *)
LEMMA ExcuseIInv ==
  ASSUME IInv, pc \in {"topic", "balance"}, index <= Len(TopicIds), Topic \in Topics, Excuse
  PROVE  IInv'
<1> USE TopicIdsFacts DEF Excuse, AfterFailure, chain
<1>1. TypeOK'
  BY RegistrationAssumption DEF IInv, TypeOK
<1>2. AtNumericalTopic' /\ StakeAccounted' /\ StakeBounded'
  BY DEF IInv, TypeOK, AtNumericalTopic, StakeAccounted, StakeBounded
<1>3. OldTopicsPassed' /\ EveryTopicAccounted'
  BY DEF IInv, OldTopicsPassed, EveryTopicAccounted
<1>4. PassedTopicsAccounted'
  BY DEF IInv, TypeOK, PassedTopicsAccounted, Topic
<1> QED BY <1>1, <1>2, <1>3, <1>4 DEF IInv

LEMMA StartIInv == IInv /\ Start => IInv'
<1> SUFFICES ASSUME IInv, Start PROVE IInv'
  OBVIOUS
<1> USE TopicIdsFacts DEF Start, chain
<1>1. TypeOK'
  BY RegistrationAssumption DEF IInv, TypeOK
<1>2. AtNumericalTopic' /\ StakeAccounted' /\ StakeBounded'
  BY RegistrationAssumption DEF IInv, TypeOK, AtNumericalTopic, StakeAccounted, StakeBounded, Topic
<1>3. OldTopicsPassed'
  BY DEF IInv, TypeOK, StakeAccounted, OldTopicsPassed, Topic
<1>4. PassedTopicsAccounted'
  BY DEF IInv, TypeOK, PassedTopicsAccounted, Topic
<1>5. EveryTopicAccounted'
  BY DEF IInv, TypeOK, PassedTopicsAccounted, EveryTopicAccounted, Numerical
<1> QED BY <1>1, <1>2, <1>3, <1>4, <1>5 DEF IInv

LEMMA QueryParamsIInv == IInv /\ QueryParams => IInv'
<1> SUFFICES ASSUME IInv, QueryParams PROVE IInv'
  OBVIOUS
<1> USE TopicIdsFacts DEF QueryParams, chain
<1>1. TypeOK'
  BY RegistrationAssumption DEF IInv, TypeOK
<1>2. AtNumericalTopic' /\ StakeAccounted' /\ StakeBounded'
  BY RegistrationAssumption DEF IInv, TypeOK, AtNumericalTopic, StakeAccounted, StakeBounded, Topic
<1>3. OldTopicsPassed'
  BY DEF IInv, TypeOK, StakeAccounted, OldTopicsPassed, Topic
<1>4. PassedTopicsAccounted'
  BY DEF IInv, TypeOK, PassedTopicsAccounted, Topic
<1>5. EveryTopicAccounted'
  BY DEF IInv, TypeOK, PassedTopicsAccounted, EveryTopicAccounted, Numerical
<1> QED BY <1>1, <1>2, <1>3, <1>4, <1>5 DEF IInv

LEMMA EndOfTopicsIInv == IInv /\ EndOfTopics => IInv'
<1> SUFFICES ASSUME IInv, EndOfTopics PROVE IInv'
  OBVIOUS
<1> USE TopicIdsFacts DEF EndOfTopics, chain
<1>1. TypeOK'
  BY RegistrationAssumption DEF IInv, TypeOK
<1>2. AtNumericalTopic' /\ StakeAccounted' /\ StakeBounded'
  BY RegistrationAssumption DEF IInv, TypeOK, AtNumericalTopic, StakeAccounted, StakeBounded, Topic
<1>3. OldTopicsPassed'
  BY DEF IInv, TypeOK, StakeAccounted, OldTopicsPassed, Topic
<1>4. PassedTopicsAccounted'
  BY DEF IInv, TypeOK, PassedTopicsAccounted, Topic
<1>5. EveryTopicAccounted'
  BY DEF IInv, TypeOK, PassedTopicsAccounted, EveryTopicAccounted, Numerical
<1> QED BY <1>1, <1>2, <1>3, <1>4, <1>5 DEF IInv

LEMMA NotNumericalIInv == IInv /\ NotNumerical => IInv'
<1> SUFFICES ASSUME IInv, NotNumerical PROVE IInv'
  OBVIOUS
<1> USE TopicIdsFacts DEF NotNumerical, chain
<1>1. TypeOK'
  BY RegistrationAssumption DEF IInv, TypeOK
<1>2. AtNumericalTopic' /\ StakeAccounted' /\ StakeBounded'
  BY RegistrationAssumption DEF IInv, TypeOK, AtNumericalTopic, StakeAccounted, StakeBounded, Topic
<1>3. OldTopicsPassed'
  BY DEF IInv, TypeOK, StakeAccounted, OldTopicsPassed, Topic
<1>4. PassedTopicsAccounted'
  BY DEF IInv, TypeOK, PassedTopicsAccounted, Topic
<1>5. EveryTopicAccounted'
  BY DEF IInv, TypeOK, PassedTopicsAccounted, EveryTopicAccounted, Numerical
<1> QED BY <1>1, <1>2, <1>3, <1>4, <1>5 DEF IInv

LEMMA AlreadyRegisteredIInv == IInv /\ AlreadyRegistered => IInv'
<1> SUFFICES ASSUME IInv, AlreadyRegistered PROVE IInv'
  OBVIOUS
<1> USE TopicIdsFacts DEF AlreadyRegistered, AtTopic, KnownRegistered, Numerical, chain
<1>1. TypeOK'
  BY RegistrationAssumption DEF IInv, TypeOK
<1>2. AtNumericalTopic' /\ StakeAccounted' /\ StakeBounded'
  BY RegistrationAssumption DEF IInv, TypeOK, AtNumericalTopic, StakeAccounted, StakeBounded, Topic
<1>3. OldTopicsPassed'
  BY DEF IInv, TypeOK, StakeAccounted, OldTopicsPassed, Topic
<1>4. PassedTopicsAccounted'
  BY DEF IInv, TypeOK, PassedTopicsAccounted, Topic
<1>5. EveryTopicAccounted'
  BY DEF IInv, TypeOK, PassedTopicsAccounted, EveryTopicAccounted, Numerical
<1> QED BY <1>1, <1>2, <1>3, <1>4, <1>5 DEF IInv

LEMMA NotRegisteredIInv == IInv /\ NotRegistered => IInv'
<1> SUFFICES ASSUME IInv, NotRegistered PROVE IInv'
  OBVIOUS
<1> USE TopicIdsFacts DEF NotRegistered, AtTopic, KnownRegistered, Numerical, chain
<1>1. TypeOK'
  BY RegistrationAssumption DEF IInv, TypeOK
<1>2. AtNumericalTopic' /\ StakeAccounted' /\ StakeBounded'
  BY RegistrationAssumption DEF IInv, TypeOK, AtNumericalTopic, StakeAccounted, StakeBounded, Topic
<1>3. OldTopicsPassed'
  BY DEF IInv, TypeOK, StakeAccounted, OldTopicsPassed, Topic
<1>4. PassedTopicsAccounted'
  BY DEF IInv, TypeOK, PassedTopicsAccounted, Topic
<1>5. EveryTopicAccounted'
  BY DEF IInv, TypeOK, PassedTopicsAccounted, EveryTopicAccounted, Numerical
<1> QED BY <1>1, <1>2, <1>3, <1>4, <1>5 DEF IInv

LEMMA BalanceSufficesIInv == IInv /\ BalanceSuffices => IInv'
<1> SUFFICES ASSUME IInv, BalanceSuffices PROVE IInv'
  OBVIOUS
<1> USE TopicIdsFacts DEF BalanceSuffices, chain
<1>1. TypeOK'
  BY RegistrationAssumption DEF IInv, TypeOK
<1>2. AtNumericalTopic' /\ StakeAccounted' /\ StakeBounded'
  BY RegistrationAssumption DEF IInv, TypeOK, AtNumericalTopic, StakeAccounted, StakeBounded, Topic
<1>3. OldTopicsPassed'
  BY DEF IInv, TypeOK, StakeAccounted, OldTopicsPassed, Topic
<1>4. PassedTopicsAccounted'
  BY DEF IInv, TypeOK, PassedTopicsAccounted, Topic
<1>5. EveryTopicAccounted'
  BY DEF IInv, TypeOK, PassedTopicsAccounted, EveryTopicAccounted, Numerical
<1> QED BY <1>1, <1>2, <1>3, <1>4, <1>5 DEF IInv

LEMMA CrashIInv == IInv /\ Crash => IInv'
<1> SUFFICES ASSUME IInv, Crash PROVE IInv'
  OBVIOUS
<1> USE TopicIdsFacts DEF Crash, chain
<1>1. TypeOK'
  BY RegistrationAssumption DEF IInv, TypeOK
<1>2. AtNumericalTopic' /\ StakeAccounted' /\ StakeBounded'
  BY RegistrationAssumption DEF IInv, TypeOK, AtNumericalTopic, StakeAccounted, StakeBounded, Topic
<1>3. OldTopicsPassed'
  BY DEF IInv, TypeOK, StakeAccounted, OldTopicsPassed, Topic
<1>4. PassedTopicsAccounted'
  BY DEF IInv, TypeOK, PassedTopicsAccounted, Topic
<1>5. EveryTopicAccounted'
  BY DEF IInv, TypeOK, PassedTopicsAccounted, EveryTopicAccounted, Numerical
<1> QED BY <1>1, <1>2, <1>3, <1>4, <1>5 DEF IInv

LEMMA ExecuteRegisterIInv == IInv /\ ExecuteRegister => IInv'
<1> SUFFICES ASSUME IInv, ExecuteRegister PROVE IInv'
  OBVIOUS
<1> USE TopicIdsFacts DEF ExecuteRegister
<1>0. Topic \in Topics /\ index <= Len(TopicIds) /\ Topic' = Topic
  BY DEF IInv, AtNumericalTopic, Topic
<1>1. TypeOK'
  <2>1. balance - Fee \in Nat
    BY RegistrationAssumption DEF IInv, TypeOK
  <2>2. executed' \in 0..StakingAttempts \cup {1}
    BY DEF IInv, TypeOK, PassedTopicsAccounted
  <2> QED BY <1>0, <2>1, <2>2 DEF IInv, TypeOK
<1>2. AtNumericalTopic' /\ StakeAccounted' /\ StakeBounded'
  BY <1>0 DEF IInv, TypeOK, AtNumericalTopic, StakeAccounted, StakeBounded
<1>3. OldTopicsPassed'
  BY <1>0 DEF IInv, OldTopicsPassed
<1>4. PassedTopicsAccounted'
  BY <1>0 DEF IInv, TypeOK, PassedTopicsAccounted
<1>5. EveryTopicAccounted'
  BY DEF EveryTopicAccounted
<1> QED BY <1>1, <1>2, <1>3, <1>4, <1>5 DEF IInv

LEMMA RegisterReturnsIInv == IInv /\ RegisterReturns => IInv'
<1> SUFFICES ASSUME IInv, RegisterReturns PROVE IInv'
  OBVIOUS
<1> USE TopicIdsFacts DEF RegisterReturns, chain
<1>0. Topic \in Topics /\ index <= Len(TopicIds)
  BY DEF IInv, AtNumericalTopic
<1>1. TypeOK'
  BY <1>0, RegistrationAssumption DEF IInv, TypeOK
<1>2. AtNumericalTopic' /\ StakeBounded' /\ OldTopicsPassed'
  BY <1>0 DEF IInv, AtNumericalTopic, StakeBounded, OldTopicsPassed, Topic
<1>3. StakeAccounted'
  <2>1. 0 * InitialStake = 0 /\ 0 <= StakingAttempts
    BY RegistrationAssumption
  <2> QED BY <1>0, <2>1 DEF IInv, TypeOK, StakeAccounted, Topic
<1>4. PassedTopicsAccounted'
  BY <1>0 DEF IInv, TypeOK, PassedTopicsAccounted, Topic
<1>5. EveryTopicAccounted'
  BY DEF EveryTopicAccounted
<1> QED BY <1>1, <1>2, <1>3, <1>4, <1>5 DEF IInv

LEMMA ExecuteAddStakeIInv == IInv /\ ExecuteAddStake => IInv'
<1> SUFFICES ASSUME IInv, ExecuteAddStake PROVE IInv'
  OBVIOUS
<1> USE TopicIdsFacts DEF ExecuteAddStake, MayStake
<1>0. Topic \in Topics /\ index <= Len(TopicIds) /\ Topic' = Topic
  BY DEF IInv, AtNumericalTopic, Topic
<1>1. executed \in Nat /\ executed + 1 <= StakingAttempts
  BY RegistrationAssumption DEF IInv, TypeOK
<1>2. TypeOK'
  <2>1. balance - InitialStake \in Nat
    BY RegistrationAssumption DEF IInv, TypeOK
  <2>2. executed' \in 0..StakingAttempts
    BY <1>1, RegistrationAssumption
  <2>3. stake' \in [Topics -> Nat]
    BY RegistrationAssumption DEF IInv, TypeOK
  <2> QED BY <1>0, <2>1, <2>2, <2>3 DEF IInv, TypeOK
<1>3. /\ (executed + 1) * InitialStake = executed * InitialStake + InitialStake
      /\ (executed + 1) * InitialStake <= StakingAttempts * InitialStake
      /\ executed * InitialStake \in Nat
      /\ StakingAttempts * InitialStake \in Nat
  BY <1>1, ProductGrows, RegistrationAssumption
<1>4. stake'[Topic] = stake[Topic] + InitialStake /\ stake[Topic] \in Nat
  BY <1>0 DEF IInv, TypeOK
<1>5. stake'[Topic] <= executed' * InitialStake
  <2>1. stake[Topic] <= executed * InitialStake
    BY DEF IInv, StakeAccounted
  <2> QED BY <1>3, <1>4, <2>1, RegistrationAssumption
<1>6. \A t \in Topics : t # Topic => stake'[t] = stake[t]
  BY DEF IInv, TypeOK
<1>7. StakeAccounted'
  <2>1. \A t \in Topics : t \notin registered' => stake'[t] = 0
    BY <1>6 DEF IInv, StakeAccounted
  <2>2. executed' <= StakingAttempts
    BY <1>1
  <2> QED BY <1>0, <1>5, <2>1, <2>2 DEF StakeAccounted
<1>8. StakeBounded'
  <2>1. stake'[Topic] <= StakingAttempts * InitialStake
    <3>1. stake'[Topic] \in Nat
      BY <1>0, <1>2 DEF TypeOK
    <3>2. stake'[Topic] <= (executed + 1) * InitialStake
      BY <1>5
    <3>3. (executed + 1) * InitialStake \in Nat
      BY <1>1, ProductGrows, RegistrationAssumption
    <3> QED BY ONLY <1>3, <3>1, <3>2, <3>3
  <2> QED BY <1>6, <2>1 DEF IInv, StakeBounded
<1>9. AtNumericalTopic' /\ OldTopicsPassed' /\ PassedTopicsAccounted' /\ EveryTopicAccounted'
  BY <1>0 DEF IInv, AtNumericalTopic, OldTopicsPassed, PassedTopicsAccounted, EveryTopicAccounted
<1> QED BY <1>2, <1>7, <1>8, <1>9 DEF IInv

LEMMA AddStakeReturnsIInv == IInv /\ AddStakeReturns => IInv'
<1> SUFFICES ASSUME IInv, AddStakeReturns PROVE IInv'
  OBVIOUS
<1> USE TopicIdsFacts DEF AddStakeReturns, chain
<1>0. Topic \in Topics /\ index <= Len(TopicIds)
  BY DEF IInv, AtNumericalTopic
<1>1. TypeOK'
  BY <1>0, RegistrationAssumption DEF IInv, TypeOK
<1>2. AtNumericalTopic' /\ StakeAccounted' /\ StakeBounded' /\ OldTopicsPassed'
  BY DEF IInv, AtNumericalTopic, StakeAccounted, StakeBounded, OldTopicsPassed
<1>3. PassedTopicsAccounted'
  BY <1>0 DEF IInv, TypeOK, PassedTopicsAccounted, Topic
<1>4. EveryTopicAccounted'
  BY DEF EveryTopicAccounted
<1> QED BY <1>1, <1>2, <1>3, <1>4 DEF IInv

LEMMA NextIInv == IInv /\ [Next]_vars => IInv'
<1> SUFFICES ASSUME IInv, [Next]_vars PROVE IInv'
  OBVIOUS
<1>1. CASE RegistrationQueryFails
  BY <1>1, ExcuseIInv DEF RegistrationQueryFails, AtTopic, Numerical
<1>2. CASE BalanceQueryFails \/ BalanceTooLow
  <2>1. index <= Len(TopicIds) /\ Topic \in Topics
    BY <1>2 DEF BalanceQueryFails, BalanceTooLow, IInv, AtNumericalTopic
  <2> QED BY <1>2, <2>1, ExcuseIInv DEF BalanceQueryFails, BalanceTooLow
<1>3. CASE UNCHANGED vars
  BY <1>3 DEF vars, node, chain, IInv, TypeOK, AtNumericalTopic, StakeAccounted, StakeBounded,
              OldTopicsPassed, PassedTopicsAccounted, EveryTopicAccounted, Topic
<1> QED
  BY <1>1, <1>2, <1>3, StartIInv, QueryParamsIInv, EndOfTopicsIInv, NotNumericalIInv,
     AlreadyRegisteredIInv, NotRegisteredIInv, BalanceSufficesIInv, CrashIInv,
     ExecuteRegisterIInv, RegisterReturnsIInv, ExecuteAddStakeIInv, AddStakeReturnsIInv
     DEF Next, Terminated

-----------------------------------------------------------------------------
(* The invariant holds in every reachable state.                           *)
THEOREM Invariance == Spec => []IInv
  BY InitIInv, NextIInv, PTL DEF Spec

(* Every variable keeps its type: the index stays within the configuration *)
(* and the balance never goes below zero.                                  *)
THEOREM TypeCorrect == Spec => []TypeOK
<1>1. IInv => TypeOK
  BY DEF IInv
<1> QED BY <1>1, Invariance, PTL

(* Over any number of crashes and repeated runs of registerWithBlockchain, *)
(* no topic receives more initial stakes than one call makes attempts.     *)
THEOREM StakeIsBoundedAcrossCrashes == Spec => []StakeBounded
<1>1. IInv => StakeBounded
  BY DEF IInv
<1> QED BY <1>1, Invariance, PTL

(* A pass over the configured topics leaves none out, wherever and         *)
(* however often single topics fail.                                       *)
THEOREM NoTopicLeftOut == Spec => []EveryTopicAccounted
<1>1. IInv => EveryTopicAccounted
  BY DEF IInv
<1> QED BY <1>1, Invariance, PTL

(* A later run never stakes on a topic that was registered before it.      *)
THEOREM OldTopicsKeepTheirStake == Spec => NoStakeWhenAlreadyRegistered
<1>1. IInv /\ [Next]_vars => [\A t \in registeredAtStart : stake'[t] = stake[t]]_vars
  <2> SUFFICES ASSUME IInv, Next, NEW t \in registeredAtStart PROVE stake'[t] = stake[t]
    BY DEF vars
  <2>1. t \in Topics
    BY DEF IInv, TypeOK
  <2>2. CASE ExecuteAddStake
    <3>1. t # Topic
      BY <2>2 DEF IInv, OldTopicsPassed, ExecuteAddStake
    <3> QED BY <2>1, <2>2, <3>1 DEF ExecuteAddStake, IInv, TypeOK
  <2>3. CASE UNCHANGED stake
    BY <2>3
  <2> QED
    BY <2>2, <2>3 DEF Next, Start, QueryParams, EndOfTopics, NotNumerical, RegistrationQueryFails,
      AlreadyRegistered, NotRegistered, BalanceQueryFails, BalanceTooLow, BalanceSuffices, Excuse,
      ExecuteRegister, RegisterReturns, AddStakeReturns, Crash, Terminated, vars, chain
<1> QED BY <1>1, Invariance, PTL DEF Spec, NoStakeWhenAlreadyRegistered

-----------------------------------------------------------------------------
(* The refinement of TopicStaking.                                         *)

StakingTopic == IF pc \in {"register", "stake"} THEN {Topic} \cap registered ELSE {}

LEMMA InitStakes == Init => Staking!Init
  BY DEF Init, Staking!Init

(* Steps that leave the chain alone, and either stay with the topic, or    *)
(* come to one that is not registered, or leave it.                        *)
LEMMA ChainUntouched ==
  ASSUME UNCHANGED chain, StakingTopic' = StakingTopic \/ StakingTopic' = {}
  PROVE  [Staking!Next]_(Staking!vars)
<1>1. CASE StakingTopic' = StakingTopic
  BY <1>1 DEF chain, StakingTopic, Staking!vars
<1>2. CASE StakingTopic' = {}
  BY <1>2 DEF chain, StakingTopic, Staking!Next, Staking!EndStaking
<1> QED BY <1>1, <1>2

LEMMA ExecuteRegisterStakes ==
  ASSUME IInv, ExecuteRegister
  PROVE  Staking!Register(Topic) /\ Topic \in Topics
<1>1. Topic \in Topics /\ Topic' = Topic
  BY DEF IInv, AtNumericalTopic, ExecuteRegister, Topic
<1>2. StakingTopic = {} /\ StakingTopic' = {Topic}
  BY <1>1 DEF ExecuteRegister, StakingTopic
<1> QED BY <1>1, <1>2 DEF ExecuteRegister, StakingTopic, Staking!Register

LEMMA ExecuteAddStakeStakes ==
  ASSUME IInv, ExecuteAddStake
  PROVE  Staking!AddStake(Topic) /\ Topic \in Topics
<1>1. Topic \in Topics /\ Topic' = Topic
  BY DEF IInv, AtNumericalTopic, ExecuteAddStake, Topic
<1>2. StakingTopic = {Topic} /\ StakingTopic' = StakingTopic
  BY <1>1 DEF ExecuteAddStake, StakingTopic
<1>3. stake[Topic] + InitialStake <= StakingAttempts * InitialStake
  <2>1. executed \in Nat /\ executed + 1 <= StakingAttempts
    BY RegistrationAssumption DEF ExecuteAddStake, MayStake, IInv, TypeOK
  <2>2. /\ (executed + 1) * InitialStake = executed * InitialStake + InitialStake
        /\ (executed + 1) * InitialStake <= StakingAttempts * InitialStake
        /\ executed * InitialStake \in Nat
        /\ StakingAttempts * InitialStake \in Nat
    BY <2>1, ProductGrows, RegistrationAssumption
  <2>3. stake[Topic] <= executed * InitialStake /\ stake[Topic] \in Nat
    BY <1>1 DEF ExecuteAddStake, IInv, StakeAccounted, TypeOK
  <2> QED BY <2>2, <2>3, RegistrationAssumption
<1> QED BY <1>1, <1>2, <1>3 DEF ExecuteAddStake, StakingTopic, Staking!AddStake

LEMMA NextStakes ==
  ASSUME IInv, [Next]_vars
  PROVE  [Staking!Next]_(Staking!vars)
<1>1. CASE ExecuteRegister
  BY <1>1, ExecuteRegisterStakes DEF Staking!Next
<1>2. CASE ExecuteAddStake
  BY <1>2, ExecuteAddStakeStakes DEF Staking!Next
<1>3. CASE BalanceSuffices
  <2>1. StakingTopic' = {}
    BY <1>3 DEF BalanceSuffices, IInv, StakeAccounted, StakingTopic, Topic, chain
  <2> QED BY <1>3, <2>1, ChainUntouched DEF BalanceSuffices
<1>4. CASE RegisterReturns
  <2>1. CASE Stakes
    <3>1. StakingTopic' = StakingTopic
      BY <1>4, <2>1 DEF RegisterReturns, StakingTopic, Topic, chain
    <3> QED BY <1>4, <3>1, ChainUntouched DEF RegisterReturns
  <2>2. CASE ~Stakes
    <3>1. StakingTopic' = {}
      BY <1>4, <2>2 DEF RegisterReturns, StakingTopic
    <3> QED BY <1>4, <3>1, ChainUntouched DEF RegisterReturns
  <2> QED BY <2>1, <2>2
<1>5. CASE \/ Start \/ QueryParams \/ EndOfTopics \/ NotNumerical \/ RegistrationQueryFails
           \/ AlreadyRegistered \/ NotRegistered \/ BalanceQueryFails \/ BalanceTooLow
           \/ AddStakeReturns \/ Crash
  <2>1. UNCHANGED chain /\ pc' \notin {"register", "stake"}
    BY <1>5 DEF Start, QueryParams, EndOfTopics, NotNumerical, RegistrationQueryFails,
      AlreadyRegistered, NotRegistered, BalanceQueryFails, BalanceTooLow, Excuse, AfterFailure,
      AddStakeReturns, Crash, AtTopic
  <2> QED BY <2>1, ChainUntouched DEF StakingTopic
<1>6. CASE UNCHANGED vars
  <2>1. UNCHANGED chain /\ StakingTopic' = StakingTopic
    BY <1>6 DEF vars, node, chain, StakingTopic, Topic
  <2> QED BY <2>1, ChainUntouched
<1> QED BY <1>1, <1>2, <1>3, <1>4, <1>5, <1>6 DEF Next, Terminated

(* All runs together, with every crash and lost acknowledgement between    *)
(* them, stake on a topic only in the one time its registration opens.     *)
THEOREM RegistrationStakesOnce == Spec => ImplementsTopicStaking
  BY InitStakes, NextStakes, Invariance, PTL DEF Spec, ImplementsTopicStaking, Staking!Spec
=============================================================================
