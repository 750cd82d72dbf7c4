--------------------------- MODULE LeaderPipeline ---------------------------
(***************************************************************************)
(* From the results of an execution request to the chain, on the worker or *)
(* reputer that leads it (cmd/node/main.go run, cmd/node/execute.go        *)
(* sendResultsToChain).  The node calls the response callback for each     *)
(* request it led, from goroutines of its own; the callback handles one    *)
(* response at a time under the lock resLoc, chain queries included, and   *)
(* leaves the payload to a sender goroutine that outlives it.              *)
(*                                                                         *)
(* What becomes of one set of results is the subject of                    *)
(* SendWorkerModeData.tla and SendReputerModeData.tla and is taken here by *)
(* how it ends: with a payload, with none, or, in the reputer's function,  *)
(* with a panic that ends the process.  A sender is taken by what it       *)
(* promises (BoundedDelivery.tla), the client by what ChainConnection.tla  *)
(* promises: it may come late, and it stays.                               *)
(***************************************************************************)
EXTENDS FiniteSets, TopicNames

CONSTANTS
  Responses,  \* the responses the node hands to the callback
  Received,   \* what they may say
  Free,       \* no response holds the lock
  Bound       \* executions of one payload: NUM_..._RETRIES + 1

(* A message: not JSON, not a code of success, or results of which, as the *)
(* function of this node's mode reads them, none parses, some parse and no *)
(* bundle is usable, or a bundle is usable; and the channel the head chose.*)
Messages ==
  [outcome : {"garbage", "notOK", "nothingParsed", "noBundle", "usable"},
   channel : Channels]

ASSUME PipelineAssumption ==
  /\ IsFiniteSet(Responses) /\ Free \notin Responses
  /\ Received \subseteq Messages
  /\ Bound \in Nat \ {0}

VARIABLES
  msg,          \* the message of each response
  pc,           \* where the callback is for each response
  resLoc,       \* the lock: its holder
  appchain,     \* whether run has a client
  sender,       \* the sender goroutine of each response
  executed,     \* chain: how often each payload was executed
  chainCommits, \* the counters workerChainCommit and reputerChainCommit
  workerMode,   \* configuration of this node
  running       \* whether the process runs

vars == <<msg, pc, resLoc, appchain, sender, executed, chainCommits, workerMode, running>>

Returned == {r \in Responses : sender[r] = "returned"}
Delivery == INSTANCE BoundedDelivery WITH Calls <- Responses, returned <- Returned

Init ==
  /\ msg \in [Responses -> Received]
  /\ pc = [r \in Responses |-> "idle"]
  /\ resLoc = Free
  /\ appchain \in BOOLEAN
  /\ sender = [r \in Responses |-> "none"]
  /\ executed = [r \in Responses |-> 0]
  /\ chainCommits = [mode \in {"worker", "reputer"} |-> 0]
  /\ workerMode \in {"worker", "reputer"}
  /\ running = TRUE

Goto(r, where) == pc' = [pc EXCEPT ![r] = where]

-----------------------------------------------------------------------------
Arrives(r) ==
  /\ running
  /\ pc[r] = "idle"
  /\ Goto(r, "lock")
  /\ UNCHANGED <<msg, workerMode, resLoc, appchain, sender, executed, chainCommits, running>>

Lock(r) ==
  /\ running
  /\ pc[r] = "lock"
  /\ resLoc = Free
  /\ resLoc' = r
  /\ Goto(r, "unmarshal")
  /\ UNCHANGED <<msg, workerMode, appchain, sender, executed, chainCommits, running>>

AfterGarbageDone == "done"
AfterGarbage == "unlock"

Unmarshal(r) ==
  /\ running
  /\ pc[r] = "unmarshal"
  /\ Goto(r, IF msg[r].outcome = "garbage" THEN AfterGarbage ELSE "sendResults")
  /\ UNCHANGED <<msg, workerMode, resLoc, appchain, sender, executed, chainCommits, running>>

HasTopic(r) == NumTopicId(msg[r].channel) # NoNumber
SubmittableWhateverCode(r) == appchain /\ HasTopic(r)
Submittable(r) == appchain /\ msg[r].outcome # "notOK" /\ HasTopic(r)

(* sendResultsToChain reads the client when it is called.                  *)
SendResultsToChain(r) ==
  /\ running
  /\ pc[r] = "sendResults"
  /\ Goto(r, IF Submittable(r) THEN "modeData" ELSE "unlock")
  /\ UNCHANGED <<msg, workerMode, resLoc, appchain, sender, executed, chainCommits, running>>

(* SendWorkerModeData or SendReputerModeData, by the worker mode of this   *)
(* node, whatever the channel's.                                           *)
LeadsAsChannel(r) == msg[r].channel.mode
LeadsAs(r) == workerMode

(* A worker takes the nonce from any output that parses, before it looks   *)
(* at the bundle, and sends what it has under it, bundles or not.          *)
PayloadDue(r) ==
  \/ LeadsAs(r) = "worker" /\ msg[r].outcome \in {"noBundle", "usable"}
  \/ LeadsAs(r) = "reputer" /\ msg[r].outcome = "usable"

(* A reputer with usable bundles may still fall silent, when the height -1 *)
(* wins the vote.                                                          *)
NoPayload(r) == ~PayloadDue(r) \/ LeadsAs(r) = "reputer"

(* The commit is counted when the function is back, payload or not.        *)
SendModeData(r) ==
  /\ running
  /\ pc[r] = "modeData"
  /\ \/ PayloadDue(r) /\ sender' = [sender EXCEPT ![r] = "running"]
     \/ NoPayload(r) /\ UNCHANGED sender
  /\ chainCommits' = [chainCommits EXCEPT ![LeadsAs(r)] = @ + 1]
  /\ Goto(r, "unlock")
  /\ UNCHANGED <<msg, workerMode, resLoc, appchain, executed, running>>

(* The reputer's function panics with usable bundles only, and nobody      *)
(* recovers: the process ends, with the senders of earlier responses.      *)
ModeDataPanics(r) ==
  /\ running
  /\ pc[r] = "modeData"
  /\ LeadsAs(r) = "reputer" /\ PayloadDue(r)
  /\ running' = FALSE
  /\ UNCHANGED <<msg, workerMode, pc, resLoc, appchain, sender, executed, chainCommits>>

Unlock(r) ==
  /\ running
  /\ pc[r] = "unlock"
  /\ resLoc' = Free
  /\ Goto(r, "done")
  /\ UNCHANGED <<msg, workerMode, appchain, sender, executed, chainCommits, running>>

-----------------------------------------------------------------------------
(* The sender goroutines.                                                  *)
Execute(r) ==
  /\ running
  /\ sender[r] = "running"
  /\ UNCHANGED <<msg, workerMode, pc, resLoc, appchain, sender, chainCommits, running>>
  /\ Delivery!Execute(r)

SenderReturns(r) ==
  /\ running
  /\ sender[r] = "running"
  /\ sender' = [sender EXCEPT ![r] = "returned"]
  /\ UNCHANGED <<msg, workerMode, pc, resLoc, appchain, executed, chainCommits, running>>

(* The reconnection ticker.                                                *)
Connects ==
  /\ running
  /\ ~appchain
  /\ appchain' = TRUE
  /\ UNCHANGED <<msg, workerMode, pc, resLoc, sender, executed, chainCommits, running>>

(* run returns and the process ends, with all its goroutines.              *)
Exits ==
  /\ running
  /\ running' = FALSE
  /\ UNCHANGED <<msg, workerMode, pc, resLoc, appchain, sender, executed, chainCommits>>

Handle(r) ==
  \/ Unmarshal(r) \/ SendResultsToChain(r) \/ SendModeData(r) \/ ModeDataPanics(r)
  \/ Unlock(r)

Exited == ~running /\ UNCHANGED vars

Next ==
  \/ \E r \in Responses : Arrives(r) \/ Lock(r) \/ Handle(r) \/ Execute(r) \/ SenderReturns(r)
  \/ Connects
  \/ Exits
  \/ Exited

(* A goroutine that can run is run, a free lock is given to a waiter, and  *)
(* chain queries come back.  Responses need not arrive, the client need    *)
(* not come, the chain need not execute anything.                          *)
Fairness ==
  \A r \in Responses :
    WF_vars(Lock(r)) /\ WF_vars(Handle(r)) /\ WF_vars(SenderReturns(r))

Spec == Init /\ [][Next]_vars
FairSpec == Spec /\ Fairness

-----------------------------------------------------------------------------
Dispatchable ==
  {r \in Responses :
     msg[r].outcome \in {"nothingParsed", "noBundle", "usable"} /\ HasTopic(r)}

TypeOK ==
  /\ msg \in [Responses -> Received]
  /\ pc \in [Responses -> {"idle", "lock", "unmarshal", "sendResults", "modeData",
                           "unlock", "done"}]
  /\ resLoc \in Responses \cup {Free}
  /\ appchain \in BOOLEAN
  /\ sender \in [Responses -> {"none", "running", "returned"}]
  /\ executed \in [Responses -> 0..Bound]
  /\ chainCommits \in [{"worker", "reputer"} -> 0..Cardinality(Dispatchable)]
  /\ workerMode \in {"worker", "reputer"}
  /\ running \in BOOLEAN

Handling(r) == pc[r] \in {"unmarshal", "sendResults", "modeData", "unlock"}

(* The lock is held exactly while its holder is handled: responses are     *)
(* handled one at a time, and a response that ended early, on any path,    *)
(* does not keep the lock.                                                 *)
LockHeldWhileHandling == \A r \in Responses : resLoc = r <=> Handling(r)

(* What the function of this node's mode makes a payload of, for a channel *)
(* with a topic's number: a worker's leader of any output that parsed, a   *)
(* reputer's only of a usable bundle, whatever mode the channel is for.    *)
MakesPayload(r) ==
  /\ HasTopic(r)
  /\ msg[r].outcome \in (IF workerMode = "worker" THEN {"noBundle", "usable"}
                         ELSE {"usable"})

(* Only such results ever reach the chain, although what decides was       *)
(* checked long before, by a callback that has since ended; the sender of  *)
(* a response is started only when it was handled; and the node counts     *)
(* commits in the counter of its own mode alone, also when it leads        *)
(* requests on a channel of the other mode.                                *)
OnlyPayloadsOfModeReachChain ==
  /\ \A r \in Responses :
       /\ executed[r] > 0 => MakesPayload(r)
       /\ sender[r] # "none" => MakesPayload(r) /\ pc[r] \in {"unlock", "done"}
  /\ \A mode \in {"worker", "reputer"} : chainCommits[mode] > 0 => mode = workerMode

(* Each response is handled in the end, unless the process ends: no other  *)
(* response, well-formed or not, keeps it from the lock for good.          *)
EveryResponseHandled ==
  \A r \in Responses : pc[r] = "lock" ~> pc[r] = "done" \/ ~running
=============================================================================
