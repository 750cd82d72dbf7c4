------------------------ MODULE LeaderPipelineProofs ------------------------
(***************************************************************************)
(* Proofs about LeaderPipeline for any finite number of responses, any     *)
(* messages and any bound on the executions of a payload.                  *)
(***************************************************************************)
EXTENDS LeaderPipeline, FiniteSetTheorems, TLAPS

(* What was checked before a response came to where it is.                 *)
CheckedInv ==
  \A r \in Responses :
    /\ pc[r] = "sendResults" => msg[r].outcome # "garbage"
    /\ pc[r] = "modeData" => r \in Dispatchable

(* The sender carries the checks on when the callback has ended.           *)
SenderInv ==
  \A r \in Responses :
    /\ executed[r] > 0 => sender[r] # "none"
    /\ sender[r] # "none" => MakesPayload(r) /\ pc[r] \in {"unlock", "done"}

(* Commits are counted at most once per response that was dispatched, all  *)
(* of them for the mode of the node.                                       *)
Dispatched == {r \in Dispatchable : pc[r] \in {"unlock", "done"}}

CountedInv ==
  /\ chainCommits \in [{"worker", "reputer"} -> Nat]
  /\ \A mode \in {"worker", "reputer"} :
       /\ chainCommits[mode] <= Cardinality(Dispatched)
       /\ chainCommits[mode] > 0 => mode = workerMode

(* TypeOK without the bound on the counters, which CountedInv implies.     *)
TypeInv ==
  /\ msg \in [Responses -> Received]
  /\ pc \in [Responses -> {"idle", "lock", "unmarshal", "sendResults", "modeData",
                           "unlock", "done"}]
  /\ resLoc \in Responses \cup {Free}
  /\ appchain \in BOOLEAN
  /\ sender \in [Responses -> {"none", "running", "returned"}]
  /\ executed \in [Responses -> 0..Bound]
  /\ workerMode \in {"worker", "reputer"}
  /\ running \in BOOLEAN

IInv ==
  /\ TypeInv
  /\ LockHeldWhileHandling
  /\ CheckedInv
  /\ SenderInv
  /\ CountedInv

-----------------------------------------------------------------------------
LEMMA DispatchedFinite ==
  /\ IsFiniteSet(Dispatchable) /\ IsFiniteSet(Dispatched)
  /\ Cardinality(Dispatched) \in Nat /\ Cardinality(Dispatchable) \in Nat
  /\ Cardinality(Dispatched) <= Cardinality(Dispatchable)
<1>1. Dispatchable \subseteq Responses /\ Dispatched \subseteq Dispatchable
  BY DEF Dispatchable, Dispatched
<1>2. IsFiniteSet(Dispatchable)
  BY <1>1, PipelineAssumption, FS_Subset
<1> QED
  BY <1>1, <1>2, FS_Subset, FS_CardinalityType

LEMMA InitIInv == Init => IInv
<1> SUFFICES ASSUME Init PROVE IInv
  OBVIOUS
<1> USE PipelineAssumption DEF Init
<1>1. TypeInv
  BY DEF TypeInv
<1>2. LockHeldWhileHandling
  BY DEF LockHeldWhileHandling, Handling
<1>3. CheckedInv /\ SenderInv
  BY DEF CheckedInv, SenderInv
<1>4. CountedInv
  BY DispatchedFinite DEF CountedInv
<1> QED BY <1>1, <1>2, <1>3, <1>4 DEF IInv

(* A step that keeps the messages, and takes no response back from where   *)
(* it was dispatched, keeps the count.                                     *)
LEMMA CountKept ==
  ASSUME CountedInv, msg' = msg, chainCommits' = chainCommits, workerMode' = workerMode,
         \A r \in Responses : pc[r] \in {"unlock", "done"} => pc'[r] \in {"unlock", "done"}
  PROVE  CountedInv'
<1>1. Dispatchable' = Dispatchable
  BY DEF Dispatchable, HasTopic
<1>2. Dispatchable \subseteq Responses
  BY DEF Dispatchable
<1>3. Dispatched \subseteq Dispatched'
  BY <1>1, <1>2 DEF Dispatched
<1>4. IsFiniteSet(Dispatched')
  <2>1. Dispatched' \subseteq Responses
    BY <1>1, <1>2 DEF Dispatched
  <2> QED BY <2>1, PipelineAssumption, FS_Subset
<1>5. /\ Cardinality(Dispatched) \in Nat /\ Cardinality(Dispatched') \in Nat
      /\ Cardinality(Dispatched) <= Cardinality(Dispatched')
  BY <1>3, <1>4, FS_Subset, FS_CardinalityType
<1> QED BY <1>5 DEF CountedInv

(* A step that leaves the callbacks and the lock alone.                    *)
LEMMA CallbacksAlone ==
  ASSUME IInv, UNCHANGED <<msg, pc, resLoc, chainCommits, workerMode>>
  PROVE  LockHeldWhileHandling' /\ CheckedInv' /\ CountedInv'
<1>1. LockHeldWhileHandling' /\ CheckedInv'
  BY DEF IInv, LockHeldWhileHandling, Handling, CheckedInv, Dispatchable, HasTopic
<1>2. CountedInv'
  BY CountKept DEF IInv
<1> QED BY <1>1, <1>2

LEMMA HandleKeeps ==
  ASSUME IInv, NEW r \in Responses, Handle(r)
  PROVE  IInv'
<1> USE PipelineAssumption DEF IInv
<1>1. CASE Unmarshal(r)
  <2>1. TypeInv'
    BY <1>1 DEF TypeInv, Unmarshal, Goto, AfterGarbage
  <2>2. LockHeldWhileHandling'
    BY <1>1 DEF TypeInv, LockHeldWhileHandling, Handling, Unmarshal, Goto, AfterGarbage
  <2>3. CheckedInv'
    BY <1>1 DEF TypeInv, CheckedInv, Unmarshal, Goto, AfterGarbage, Dispatchable, HasTopic
  <2>4. SenderInv'
    BY <1>1 DEF TypeInv, SenderInv, Unmarshal, Goto, AfterGarbage, MakesPayload, HasTopic
  <2>5. CountedInv'
    BY <1>1, CountKept DEF TypeInv, Unmarshal, Goto
  <2> QED BY <2>1, <2>2, <2>3, <2>4, <2>5
<1>2. CASE SendResultsToChain(r)
  <2>1. TypeInv'
    BY <1>2 DEF TypeInv, SendResultsToChain, Goto
  <2>2. LockHeldWhileHandling'
    BY <1>2 DEF TypeInv, LockHeldWhileHandling, Handling, SendResultsToChain, Goto
  <2>3. CheckedInv'
    <3>1. Submittable(r) => r \in Dispatchable
      <4>1. msg[r].outcome \in {"garbage", "notOK", "nothingParsed", "noBundle", "usable"}
        BY DEF TypeInv, Messages
      <4>2. msg[r].outcome # "garbage"
        BY <1>2 DEF CheckedInv, SendResultsToChain
      <4> QED BY <4>1, <4>2 DEF Submittable, Dispatchable
    <3>2. Dispatchable' = Dispatchable
      BY <1>2 DEF SendResultsToChain, Dispatchable, HasTopic
    <3> QED
      BY <1>2, <3>1, <3>2 DEF TypeInv, CheckedInv, SendResultsToChain, Goto
  <2>4. SenderInv'
    BY <1>2 DEF TypeInv, SenderInv, SendResultsToChain, Goto, MakesPayload, HasTopic
  <2>5. CountedInv'
    BY <1>2, CountKept DEF TypeInv, SendResultsToChain, Goto
  <2> QED BY <2>1, <2>2, <2>3, <2>4, <2>5
<1>3. CASE SendModeData(r)
  <2>1. TypeInv'
    BY <1>3 DEF TypeInv, SendModeData, LeadsAs, Goto
  <2>2. LockHeldWhileHandling'
    BY <1>3 DEF TypeInv, LockHeldWhileHandling, Handling, SendModeData, Goto
  <2>3. CheckedInv'
    BY <1>3 DEF TypeInv, CheckedInv, SendModeData, Goto, Dispatchable, HasTopic
  <2>4. SenderInv'
    <3>1. HasTopic(r) /\ pc' = [pc EXCEPT ![r] = "unlock"] /\ UNCHANGED <<msg, workerMode, executed>>
      BY <1>3 DEF CheckedInv, SendModeData, Dispatchable, Goto
    <3>2. CASE PayloadDue(r) /\ sender' = [sender EXCEPT ![r] = "running"]
      <4>1. MakesPayload(r)
        BY <3>1, <3>2 DEF PayloadDue, LeadsAs, MakesPayload, TypeInv
      <4> QED BY <3>1, <3>2, <4>1 DEF TypeInv, SenderInv, MakesPayload, HasTopic
    <3>3. CASE UNCHANGED sender
      BY <3>1, <3>3 DEF TypeInv, SenderInv, MakesPayload, HasTopic
    <3> QED BY <1>3, <3>2, <3>3 DEF SendModeData
  <2>5. CountedInv'
    <3>1. r \in Dispatchable /\ r \notin Dispatched
      BY <1>3 DEF CheckedInv, SendModeData, Dispatched
    <3>2. Dispatched' = Dispatched \cup {r}
      BY <1>3, <3>1 DEF TypeInv, SendModeData, Goto, Dispatched, Dispatchable, HasTopic
    <3>3. Cardinality(Dispatched') = Cardinality(Dispatched) + 1
      BY <3>1, <3>2, DispatchedFinite, FS_AddElement
    <3> QED
      BY <1>3, <3>3, DispatchedFinite DEF CountedInv, SendModeData, LeadsAs, TypeInv
  <2> QED BY <2>1, <2>2, <2>3, <2>4, <2>5
<1>4. CASE Unlock(r)
  <2>1. TypeInv'
    BY <1>4 DEF TypeInv, Unlock, Goto
  <2>2. LockHeldWhileHandling'
    BY <1>4 DEF TypeInv, LockHeldWhileHandling, Handling, Unlock, Goto
  <2>3. CheckedInv'
    BY <1>4 DEF TypeInv, CheckedInv, Unlock, Goto, Dispatchable, HasTopic
  <2>4. SenderInv'
    BY <1>4 DEF TypeInv, SenderInv, Unlock, Goto, MakesPayload, HasTopic
  <2>5. CountedInv'
    BY <1>4, CountKept DEF TypeInv, Unlock, Goto
  <2> QED BY <2>1, <2>2, <2>3, <2>4, <2>5
<1>5. CASE ModeDataPanics(r)
  <2>1. TypeInv' /\ SenderInv'
    BY <1>5 DEF TypeInv, SenderInv, ModeDataPanics, MakesPayload, HasTopic
  <2> QED BY <1>5, <2>1, CallbacksAlone DEF ModeDataPanics
<1> QED BY <1>1, <1>2, <1>3, <1>4, <1>5 DEF Handle

LEMMA NextIInv == IInv /\ [Next]_vars => IInv'
<1> SUFFICES ASSUME IInv, [Next]_vars PROVE IInv'
  OBVIOUS
<1> USE PipelineAssumption DEF IInv
<1>1. ASSUME NEW r \in Responses, Arrives(r) PROVE IInv'
  <2>1. TypeInv'
    BY <1>1 DEF TypeInv, Arrives, Goto
  <2>2. LockHeldWhileHandling' /\ CheckedInv' /\ SenderInv'
    BY <1>1 DEF TypeInv, LockHeldWhileHandling, Handling, CheckedInv, SenderInv, Arrives, Goto,
       MakesPayload, Dispatchable, HasTopic
  <2>3. CountedInv'
    BY <1>1, CountKept DEF TypeInv, Arrives, Goto
  <2> QED BY <2>1, <2>2, <2>3
<1>2. ASSUME NEW r \in Responses, Lock(r) PROVE IInv'
  <2>1. TypeInv'
    BY <1>2 DEF TypeInv, Lock, Goto
  <2>2. LockHeldWhileHandling' /\ CheckedInv' /\ SenderInv'
    BY <1>2 DEF TypeInv, LockHeldWhileHandling, Handling, CheckedInv, SenderInv, Lock, Goto,
       MakesPayload, Dispatchable, HasTopic
  <2>3. CountedInv'
    BY <1>2, CountKept DEF TypeInv, Lock, Goto
  <2> QED BY <2>1, <2>2, <2>3
<1>3. ASSUME NEW r \in Responses, Handle(r) PROVE IInv'
  BY <1>3, HandleKeeps
<1>4. ASSUME NEW r \in Responses, Execute(r) PROVE IInv'
  <2>1. executed' = [executed EXCEPT ![r] = @ + 1] /\ executed[r] < Bound
    BY <1>4 DEF Execute, Delivery!Execute
  <2>2. TypeInv'
    BY <1>4, <2>1 DEF TypeInv, Execute
  <2>3. SenderInv'
    BY <1>4, <2>1 DEF TypeInv, SenderInv, Execute, MakesPayload, HasTopic
  <2> QED BY <1>4, <2>2, <2>3, CallbacksAlone DEF Execute
<1>5. ASSUME NEW r \in Responses, SenderReturns(r) PROVE IInv'
  <2>1. TypeInv' /\ SenderInv'
    BY <1>5 DEF TypeInv, SenderInv, SenderReturns, MakesPayload, HasTopic
  <2> QED BY <1>5, <2>1, CallbacksAlone DEF SenderReturns
<1>6. CASE Connects \/ Exits
  <2>1. TypeInv' /\ SenderInv'
    BY <1>6 DEF TypeInv, SenderInv, Connects, Exits, MakesPayload, HasTopic
  <2> QED BY <1>6, <2>1, CallbacksAlone DEF Connects, Exits
<1>7. CASE UNCHANGED vars
  <2>1. TypeInv' /\ SenderInv'
    BY <1>7 DEF vars, TypeInv, SenderInv, MakesPayload, HasTopic
  <2> QED BY <1>7, <2>1, CallbacksAlone DEF vars
<1> QED
  BY <1>1, <1>2, <1>3, <1>4, <1>5, <1>6, <1>7 DEF Next, Exited

-----------------------------------------------------------------------------
(* The invariant holds in every reachable state.                           *)
THEOREM Invariance == Spec => []IInv
  BY InitIInv, NextIInv, PTL DEF Spec

(* Every variable keeps its type, and no more commits are counted than     *)
(* responses passed the checks of sendResultsToChain.                      *)
THEOREM TypeCorrect == Spec => []TypeOK
<1>1. IInv => TypeOK
  <2> SUFFICES ASSUME IInv PROVE TypeOK
    OBVIOUS
  <2>1. chainCommits \in [{"worker", "reputer"} -> 0..Cardinality(Dispatchable)]
    BY DispatchedFinite DEF IInv, CountedInv
  <2> QED BY <2>1 DEF IInv, TypeInv, TypeOK
<1> QED BY <1>1, Invariance, PTL

(* The lock of the response callback is held exactly while its holder is   *)
(* handled, whatever the responses say.                                    *)
THEOREM LockIsReleased == Spec => []LockHeldWhileHandling
<1>1. IInv => LockHeldWhileHandling
  BY DEF IInv
<1> QED BY <1>1, Invariance, PTL

(* No execution by the chain, and no sender, goes back to a response that  *)
(* was not OK or had no topic, nor to one the function of this node's mode *)
(* makes no payload of: in a worker's node one of which no output parsed,  *)
(* in a reputer's one without a usable bundle.  Commits are counted for    *)
(* the mode of the node alone.                                             *)
THEOREM ChainSeesPayloadsOfModeOnly == Spec => []OnlyPayloadsOfModeReachChain
<1>1. IInv => OnlyPayloadsOfModeReachChain
  BY DEF IInv, SenderInv, CountedInv, OnlyPayloadsOfModeReachChain, TypeInv
<1> QED BY <1>1, Invariance, PTL

-----------------------------------------------------------------------------
(* However responses, lock and the end of the process interleave, the      *)
(* payloads of all responses are bounded deliveries: at most Bound         *)
(* executions each, and none after its sender has returned.                *)
THEOREM PayloadsAreBoundedDeliveries == Spec => Delivery!Spec
<1>1. Init => Delivery!Init
  BY DEF Init, Delivery!Init, Returned
<1>2. IInv /\ [Next]_vars => [Delivery!Next]_Delivery!vars
  <2> SUFFICES ASSUME IInv, Next PROVE [Delivery!Next]_Delivery!vars
    BY DEF vars, Delivery!vars, Returned
  <2> USE DEF IInv, TypeInv
  <2>1. ASSUME NEW r \in Responses, Execute(r) PROVE Delivery!Next
    BY <2>1 DEF Execute, Delivery!Next
  <2>2. ASSUME NEW r \in Responses, SenderReturns(r) PROVE Delivery!Next
    <3>1. Returned' = Returned \cup {r}
      BY <2>2 DEF SenderReturns, Returned
    <3> QED
      BY <2>2, <3>1 DEF SenderReturns, Delivery!Return, Delivery!Next
  <2>3. ASSUME NEW r \in Responses, SendModeData(r) PROVE UNCHANGED Delivery!vars
    <3>1. sender[r] = "none"
      BY <2>3 DEF SenderInv, SendModeData
    <3>2. Returned' = Returned
      BY <2>3, <3>1 DEF SendModeData, Returned
    <3> QED
      BY <2>3, <3>2 DEF SendModeData, Delivery!vars
  <2>4. CASE UNCHANGED <<sender, executed>>
    BY <2>4 DEF Delivery!vars, Returned
  <2> QED
    BY <2>1, <2>2, <2>3, <2>4 DEF Next, Arrives, Lock, Handle, Unmarshal, SendResultsToChain,
       ModeDataPanics, Unlock, Connects, Exits, Exited, vars
<1> QED
  BY <1>1, <1>2, Invariance, PTL DEF Spec, Delivery!Spec
=============================================================================
