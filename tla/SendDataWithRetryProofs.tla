---------------------- MODULE SendDataWithRetryProofs ----------------------
(* Proofs about SendDataWithRetry for every number of calls and retries    *)
(* and every range of delays.                                              *)
EXTENDS SendDataWithRetry, TLAPS

(* The counters behind the bounds.  A call that is about to broadcast has  *)
(* broadcast retryCount times, one that pauses or has been acknowledged    *)
(* once more; executions other than the acknowledged one have lost theirs. *)
BroadcastsCounted ==
  \A c \in Calls :
    /\ pc[c] = "idle" => retryCount[c] = 0
    /\ pc[c] \in {"idle", "broadcast"} =>
         /\ retryCount[c] <= MaxRetries
         /\ executed[c] <= retryCount[c]
    /\ pc[c] = "backoff" =>
         /\ retryCount[c] <= MaxRetries
         /\ executed[c] <= retryCount[c] + 1
    /\ executed[c] <= MaxRetries + 1

AckedOnce ==
  \A c \in Calls :
    /\ acked[c] => pc[c] = "returned"
    /\ acked[c] => executed[c] = lost[c] + 1
    /\ ~acked[c] => executed[c] = lost[c]

IInv == TypeOK /\ BroadcastsCounted /\ AckedOnce

-----------------------------------------------------------------------------
LEMMA InitIInv == Init => IInv
  BY RetryAssumption DEF Init, IInv, TypeOK, BroadcastsCounted, AckedOnce

LEMMA StartIInv ==
  ASSUME IInv, NEW c \in Calls, Start(c)
  PROVE  IInv'
  BY RetryAssumption DEF IInv, TypeOK, BroadcastsCounted, AckedOnce, Start

LEMMA BroadcastTxIInv ==
  ASSUME IInv, NEW c \in Calls, NEW answer \in Answers, BroadcastTx(c, answer)
  PROVE  IInv'
<1> USE RetryAssumption DEF Answers
<1>1. TypeOK'
  BY DEF IInv, TypeOK, BroadcastTx, ChainAnswers, AfterBroadcast
<1>2. BroadcastsCounted'
  BY DEF IInv, TypeOK, BroadcastsCounted, AckedOnce, BroadcastTx, ChainAnswers, AfterBroadcast
<1>3. AckedOnce'
  BY DEF IInv, TypeOK, BroadcastsCounted, AckedOnce, BroadcastTx, ChainAnswers, AfterBroadcast
<1> QED BY <1>1, <1>2, <1>3 DEF IInv

LEMMA ProductIsNat == ASSUME NEW m \in Nat, NEW n \in Nat PROVE m * n \in Nat
  OBVIOUS

LEMMA BackoffIInv ==
  ASSUME IInv, NEW c \in Calls, Backoff(c)
  PROVE  IInv'
<1>1. PICK randomDelay \in MinDelay..MaxDelay :
        slept' = [slept EXCEPT ![c] = @ + randomDelay * BackoffUnit(c)]
  BY DEF Backoff
<1>2. randomDelay * BackoffUnit(c) \in Nat
  <2>1. randomDelay \in Nat
    BY RetryAssumption
  <2>2. BackoffUnit(c) \in Nat
    BY DEF IInv, TypeOK, BackoffUnit
  <2> QED BY <2>1, <2>2, ProductIsNat
<1>3. slept' \in [Calls -> Nat]
  BY <1>1, <1>2 DEF IInv, TypeOK
<1>4. TypeOK'
  BY <1>3, RetryAssumption
    DEF IInv, TypeOK, BroadcastsCounted, Backoff, LoopAgain
<1>5. BroadcastsCounted'
  BY RetryAssumption
    DEF IInv, TypeOK, BroadcastsCounted, AckedOnce, Backoff, LoopAgain
<1>6. AckedOnce'
  BY DEF IInv, TypeOK, AckedOnce, Backoff
<1> QED BY <1>4, <1>5, <1>6 DEF IInv

LEMMA NextIInv == IInv /\ [Next]_vars => IInv'
<1> SUFFICES ASSUME IInv, [Next]_vars PROVE IInv'
  OBVIOUS
<1>1. CASE \E c \in Calls : Step(c)
  BY <1>1, StartIInv, BroadcastTxIInv, BackoffIInv DEF Step
<1>2. CASE UNCHANGED vars
  BY <1>2 DEF IInv, TypeOK, BroadcastsCounted, AckedOnce, vars
<1> QED BY <1>1, <1>2 DEF Next, Terminated

(* The inductive invariant holds of every run of every instance.           *)
THEOREM Invariance == Spec => []IInv
  BY InitIInv, NextIInv, PTL DEF Spec

(* Type correctness: the loop counter stays within the retries.            *)
THEOREM TypeCorrect == Spec => []TypeOK
<1>1. IInv => TypeOK
  BY DEF IInv
<1> QED BY <1>1, Invariance, PTL

(* A payload is executed at most MaxRetries + 1 times, and every execution *)
(* beyond the first has lost its acknowledgement.                          *)
THEOREM ExecutionsAreBounded == Spec => []ExecutionsBounded
<1>1. IInv => ExecutionsBounded
  <2> SUFFICES ASSUME IInv, NEW c \in Calls
               PROVE  executed[c] <= MaxRetries + 1 /\ executed[c] <= lost[c] + 1
    BY DEF ExecutionsBounded
  <2>1. executed[c] \in Nat /\ lost[c] \in Nat
    BY DEF IInv, TypeOK
  <2>2. executed[c] <= MaxRetries + 1
    BY DEF IInv, BroadcastsCounted
  <2>3. executed[c] = lost[c] + 1 \/ executed[c] = lost[c]
    BY Zenon DEF IInv, AckedOnce
  <2> QED BY <2>1, <2>2, <2>3
<1> QED BY <1>1, Invariance, PTL

(* A call that returns without an acknowledgement has been through all its *)
(* broadcasts: nothing else ends the loop.                                 *)
THEOREM NoEarlyGiveUp == Spec => []GivesUpOnlyAfterAllRetries
<1> DEFINE Spent == \A c \in Calls :
             pc[c] = "returned" /\ ~acked[c] => retryCount[c] = MaxRetries + 1
<1>1. Init => Spent
  BY DEF Init
<1>2. IInv /\ Spent /\ [Next]_vars => Spent'
  <2> SUFFICES ASSUME IInv, Spent, [Next]_vars PROVE Spent'
    OBVIOUS
  <2>1. ASSUME NEW c \in Calls, Start(c) PROVE Spent'
    BY <2>1 DEF IInv, TypeOK, Start
  <2>2. ASSUME NEW c \in Calls, NEW answer \in Answers, BroadcastTx(c, answer) PROVE Spent'
    BY <2>2 DEF IInv, TypeOK, BroadcastTx, ChainAnswers, AfterBroadcast
  <2>3. ASSUME NEW c \in Calls, Backoff(c) PROVE Spent'
    <3>1. pc[c] = "backoff" /\ retryCount[c] \in 0..MaxRetries
      BY <2>3, RetryAssumption DEF IInv, TypeOK, BroadcastsCounted, Backoff
    <3>2. pc'[c] = "returned" => retryCount'[c] = MaxRetries + 1
      BY <2>3, <3>1, RetryAssumption DEF IInv, TypeOK, Backoff, LoopAgain
    <3>3. \A d \in Calls \ {c} :
            pc'[d] = pc[d] /\ acked'[d] = acked[d] /\ retryCount'[d] = retryCount[d]
      BY <2>3 DEF IInv, TypeOK, Backoff
    <3> QED BY <3>2, <3>3
  <2>4. CASE UNCHANGED vars
    BY <2>4 DEF vars
  <2> QED BY <2>1, <2>2, <2>3, <2>4 DEF Next, Step, Terminated
<1>3. IInv /\ Spent => GivesUpOnlyAfterAllRetries
  BY Zenon DEF IInv, AckedOnce, GivesUpOnlyAfterAllRetries
<1> QED BY <1>1, <1>2, <1>3, Invariance, PTL DEF Spec

(* After an acknowledgement the payload is not broadcast again.            *)
THEOREM AckIsFinal == Spec => NoBroadcastAfterAck
<1> DEFINE Frozen(c) == acked[c] => executed'[c] = executed[c] /\ acked'[c]
<1>1. IInv /\ [Next]_vars => [\A c \in Calls : Frozen(c)]_vars
  <2> SUFFICES ASSUME IInv, Next, NEW d \in Calls, acked[d]
               PROVE  executed'[d] = executed[d] /\ acked'[d]
    BY DEF vars, Frozen
  <2>1. ASSUME NEW c \in Calls, Step(c)
        PROVE  executed'[d] = executed[d] /\ acked'[d]
    <3>1. CASE Start(c) \/ Backoff(c)
      BY <3>1 DEF Start, Backoff
    <3>2. CASE \E answer \in Answers : BroadcastTx(c, answer)
      <4>1. c # d
        BY <3>2 DEF IInv, AckedOnce, BroadcastTx
      <4> QED BY <3>2, <4>1 DEF IInv, TypeOK, BroadcastTx, ChainAnswers
    <3> QED BY <2>1, <3>1, <3>2 DEF Step
  <2> QED BY <2>1 DEF Next, Terminated, vars
<1> QED BY <1>1, Invariance, PTL DEF Spec, NoBroadcastAfterAck, Frozen

-----------------------------------------------------------------------------
(* The refinement of BoundedDelivery: a broadcast that the chain executes  *)
(* is an Execute or, acknowledged, an ExecuteAndReturn; the pause after    *)
(* the last broadcast is a Return; every other step stutters.              *)

returnedCalls == {c \in Calls : pc[c] = "returned"}

LEMMA BroadcastTxRefines ==
  ASSUME IInv, NEW c \in Calls, NEW answer \in Answers, BroadcastTx(c, answer)
  PROVE  [Delivery!Next]_Delivery!vars
<1> USE DEF Delivery!Next, Delivery!vars
<1>1. pc[c] = "broadcast" /\ executed[c] < MaxRetries + 1
  BY RetryAssumption DEF IInv, TypeOK, BroadcastsCounted, BroadcastTx
<1>2. CASE answer = "acknowledged"
  <2>1. returnedCalls' = returnedCalls \cup {c}
    BY <1>2 DEF returnedCalls, IInv, TypeOK, BroadcastTx, AfterBroadcast
  <2>2. executed' = [executed EXCEPT ![c] = @ + 1]
    BY <1>2 DEF BroadcastTx, ChainAnswers
  <2>3. Delivery!ExecuteAndReturn(c)
    BY <1>1, <2>1, <2>2 DEF returnedCalls, Delivery!ExecuteAndReturn
  <2> QED BY <2>3
<1>3. CASE answer # "acknowledged"
  <2>1. returnedCalls' = returnedCalls
    BY <1>1, <1>3 DEF returnedCalls, IInv, TypeOK, BroadcastTx, AfterBroadcast
  <2>2. CASE answer = "rejected"
    <3>1. executed' = executed
      BY <2>2 DEF BroadcastTx, ChainAnswers, IInv, TypeOK
    <3> QED BY <2>1, <3>1 DEF returnedCalls
  <2>3. CASE answer = "ackLost"
    <3>1. executed' = [executed EXCEPT ![c] = @ + 1]
      BY <2>3 DEF BroadcastTx, ChainAnswers
    <3>2. Delivery!Execute(c)
      BY <1>1, <2>1, <3>1 DEF returnedCalls, Delivery!Execute
    <3> QED BY <3>2
  <2> QED BY <1>3, <2>2, <2>3 DEF Answers
<1> QED BY <1>2, <1>3

LEMMA BackoffRefines ==
  ASSUME IInv, NEW c \in Calls, Backoff(c)
  PROVE  [Delivery!Next]_Delivery!vars
<1> USE DEF Delivery!Next, Delivery!vars
<1>1. executed' = executed
  BY DEF Backoff
<1>2. CASE LoopAgain(c)
  <2>1. returnedCalls' = returnedCalls
    BY <1>2 DEF returnedCalls, IInv, TypeOK, Backoff
  <2> QED BY <1>1, <2>1 DEF returnedCalls
<1>3. CASE ~LoopAgain(c)
  <2>1. returnedCalls' = returnedCalls \cup {c}
    BY <1>3 DEF returnedCalls, IInv, TypeOK, Backoff
  <2>2. Delivery!Return(c)
    BY <1>1, <2>1 DEF returnedCalls, Delivery!Return
  <2> QED BY <2>2
<1> QED BY <1>2, <1>3

(* The retry loop implements bounded delivery with MaxRetries + 1          *)
(* executions.                                                             *)
THEOREM Refinement == Spec => ImplementsBoundedDelivery
<1>1. Init => Delivery!Init
  BY DEF Init, Delivery!Init
<1>2. IInv /\ [Next]_vars => [Delivery!Next]_Delivery!vars
  <2> SUFFICES ASSUME IInv, [Next]_vars
               PROVE  [Delivery!Next]_Delivery!vars
    OBVIOUS
  <2>1. ASSUME NEW c \in Calls, Start(c)
        PROVE  UNCHANGED Delivery!vars
    <3>1. returnedCalls' = returnedCalls
      BY <2>1 DEF returnedCalls, IInv, TypeOK, Start
    <3> QED BY <2>1, <3>1 DEF Start, returnedCalls, Delivery!vars
  <2>2. ASSUME UNCHANGED vars
        PROVE  UNCHANGED Delivery!vars
    BY <2>2 DEF vars, Delivery!vars
  <2> QED BY <2>1, <2>2, BroadcastTxRefines, BackoffRefines
          DEF Next, Step, Terminated
<1> QED BY <1>1, <1>2, Invariance, PTL
        DEF Spec, ImplementsBoundedDelivery, Delivery!Spec

-----------------------------------------------------------------------------
(* What a call has left: twice its broadcasts, less the one it pauses      *)
(* after, and the step that starts it.                                     *)
StepsLeft(c) ==
  CASE pc[c] = "idle"      -> 2 * (MaxRetries + 1) + 1
    [] pc[c] = "broadcast" -> 2 * (MaxRetries + 1 - retryCount[c])
    [] pc[c] = "backoff"   -> 2 * (MaxRetries + 1 - retryCount[c]) - 1
    [] pc[c] = "returned"  -> 0

(* Whatever the chain answers, every step of a call leaves it with fewer,  *)
(* and no call's are ever more: a call ends after a number of steps fixed  *)
(* by the retries alone.                                                   *)
EveryStepCounts ==
  [][\A c \in Calls :
       /\ StepsLeft(c) \in Nat /\ StepsLeft(c)' \in Nat
       /\ StepsLeft(c)' <= StepsLeft(c)
       /\ Step(c) => StepsLeft(c)' < StepsLeft(c)]_vars

LEMMA StepsLeftIsNat == IInv => \A c \in Calls : StepsLeft(c) \in Nat
<1> SUFFICES ASSUME IInv, NEW c \in Calls PROVE StepsLeft(c) \in Nat
  OBVIOUS
<1>1. retryCount[c] \in Nat /\ MaxRetries \in Nat
  BY RetryAssumption DEF IInv, TypeOK
<1>2. pc[c] \in {"broadcast", "backoff"} => retryCount[c] <= MaxRetries
  BY DEF IInv, BroadcastsCounted
<1>3. pc[c] \in {"idle", "broadcast", "backoff", "returned"}
  BY DEF IInv, TypeOK
<1> QED BY <1>1, <1>2, <1>3 DEF StepsLeft

(* The steps of one call leave the others where they are.                  *)
LEMMA StepUsesUp ==
  ASSUME IInv, NEW c \in Calls, Step(c)
  PROVE  /\ StepsLeft(c)' < StepsLeft(c)
         /\ \A d \in Calls \ {c} : StepsLeft(d)' = StepsLeft(d)
<1>1. retryCount[c] \in Nat /\ MaxRetries \in Nat
  BY RetryAssumption DEF IInv, TypeOK
<1>2. StepsLeft(c)' < StepsLeft(c)
  <2>1. CASE Start(c)
    <3>1. pc[c] = "idle" /\ pc'[c] = "broadcast" /\ retryCount'[c] = 0
      BY <2>1 DEF IInv, TypeOK, BroadcastsCounted, Start
    <3> QED BY <1>1, <3>1 DEF StepsLeft
  <2>2. CASE \E answer \in Answers : BroadcastTx(c, answer)
    <3>1. /\ pc[c] = "broadcast" /\ pc'[c] \in {"returned", "backoff"}
          /\ retryCount'[c] = retryCount[c] /\ retryCount[c] <= MaxRetries
      BY <2>2 DEF IInv, TypeOK, BroadcastsCounted, BroadcastTx, AfterBroadcast
    <3> QED BY <1>1, <3>1 DEF StepsLeft
  <2>3. CASE Backoff(c)
    <3>1. /\ pc[c] = "backoff" /\ retryCount[c] <= MaxRetries
          /\ \/ pc'[c] = "returned"
             \/ pc'[c] = "broadcast" /\ retryCount'[c] = retryCount[c] + 1
      BY <2>3 DEF IInv, TypeOK, BroadcastsCounted, Backoff
    <3> QED BY <1>1, <3>1 DEF StepsLeft
  <2> QED BY <2>1, <2>2, <2>3 DEF Step
<1>3. \A d \in Calls \ {c} : pc'[d] = pc[d] /\ retryCount'[d] = retryCount[d]
  BY DEF IInv, TypeOK, Step, Start, BroadcastTx, Backoff
<1>4. ASSUME NEW d \in Calls \ {c} PROVE StepsLeft(d)' = StepsLeft(d)
  <2>1. pc'[d] = pc[d] /\ retryCount'[d] = retryCount[d]
    BY <1>3
  <2> QED BY <2>1, Zenon DEF StepsLeft
<1> QED BY <1>2, <1>4

(* A call that is run ends: its steps are numbered downwards.              *)
THEOREM CallsRunOut == Spec => EveryStepCounts
<1> DEFINE Counts ==
      \A c \in Calls :
        /\ StepsLeft(c) \in Nat /\ StepsLeft(c)' \in Nat
        /\ StepsLeft(c)' <= StepsLeft(c)
        /\ Step(c) => StepsLeft(c)' < StepsLeft(c)
<1>1. IInv /\ IInv' /\ [Next]_vars => [Counts]_vars
  <2> SUFFICES ASSUME IInv, IInv', Next, NEW d \in Calls
               PROVE  /\ StepsLeft(d) \in Nat /\ StepsLeft(d)' \in Nat
                      /\ StepsLeft(d)' <= StepsLeft(d)
                      /\ Step(d) => StepsLeft(d)' < StepsLeft(d)
    BY DEF Counts
  <2>1. StepsLeft(d) \in Nat
    BY StepsLeftIsNat
  <2>2. StepsLeft(d)' \in Nat
    <3>1. (\A c \in Calls : StepsLeft(c) \in Nat)'
      BY StepsLeftIsNat, PTL
    <3> QED BY <3>1
  <2>3. Step(d) => StepsLeft(d)' < StepsLeft(d)
    BY StepUsesUp
  <2>4. CASE \E c \in Calls : Step(c)
    <3>1. PICK c \in Calls : Step(c)
      BY <2>4
    <3>2. CASE c = d
      BY <2>1, <2>2, <2>3, <3>1, <3>2
    <3>3. CASE c # d
      BY <2>1, <2>2, <2>3, <3>1, <3>3, StepUsesUp
    <3> QED BY <3>2, <3>3
  <2>5. CASE UNCHANGED vars
    <3>1. StepsLeft(d)' = StepsLeft(d)
      BY <2>5 DEF vars, StepsLeft
    <3> QED BY <2>1, <2>2, <2>3, <3>1
  <2> QED BY <2>4, <2>5 DEF Next, Terminated
<1> QED BY <1>1, Invariance, PTL DEF Spec, EveryStepCounts, Counts

-----------------------------------------------------------------------------
LEMMA ProductMonotone ==
  ASSUME NEW m \in Nat, NEW n \in Nat, NEW k \in Nat, m <= n
  PROVE  m * k <= n * k
  OBVIOUS

(* The time a call has slept stays below MaxDelay times its current        *)
(* backoff factor.                                                         *)
THEOREM SleepStaysWithinBackoff == Spec => []SleepWithinBackoff
<1>1. Init => SleepWithinBackoff
  <2> SUFFICES ASSUME Init, NEW c \in Calls
               PROVE  slept[c] <= MaxDelay * (backoff[c] - 1)
    BY DEF SleepWithinBackoff
  <2>1. slept[c] = 0 /\ backoff[c] - 1 = 0
    BY DEF Init
  <2>2. MaxDelay * 0 = 0
    BY RetryAssumption
  <2>3. MaxDelay * (backoff[c] - 1) = 0
    BY <2>1, <2>2
  <2> QED BY <2>1, <2>3
<1>2. IInv /\ SleepWithinBackoff /\ [Next]_vars => SleepWithinBackoff'
  <2> SUFFICES ASSUME IInv, SleepWithinBackoff, [Next]_vars
               PROVE  SleepWithinBackoff'
    OBVIOUS
  <2>1. ASSUME UNCHANGED <<backoff, slept>>
        PROVE  SleepWithinBackoff'
    BY <2>1 DEF SleepWithinBackoff
  <2>2. ASSUME NEW c \in Calls, Backoff(c)
        PROVE  SleepWithinBackoff'
    <3>1. PICK randomDelay \in MinDelay..MaxDelay :
            slept' = [slept EXCEPT ![c] = @ + randomDelay * backoff[c]]
      BY <2>2 DEF Backoff, BackoffUnit
    <3>2. randomDelay * backoff[c] <= MaxDelay * backoff[c]
      BY ProductMonotone, RetryAssumption DEF IInv, TypeOK
    <3>3. slept[c] + randomDelay * backoff[c] <= MaxDelay * (2 * backoff[c] - 1)
      <4>1. slept[c] <= MaxDelay * (backoff[c] - 1)
        BY DEF SleepWithinBackoff
      <4>2. MaxDelay * (2 * backoff[c] - 1)
              = MaxDelay * (backoff[c] - 1) + MaxDelay * backoff[c]
        BY RetryAssumption DEF IInv, TypeOK
      <4>3. /\ slept[c] \in Int
            /\ randomDelay * backoff[c] \in Int
            /\ MaxDelay * (backoff[c] - 1) \in Int
            /\ MaxDelay * backoff[c] \in Int
        BY RetryAssumption DEF IInv, TypeOK
      <4> QED BY <3>2, <4>1, <4>2, <4>3
    <3>4. /\ slept'[c] = slept[c] + randomDelay * backoff[c]
          /\ backoff'[c] = 2 * backoff[c]
      BY <2>2, <3>1 DEF Backoff, IInv, TypeOK
    <3>5. ASSUME NEW d \in Calls, d # c
          PROVE  slept'[d] = slept[d] /\ backoff'[d] = backoff[d]
      BY <2>2, <3>1, <3>5 DEF Backoff, IInv, TypeOK
    <3> QED BY <3>3, <3>4, <3>5 DEF SleepWithinBackoff
  <2> QED BY <2>1, <2>2
          DEF Next, Step, Terminated, Start, BroadcastTx, vars
<1> QED BY <1>1, <1>2, Invariance, PTL DEF Spec
=============================================================================
