------------------------- MODULE SendDataWithRetry -------------------------
(***************************************************************************)
(* AppChain.SendDataWithRetry (cmd/node/appchain.go): a transaction is     *)
(* broadcast to the chain and, while the client reports an error, again,   *)
(* with an exponentially growing random pause in between.  The leader runs *)
(* each call in a goroutine of its own; registration and staking run it on *)
(* the caller's stack.                                                     *)
(*                                                                         *)
(* The client library and the chain are external.  All that the code sees  *)
(* of one BroadcastTx is a response and an error; what it does not see is  *)
(* whether the chain executed the transaction.  An error may come from a   *)
(* transaction that never executed or from one that did and whose          *)
(* acknowledgement was lost.                                               *)
(***************************************************************************)
EXTENDS Integers

CONSTANTS
  Calls,       \* the calls of SendDataWithRetry, one per payload
  MaxRetries,  \* NUM_..._RETRIES: retries after the first broadcast
  MinDelay,    \* NUM_..._RETRY_MIN_DELAY, seconds
  MaxDelay     \* NUM_..._RETRY_MAX_DELAY, seconds

ASSUME RetryAssumption ==
  /\ MaxRetries \in Nat
  /\ MinDelay \in Nat
  /\ MaxDelay \in Nat
  /\ MinDelay <= MaxDelay

VARIABLES
  pc,          \* where each call is: not started, in the loop, or returned
  retryCount,  \* the loop counter
  backoff,     \* 1 << retryCount
  txResp,      \* the named response the function returns a pointer to
  err,         \* the error the function returns
  acked,       \* history: the last broadcast came back without an error
  executed,    \* chain: how often this payload has been executed
  lost,        \* history: executions whose acknowledgement was lost
  slept        \* history: seconds this call has slept

vars == <<pc, retryCount, backoff, txResp, err, slept, acked, executed, lost>>

Init ==
  /\ pc         = [c \in Calls |-> "idle"]
  /\ retryCount = [c \in Calls |-> 0]
  /\ backoff    = [c \in Calls |-> 1]
  /\ txResp     = [c \in Calls |-> "nil"]
  /\ err        = [c \in Calls |-> "nil"]
  /\ acked      = [c \in Calls |-> FALSE]
  /\ executed   = [c \in Calls |-> 0]
  /\ lost       = [c \in Calls |-> 0]
  /\ slept      = [c \in Calls |-> 0]

-----------------------------------------------------------------------------
(* One broadcast.  The three answers of the client: the transaction was    *)
(* executed and acknowledged, it was not executed, or it was executed and  *)
(* the client still reports an error.                                      *)
Answers == {"acknowledged", "rejected", "ackLost"}

ChainAnswers(c, answer) ==
  /\ acked'    = [acked EXCEPT ![c] = (answer = "acknowledged")]
  /\ executed' = [executed EXCEPT ![c] = IF answer = "rejected" THEN @ ELSE @ + 1]
  /\ lost'     = [lost EXCEPT ![c] = IF answer = "ackLost" THEN @ + 1 ELSE @]

(* A goroutine or a synchronous caller enters the function.                *)
Start(c) ==
  /\ pc[c] = "idle"
  /\ pc' = [pc EXCEPT ![c] = "broadcast"]
  /\ UNCHANGED <<retryCount, backoff, txResp, err, acked, executed, lost, slept>>

AfterBroadcastIgnoringAck(c, answer) == "backoff"
AfterBroadcast(c, answer) == IF answer = "acknowledged" THEN "returned" ELSE "backoff"

(* The loop body up to the break.  Its err is a variable of the body that  *)
(* hides the err the function returns: the latter is never assigned.       *)
BroadcastTx(c, answer) ==
  /\ pc[c] = "broadcast"
  /\ ChainAnswers(c, answer)
  /\ txResp' = [txResp EXCEPT ![c] = "response"]
  /\ pc' = [pc EXCEPT ![c] = AfterBroadcast(c, answer)]
  /\ UNCHANGED <<retryCount, backoff, err, slept>>

LoopAgainOneTooMany(c) == retryCount[c] <= MaxRetries
LoopAgainOneTooFew(c) == retryCount[c] + 1 < MaxRetries
LoopAgain(c) == retryCount[c] + 1 <= MaxRetries

BackoffFromNextCount(c) == 2 * backoff[c]
BackoffUnit(c) == backoff[c]

(* The rest of the loop body: sleep a random delay shifted left by the     *)
(* loop counter, also after the last broadcast, then the loop header.      *)
Backoff(c) ==
  /\ pc[c] = "backoff"
  /\ \E randomDelay \in MinDelay..MaxDelay :
       slept' = [slept EXCEPT ![c] = @ + randomDelay * BackoffUnit(c)]
  /\ retryCount' = [retryCount EXCEPT ![c] = @ + 1]
  /\ backoff' = [backoff EXCEPT ![c] = 2 * @]
  /\ pc' = [pc EXCEPT ![c] = IF LoopAgain(c) THEN "broadcast" ELSE "returned"]
  /\ UNCHANGED <<txResp, err, acked, executed, lost>>

Step(c) == Start(c) \/ (\E a \in Answers : BroadcastTx(c, a)) \/ Backoff(c)

AllReturned == \A c \in Calls : pc[c] = "returned"
Terminated == AllReturned /\ UNCHANGED vars

Next == (\E c \in Calls : Step(c)) \/ Terminated

Spec == Init /\ [][Next]_vars

-----------------------------------------------------------------------------
TypeOK ==
  /\ pc \in [Calls -> {"idle", "broadcast", "backoff", "returned"}]
  /\ retryCount \in [Calls -> 0..(MaxRetries + 1)]
  /\ backoff \in [Calls -> Nat \ {0}]
  /\ txResp \in [Calls -> {"nil", "response"}]
  /\ err \in [Calls -> {"nil", "error"}]
  /\ acked \in [Calls -> BOOLEAN]
  /\ executed \in [Calls -> Nat]
  /\ lost \in [Calls -> Nat]
  /\ slept \in [Calls -> Nat]

(* However the acknowledgements are lost, the chain executes a payload at  *)
(* most MaxRetries + 1 times, and more than once only when acknowledgements *)
(* were lost: every surplus execution is paid for by a lost one.           *)
ExecutionsBounded ==
  \A c \in Calls :
    /\ executed[c] <= MaxRetries + 1
    /\ executed[c] <= lost[c] + 1

(* The pauses of a call, the useless one after the last broadcast included, *)
(* add up to less than MaxDelay times the current value of 1 << retryCount. *)
SleepWithinBackoff == \A c \in Calls : slept[c] <= MaxDelay * (backoff[c] - 1)

(* A call gives up on a payload no sooner than after MaxRetries + 1        *)
(* broadcasts, whatever the chain has answered and however often it has    *)
(* executed the payload: without an acknowledgement no answer ends it, and *)
(* then every execution has lost its acknowledgement.                      *)
GivesUpOnlyAfterAllRetries ==
  \A c \in Calls :
    pc[c] = "returned" /\ ~acked[c] =>
      retryCount[c] = MaxRetries + 1 /\ executed[c] = lost[c]

(* After an acknowledgement the payload is not broadcast again.            *)
NoBroadcastAfterAck ==
  [][\A c \in Calls : acked[c] => executed'[c] = executed[c] /\ acked'[c]]_vars

(* The loop implements bounded delivery: a call's message is executed at   *)
(* most once per broadcast and never after the call has returned.          *)
Delivery ==
  INSTANCE BoundedDelivery WITH
    Bound <- MaxRetries + 1,
    returned <- {c \in Calls : pc[c] = "returned"}

ImplementsBoundedDelivery == Delivery!Spec

(* What registerWithBlockchain relies on (appchain.go:277-279 ends the     *)
(* process with "could not register the node with the Allora blockchain in *)
(* topic" when err is not nil): a nil error means that the last broadcast  *)
(* was acknowledged.                                                       *)
NilErrorMeansAcknowledged ==
  \A c \in Calls : pc[c] = "returned" /\ err[c] = "nil" => acked[c]
=============================================================================
