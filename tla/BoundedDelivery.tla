-------------------------- MODULE BoundedDelivery --------------------------
(***************************************************************************)
(* What SendDataWithRetry (cmd/node/appchain.go) promises the callers that *)
(* hand it a message, without the loop, the pauses and the errors: the     *)
(* chain executes the message some number of times, at most Bound, and     *)
(* never again once the call has returned.  It promises neither one        *)
(* execution nor at most one.  ChainRegistration.tla, whose messages are   *)
(* sent this way, takes a whole call as one such outcome.                  *)
(***************************************************************************)
EXTENDS Integers

CONSTANTS
  Calls,  \* the calls, one per message
  Bound   \* the largest number of executions of one message

VARIABLES
  executed,  \* how often the chain has executed each message
  returned   \* the calls that have returned

vars == <<executed, returned>>

Init ==
  /\ executed = [c \in Calls |-> 0]
  /\ returned = {}

(* The chain executes the message (once more).                             *)
Execute(c) ==
  /\ c \notin returned
  /\ executed[c] < Bound
  /\ executed' = [executed EXCEPT ![c] = @ + 1]
  /\ UNCHANGED returned

(* The call returns.                                                       *)
Return(c) ==
  /\ returned' = returned \cup {c}
  /\ UNCHANGED executed

(* An execution whose acknowledgement ends the call.                       *)
ExecuteAndReturn(c) ==
  /\ c \notin returned
  /\ executed[c] < Bound
  /\ executed' = [executed EXCEPT ![c] = @ + 1]
  /\ returned' = returned \cup {c}

Next == \E c \in Calls : Execute(c) \/ Return(c) \/ ExecuteAndReturn(c)

Spec == Init /\ [][Next]_vars
=============================================================================
