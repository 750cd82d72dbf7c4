------------------------- MODULE LeaderSubmission -------------------------
(***************************************************************************)
(* What the two ways a leader submits (SendWorkerModeData and              *)
(* SendReputerModeData, cmd/node/appchain.go) have in common, without the  *)
(* queries, the pages and the votes: it hears some of the executors'       *)
(* outputs, keeps the bundles that pass its checks, and ends once, with    *)
(* one payload of everything it kept, under a height it heard; in silence, *)
(* if it heard nothing or only had to take a height for none; or, a        *)
(* reputer leader, in a panic.                                             *)
(***************************************************************************)
EXTENDS Sequences

CONSTANTS
  Topic,    \* the topic of the request
  Heights,  \* the heights executors report
  Bundles,  \* the bundles that may be kept
  NoHeight, \* those of them that stand for no height
  MayPanic  \* whether the handler can panic

VARIABLES
  heard,    \* the heights of the outputs heard
  bundles,  \* the bundles kept, in the order they were heard
  outcome,  \* how the leader has ended, or "open"
  sent      \* the payloads handed to a sender

vars == <<heard, bundles, outcome, sent>>

Init ==
  /\ heard = {}
  /\ bundles = <<>>
  /\ outcome = "open"
  /\ sent = {}

Open == outcome = "open" /\ sent = {}

(* An output is heard, and its bundle is kept or not.                      *)
Hear ==
  /\ Open
  /\ \E h \in Heights : heard' = heard \cup {h}
  /\ \/ UNCHANGED bundles
     \/ \E b \in Bundles : bundles' = Append(bundles, b)
  /\ UNCHANGED <<outcome, sent>>

Submit ==
  /\ Open
  /\ outcome' = "sent"
  /\ \E h \in heard \ NoHeight :
       sent' = {[nonce |-> h, topic |-> Topic, bundles |-> bundles]}
  /\ UNCHANGED <<heard, bundles>>

StaySilent ==
  /\ Open
  /\ heard = {} \/ heard \cap NoHeight # {}
  /\ outcome' = "silent"
  /\ UNCHANGED <<heard, bundles, sent>>

Panic ==
  /\ MayPanic
  /\ Open
  /\ heard # {}
  /\ outcome' = "panicked"
  /\ UNCHANGED <<heard, bundles, sent>>

Next == Hear \/ Submit \/ StaySilent \/ Panic

Spec == Init /\ [][Next]_vars
=============================================================================
