------------------------- MODULE SendWorkerModeData -------------------------
(***************************************************************************)
(* AppChain.SendWorkerModeData (cmd/node/appchain.go): the worker leader   *)
(* turns the aggregated results of one execution request into one bulk     *)
(* payload.  It visits every peer of every result, asks the chain for the  *)
(* worker behind the peer, keeps the bundles that pass its checks and      *)
(* takes the nonce from the first output that parses.                      *)
(*                                                                         *)
(* External: the chain's registry of workers, whose query may fail for any *)
(* peer.  What the query returns is only logged.                           *)
(***************************************************************************)
EXTENDS Integers, Sequences, FiniteSets

CONSTANTS
  Peers,    \* libp2p peer ids
  Topics,
  Topic,    \* the topic of the request, argument topicId
  Heights,  \* block heights that outputs report
  Inputs    \* the possible values of the argument results

(* The standard output of a worker as the leader reads it.  "noBundle" is  *)
(* JSON that lacks the fields of a WorkerDataBundle: an executor without a *)
(* chain connection passes on the function's own output (main.go:171-174). *)
(* A block height that is missing is read as 0, and one that is there is   *)
(* what a peer wrote.  A bundle without an inference holds forecasts only. *)
Kinds == {"unparsable", "noBundle", "noForecastBundle", "inference", "forecastOnly"}

Outputs == [kind : Kinds, topic : Topics, height : Heights]

Results == [peers : Seq(Peers), out : Outputs]

ASSUME WorkerAssumption ==
  /\ Topic \in Topics
  /\ Heights \subseteq Int
  /\ Inputs \subseteq Seq(Results)

VARIABLES
  results,            \* argument: the aggregated results
  pc,
  next,               \* index of the current result
  peer,               \* index of the next peer of that result
  parsed,             \* history: the outputs that parsed, peer by peer
  unknown,            \* history: the peers whose query failed, <<result, peer>>
  WorkerDataBundles,  \* the bundles kept
  nonce,              \* {} (nil), or the set of the nonce's height
  sent                \* the payloads handed to a sender goroutine

vars == <<results, pc, next, peer, parsed, unknown, WorkerDataBundles, nonce, sent>>

Init ==
  /\ results \in Inputs
  /\ pc = "results"
  /\ next = 1
  /\ peer = 1
  /\ parsed = <<>>
  /\ unknown = {}
  /\ WorkerDataBundles = <<>>
  /\ nonce = {}
  /\ sent = {}

-----------------------------------------------------------------------------
AtResult == pc = "results" /\ next <= Len(results)
AtPeer == AtResult /\ peer <= Len(results[next].peers)

NextResult ==
  /\ AtResult
  /\ ~AtPeer
  /\ next' = next + 1
  /\ peer' = 1
  /\ UNCHANGED <<results, pc, parsed, unknown, WorkerDataBundles, nonce, sent>>

(* The chain does not know the peer's worker, or the query fails.          *)
PeerAfterUnknownBreak == Len(results[next].peers) + 1
PeerAfterUnknown == peer + 1

UnknownPeer ==
  /\ AtPeer
  /\ unknown' = unknown \cup {<<next, peer>>}
  /\ peer' = PeerAfterUnknown
  /\ UNCHANGED <<results, pc, next, parsed, WorkerDataBundles, nonce, sent>>

UnparsableOutput ==
  /\ AtPeer
  /\ results[next].out.kind = "unparsable"
  /\ peer' = peer + 1
  /\ UNCHANGED <<results, pc, next, parsed, unknown, WorkerDataBundles, nonce, sent>>

(* The topic of a bundle is checked when it has an inference.              *)
UsableForAnyTopic(out) == out.kind \in {"inference", "forecastOnly"}
Usable(out) ==
  \/ out.kind = "inference" /\ out.topic = Topic
  \/ out.kind = "forecastOnly"

NonceFromEach(out) == nonce \cup {out.height}
NonceWithoutHeight(out) == IF nonce = {} THEN {0} ELSE nonce
NonceFrom(out) == IF nonce = {} THEN {out.height} ELSE nonce

Keep(out) ==
  WorkerDataBundles' =
    IF Usable(out) THEN Append(WorkerDataBundles, out) ELSE WorkerDataBundles

(* The nonce is set from the first output that parses, before the bundle   *)
(* in it has passed its checks.                                            *)
ParsedOutput ==
  /\ AtPeer
  /\ LET out == results[next].out IN
       /\ out.kind # "unparsable"
       /\ parsed' = Append(parsed, out)
       /\ nonce' = NonceFrom(out)
       /\ Keep(out)
  /\ peer' = peer + 1
  /\ UNCHANGED <<results, pc, next, unknown, sent>>

NothingToSendIfNoBundle == WorkerDataBundles = <<>>
NothingToSend == nonce = {}

EndOfResults ==
  /\ pc = "results"
  /\ next > Len(results)
  /\ IF NothingToSend
     THEN pc' = "notSent" /\ UNCHANGED sent
     ELSE /\ pc' = "sent"
          /\ sent' = sent \cup {[nonce |-> CHOOSE h \in nonce : TRUE,
                                topic |-> Topic, bundles |-> WorkerDataBundles]}
  /\ UNCHANGED <<results, next, peer, parsed, unknown, WorkerDataBundles, nonce>>

Step == NextResult \/ UnknownPeer \/ UnparsableOutput \/ ParsedOutput \/ EndOfResults

Ended == pc \in {"sent", "notSent"}
Terminated == Ended /\ UNCHANGED vars

Next == Step \/ Terminated

Spec == Init /\ [][Next]_vars

-----------------------------------------------------------------------------
TypeOK ==
  /\ results \in Seq(Results)
  /\ pc \in {"results", "sent", "notSent"}
  /\ next \in 1..(Len(results) + 1)
  /\ peer \in Nat \ {0}
  /\ next <= Len(results) => peer <= Len(results[next].peers) + 1
  /\ parsed \in Seq(Outputs)
  /\ unknown \subseteq (Nat \X Nat)
  /\ WorkerDataBundles \in Seq(Outputs)
  /\ nonce \in {{}} \cup {{h} : h \in Heights}
  /\ \A req \in sent :
       req \in [nonce : Heights, topic : {Topic}, bundles : Seq(Outputs)]

(* When the peers the chain knows report one height, the payload carries   *)
(* that height and so does every bundle in it: the nonce, taken from one   *)
(* output, speaks for all of them.                                         *)
AgreementIsSent ==
  \A req \in sent, h \in Heights :
    (\A k \in DOMAIN parsed : parsed[k].height = h) =>
      req.nonce = h /\ \A k \in DOMAIN req.bundles : req.bundles[k].height = h

(* A bundle with an inference for another topic never reaches the chain.   *)
InferencesMatchTopic ==
  \A req \in sent : \A k \in DOMAIN req.bundles :
    req.bundles[k].kind = "inference" => req.bundles[k].topic = req.topic

(* The leader stays silent only when no output of a known peer parsed: no  *)
(* failed query for one peer drops the bundles of the others.              *)
SilentOnlyWithoutOutput == pc = "notSent" => parsed = <<>>

UsableOutputs == {out \in Outputs : Usable(out)}

Peerings == UNION {{i} \X DOMAIN results[i].peers : i \in DOMAIN results}
KnownWith(out) == {q \in Peerings \ unknown : results[q[1]].out = out}
Copies(bundles, out) == Cardinality({k \in DOMAIN bundles : bundles[k] = out})

(* For every peer the chain knows, wherever it stands in the results, the  *)
(* payload has its bundle if that was usable, once: a peer that the chain  *)
(* does not know, or whose output is of no use, takes no other peer's      *)
(* bundle with it, and none is there twice.                                *)
KnownPeersAreSent ==
  \A out \in UsableOutputs :
    /\ \A req \in sent : Copies(req.bundles, out) = Cardinality(KnownWith(out))
    /\ pc = "notSent" => KnownWith(out) = {}

(* The handler implements the submission a leader promises: whichever      *)
(* peers the chain does not know, it ends once, with one payload of all    *)
(* usable bundles it heard under the height of an output it heard, or, if  *)
(* no output parsed, without a payload.  It never panics.                  *)
Submission ==
  INSTANCE LeaderSubmission WITH
    Bundles <- UsableOutputs,
    NoHeight <- {},
    MayPanic <- FALSE,
    heard <- {parsed[k].height : k \in DOMAIN parsed},
    bundles <- WorkerDataBundles,
    outcome <- CASE pc = "sent" -> "sent"
                 [] pc = "notSent" -> "silent"
                 [] OTHER -> "open"

ImplementsSubmission == Submission!Spec
=============================================================================
