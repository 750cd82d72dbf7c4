---------------------- MODULE SendWorkerModeDataProofs ----------------------
(* Proofs about SendWorkerModeData for every set of results and heights.   *)
EXTENDS SendWorkerModeData, FiniteSetTheorems, TLAPS

(* The nonce is the height of the first output that parsed.                *)
NonceInv ==
  /\ nonce = {} <=> parsed = <<>>
  /\ parsed # <<>> => nonce = {parsed[1].height}

(* Every bundle kept is an output that parsed and passed the checks.       *)
BundleInv ==
  \A k \in DOMAIN WorkerDataBundles :
    /\ Usable(WorkerDataBundles[k])
    /\ \E j \in DOMAIN parsed : parsed[j] = WorkerDataBundles[k]

(* What has been sent is what has been collected.                          *)
SentInv ==
  /\ pc = "results" => sent = {}
  /\ pc = "notSent" => sent = {} /\ nonce = {}
  /\ \A req \in sent :
       /\ nonce = {req.nonce}
       /\ req.topic = Topic
       /\ req.bundles = WorkerDataBundles

IInv == TypeOK /\ NonceInv /\ BundleInv /\ SentInv

-----------------------------------------------------------------------------
LEMMA ResultTyped ==
  ASSUME TypeOK
  PROVE  /\ Len(results) \in Nat
         /\ \A i \in 1..Len(results) :
              /\ results[i].out \in Outputs
              /\ Len(results[i].peers) \in Nat
<1>1. results \in Seq(Results)
  BY DEF TypeOK
<1>2. ASSUME NEW i \in 1..Len(results)
      PROVE  results[i].out \in Outputs /\ Len(results[i].peers) \in Nat
  <2>1. results[i] \in Results
    BY <1>1
  <2> QED BY <2>1 DEF Results
<1> QED BY <1>1, <1>2

LEMMA InitIInv == Init => IInv
<1> SUFFICES ASSUME Init PROVE IInv
  OBVIOUS
<1>1. results \in Seq(Results)
  BY WorkerAssumption DEF Init
<1>2. 1 \in 1..(Len(results) + 1)
  BY <1>1
<1>3. 1 <= Len(results) => 1 <= Len(results[1].peers) + 1
  <2> SUFFICES ASSUME 1 <= Len(results) PROVE 1 <= Len(results[1].peers) + 1
    OBVIOUS
  <2>1. results[1] \in Results
    BY <1>1
  <2> QED BY <2>1 DEF Results
<1>4. TypeOK
  BY <1>1, <1>2, <1>3 DEF Init, TypeOK
<1> QED BY <1>4 DEF Init, IInv, NonceInv, BundleInv, SentInv

LEMMA AdvanceIInv ==
  ASSUME IInv, NextResult \/ UnknownPeer \/ UnparsableOutput
  PROVE  IInv'
<1>1. /\ UNCHANGED <<results, pc, parsed, WorkerDataBundles, nonce, sent>>
      /\ AtResult
  BY DEF NextResult, UnknownPeer, UnparsableOutput, AtPeer
<1>2. /\ next' \in 1..(Len(results) + 1)
      /\ peer' \in Nat \ {0}
      /\ next' <= Len(results) => peer' <= Len(results[next'].peers) + 1
  <2>1. CASE NextResult
    <3>1. next' = next + 1 /\ peer' = 1 /\ next \in 1..Len(results)
      BY <2>1, ResultTyped DEF NextResult, AtResult, IInv, TypeOK
    <3>2. next' \in 1..(Len(results) + 1)
      BY <3>1, ResultTyped DEF IInv
    <3>3. next' <= Len(results) => Len(results[next'].peers) \in Nat
      BY <3>2, ResultTyped DEF IInv
    <3> QED BY <3>1, <3>2, <3>3
  <2>2. CASE UnknownPeer \/ UnparsableOutput
    <3>1. next' = next /\ peer' = peer + 1 /\ next \in 1..Len(results)
      BY <2>2, ResultTyped DEF UnknownPeer, PeerAfterUnknown, UnparsableOutput, AtPeer, AtResult,
                      IInv, TypeOK
    <3>2. peer <= Len(results[next].peers)
      BY <2>2 DEF UnknownPeer, UnparsableOutput, AtPeer
    <3> QED BY <3>1, <3>2, ResultTyped DEF IInv, TypeOK
  <2> QED BY <2>1, <2>2
<1>3. unknown' \subseteq Nat \X Nat
  <2>1. CASE UnknownPeer
    <3>1. next \in Nat /\ peer \in Nat
      BY ResultTyped DEF IInv, TypeOK
    <3> QED BY <2>1, <3>1 DEF UnknownPeer, IInv, TypeOK
  <2>2. CASE NextResult \/ UnparsableOutput
    BY <2>2 DEF NextResult, UnparsableOutput, IInv, TypeOK
  <2> QED BY <2>1, <2>2
<1>4. TypeOK'
  BY <1>1, <1>2, <1>3 DEF IInv, TypeOK
<1> QED BY <1>1, <1>4 DEF IInv, NonceInv, BundleInv, SentInv, Usable

LEMMA ParsedOutputIInv ==
  ASSUME IInv, ParsedOutput
  PROVE  IInv'
<1> DEFINE out == results[next].out
<1>1. /\ next \in 1..Len(results)
      /\ peer <= Len(results[next].peers)
      /\ pc = "results"
  BY ResultTyped DEF ParsedOutput, AtPeer, AtResult, IInv, TypeOK
<1>2. /\ out \in Outputs
      /\ out.height \in Heights
  BY <1>1, ResultTyped DEF IInv, Outputs
<1>3. /\ parsed' = Append(parsed, out)
      /\ nonce' = NonceFrom(out)
      /\ WorkerDataBundles' =
           IF Usable(out) THEN Append(WorkerDataBundles, out) ELSE WorkerDataBundles
      /\ peer' = peer + 1
      /\ UNCHANGED <<results, pc, next, unknown, sent>>
  BY DEF ParsedOutput, Keep
<1> HIDE DEF out
<1>4. parsed \in Seq(Outputs) /\ WorkerDataBundles \in Seq(Outputs)
  BY DEF IInv, TypeOK
<1>5. TypeOK'
  <2>1. parsed' \in Seq(Outputs) /\ WorkerDataBundles' \in Seq(Outputs)
    BY <1>2, <1>3, <1>4
  <2>2. nonce' \in {{}} \cup {{h} : h \in Heights}
    BY <1>2, <1>3 DEF NonceFrom, IInv, TypeOK
  <2>3. peer' \in Nat \ {0} /\ (next' <= Len(results') => peer' <= Len(results'[next'].peers) + 1)
    BY <1>1, <1>3, ResultTyped DEF IInv, TypeOK
  <2> QED BY <1>3, <2>1, <2>2, <2>3 DEF IInv, TypeOK
<1>6. NonceInv'
  <2>1. parsed' # <<>>
    BY <1>2, <1>3, <1>4
  <2>2. CASE parsed = <<>>
    <3>1. parsed'[1] = out
      BY <1>2, <1>3, <1>4, <2>2
    <3>2. nonce' = {out.height}
      BY <1>3, <2>2 DEF NonceFrom, NonceInv, IInv
    <3> QED BY <2>1, <3>1, <3>2 DEF NonceInv
  <2>3. CASE parsed # <<>>
    <3>1. parsed'[1] = parsed[1]
      BY <1>2, <1>3, <1>4, <2>3
    <3>2. nonce' = nonce /\ nonce # {}
      BY <1>3, <2>3 DEF NonceInv, IInv, NonceFrom
    <3> QED BY <2>1, <2>3, <3>1, <3>2 DEF NonceInv, IInv
  <2> QED BY <2>2, <2>3
<1>7. BundleInv'
  <2>1. \A x : Usable(x)' <=> Usable(x)
    BY DEF Usable
  <2>2. /\ Len(parsed) + 1 \in DOMAIN parsed'
        /\ parsed'[Len(parsed) + 1] = out
        /\ \A j \in DOMAIN parsed : j \in DOMAIN parsed' /\ parsed'[j] = parsed[j]
    BY <1>2, <1>3, <1>4
  <2>3. ASSUME NEW k \in DOMAIN WorkerDataBundles'
        PROVE  \/ k \in DOMAIN WorkerDataBundles /\ WorkerDataBundles'[k] = WorkerDataBundles[k]
               \/ WorkerDataBundles'[k] = out /\ Usable(out)
    BY <1>2, <1>3, <1>4
  <2> QED BY <2>2, <2>3 DEF BundleInv, IInv, Usable
<1> QED BY <1>1, <1>3, <1>5, <1>6, <1>7 DEF IInv, SentInv

LEMMA EndOfResultsIInv ==
  ASSUME IInv, EndOfResults
  PROVE  IInv'
<1>1. /\ UNCHANGED <<results, next, peer, parsed, unknown, WorkerDataBundles, nonce>>
      /\ pc = "results" /\ sent = {}
  BY DEF EndOfResults, IInv, SentInv
<1>2. CASE nonce = {}
  BY <1>1, <1>2 DEF EndOfResults, NothingToSend, IInv, TypeOK, NonceInv, BundleInv, SentInv, Usable
<1>3. CASE nonce # {}
  <2> DEFINE h == CHOOSE x \in nonce : TRUE
  <2>1. h \in Heights /\ nonce = {h}
    BY <1>3 DEF IInv, TypeOK
  <2>2. /\ pc' = "sent"
        /\ sent' = {[nonce |-> h, topic |-> Topic, bundles |-> WorkerDataBundles]}
    BY <1>1, <1>3 DEF EndOfResults, NothingToSend
  <2> HIDE DEF h
  <2>3. TypeOK'
    BY <1>1, <2>1, <2>2 DEF IInv, TypeOK
  <2> QED BY <1>1, <2>1, <2>2, <2>3 DEF IInv, NonceInv, BundleInv, SentInv, Usable
<1> QED BY <1>2, <1>3

LEMMA NextIInv == IInv /\ [Next]_vars => IInv'
<1> SUFFICES ASSUME IInv, [Next]_vars PROVE IInv'
  OBVIOUS
<1>1. CASE UNCHANGED vars
  BY <1>1 DEF IInv, TypeOK, NonceInv, BundleInv, SentInv, Usable, vars
<1> QED BY <1>1, AdvanceIInv, ParsedOutputIInv, EndOfResultsIInv DEF Next, Step, Terminated

THEOREM Invariance == Spec => []IInv
  BY InitIInv, NextIInv, PTL DEF Spec

(* The loop indices and the payload stay in their types.                   *)
THEOREM TypeCorrect == Spec => []TypeOK
<1>1. IInv => TypeOK
  BY DEF IInv
<1> QED BY <1>1, Invariance, PTL

(* When all outputs that parsed report one height, the payload and every   *)
(* bundle in it have that height.                                          *)
THEOREM AgreementReachesTheChain == Spec => []AgreementIsSent
<1>1. IInv => AgreementIsSent
  <2> SUFFICES ASSUME IInv, NEW req \in sent, NEW h \in Heights,
                      \A k \in DOMAIN parsed : parsed[k].height = h
               PROVE  req.nonce = h /\ \A k \in DOMAIN req.bundles : req.bundles[k].height = h
    BY DEF AgreementIsSent
  <2>1. nonce = {req.nonce} /\ req.bundles = WorkerDataBundles
    BY DEF IInv, SentInv
  <2>2. parsed # <<>> /\ nonce = {parsed[1].height}
    BY <2>1 DEF IInv, NonceInv
  <2>3. 1 \in DOMAIN parsed
    BY <2>2 DEF IInv, TypeOK
  <2> QED BY <2>1, <2>2, <2>3 DEF IInv, BundleInv
<1> QED BY <1>1, Invariance, PTL

(* No inference for another topic is ever sent.                            *)
THEOREM NoForeignInference == Spec => []InferencesMatchTopic
<1>1. IInv => InferencesMatchTopic
  BY DEF IInv, SentInv, BundleInv, Usable, InferencesMatchTopic
<1> QED BY <1>1, Invariance, PTL

(* Silence means that nothing parsed.                                      *)
THEOREM SilenceMeansNothingParsed == Spec => []SilentOnlyWithoutOutput
<1>1. IInv => SilentOnlyWithoutOutput
  BY DEF IInv, SentInv, NonceInv, SilentOnlyWithoutOutput
<1> QED BY <1>1, Invariance, PTL

-----------------------------------------------------------------------------
(* What becomes of the peers the chain knows.                              *)

(* The peers that have had their turn.                                     *)
Asked == {q \in Peerings : q[1] < next \/ (q[1] = next /\ q[2] < peer)}
KnownAsked(out) == {q \in Asked \ unknown : results[q[1]].out = out}

(* The bundles collected so far are those of the known peers that have had *)
(* their turn.                                                             *)
KnownInv ==
  /\ IsFiniteSet(Asked)
  /\ unknown \subseteq Asked
  /\ \A out \in UsableOutputs : Copies(WorkerDataBundles, out) = Cardinality(KnownAsked(out))
  /\ pc # "results" => next = Len(results) + 1

LEMMA PeeringForm ==
  /\ \A q \in Peerings : /\ q = <<q[1], q[2]>>
                         /\ q[1] \in DOMAIN results /\ q[2] \in DOMAIN results[q[1]].peers
  /\ \A i \in DOMAIN results : \A p \in DOMAIN results[i].peers :
       /\ <<i, p>> \in Peerings
       /\ <<i, p>>[1] = i /\ <<i, p>>[2] = p
<1>1. ASSUME NEW q \in Peerings
      PROVE  /\ q = <<q[1], q[2]>>
             /\ q[1] \in DOMAIN results /\ q[2] \in DOMAIN results[q[1]].peers
  <2>1. PICK i \in DOMAIN results : q \in {i} \X DOMAIN results[i].peers
    BY DEF Peerings
  <2>2. q = <<q[1], q[2]>> /\ q[1] = i /\ q[2] \in DOMAIN results[i].peers
    BY <2>1
  <2> QED BY <2>1, <2>2
<1>2. ASSUME NEW i \in DOMAIN results, NEW p \in DOMAIN results[i].peers
      PROVE  <<i, p>> \in Peerings /\ <<i, p>>[1] = i /\ <<i, p>>[2] = p
  <2>1. <<i, p>> \in {i} \X DOMAIN results[i].peers
    OBVIOUS
  <2> QED BY <2>1 DEF Peerings
<1> QED BY <1>1, <1>2

(* The indices of peers are numbers.                                       *)
LEMMA PeeringTyped ==
  ASSUME TypeOK
  PROVE  /\ DOMAIN results = 1..Len(results)
         /\ \A i \in DOMAIN results : DOMAIN results[i].peers = 1..Len(results[i].peers)
         /\ \A q \in Peerings : q[1] \in Nat /\ q[2] \in Nat
         /\ next \in Nat /\ peer \in Nat
<1>1. DOMAIN results = 1..Len(results) /\ Len(results) \in Nat
  BY DEF TypeOK
<1>2. ASSUME NEW i \in DOMAIN results
      PROVE  DOMAIN results[i].peers = 1..Len(results[i].peers)
  <2>1. results[i] \in Results
    BY DEF TypeOK
  <2> QED BY <2>1 DEF Results
<1>3. ASSUME NEW q \in Peerings PROVE q[1] \in Nat /\ q[2] \in Nat
  BY <1>1, <1>2, PeeringForm, ResultTyped
<1> QED BY <1>1, <1>2, <1>3 DEF TypeOK

(* One more turn.                                                          *)
LEMMA AskedGrows ==
  ASSUME TypeOK, AtPeer, results' = results, next' = next, peer' = peer + 1
  PROVE  /\ Asked' = Asked \cup {<<next, peer>>}
         /\ <<next, peer>> \notin Asked
         /\ <<next, peer>> \in Peerings
         /\ results[<<next, peer>>[1]].out = results[next].out
<1>1. next \in DOMAIN results /\ peer \in DOMAIN results[next].peers
  BY PeeringTyped, ResultTyped DEF AtPeer, AtResult, TypeOK
<1>2. <<next, peer>> \in Peerings /\ <<next, peer>>[1] = next /\ <<next, peer>>[2] = peer
  BY <1>1, PeeringForm
<1>3. Peerings' = Peerings
  BY DEF Peerings
<1>4. <<next, peer>> \notin Asked
  BY <1>2, PeeringTyped DEF Asked
<1>5. ASSUME NEW q \in Peerings
      PROVE  (q[1] < next \/ (q[1] = next /\ q[2] < peer + 1))
               <=> (q[1] < next \/ (q[1] = next /\ q[2] < peer)) \/ q = <<next, peer>>
  <2>1. q[1] \in Nat /\ q[2] \in Nat /\ next \in Nat /\ peer \in Nat
    BY PeeringTyped
  <2>2. q = <<next, peer>> <=> q[1] = next /\ q[2] = peer
    BY <1>2, PeeringForm
  <2> QED BY <2>1, <2>2
<1>6. Asked' = Asked \cup {<<next, peer>>}
  BY <1>2, <1>3, <1>5 DEF Asked
<1> QED BY <1>2, <1>4, <1>6

LEMMA CopiesAppend ==
  ASSUME NEW s \in Seq(Outputs), NEW e \in Outputs, NEW out
  PROVE  /\ Copies(s, out) \in Nat
         /\ Copies(Append(s, e), out) = IF e = out THEN Copies(s, out) + 1 ELSE Copies(s, out)
<1> DEFINE At(t) == {k \in DOMAIN t : t[k] = out}
<1>1. IsFiniteSet(At(s)) /\ Cardinality(At(s)) \in Nat /\ Len(s) + 1 \notin At(s)
  <2>1. At(s) \subseteq 1..Len(s) /\ IsFiniteSet(1..Len(s))
    BY FS_Interval
  <2> QED BY <2>1, FS_Subset, FS_CardinalityType
<1>2. At(Append(s, e)) = IF e = out THEN At(s) \cup {Len(s) + 1} ELSE At(s)
  OBVIOUS
<1>3. CASE e = out
  BY <1>1, <1>2, <1>3, FS_AddElement DEF Copies
<1>4. CASE e # out
  BY <1>1, <1>2, <1>4 DEF Copies
<1> QED BY <1>3, <1>4

LEMMA InitKnown == Init => KnownInv
<1> SUFFICES ASSUME Init PROVE KnownInv
  OBVIOUS
<1>1. TypeOK
  BY InitIInv DEF IInv
<1>2. Asked = {}
  <2> SUFFICES ASSUME NEW q \in Asked PROVE FALSE
    OBVIOUS
  <2>1. q[1] \in DOMAIN results /\ q[2] \in DOMAIN results[q[1]].peers
    BY PeeringForm DEF Asked
  <2>2. q[1] \in 1..Len(results) /\ q[2] \in 1..Len(results[q[1]].peers)
    BY <1>1, <2>1, PeeringTyped
  <2>3. q[1] < 1 \/ q[2] < 1
    BY DEF Asked, Init
  <2> QED BY <1>1, <2>2, <2>3, ResultTyped
<1>3. ASSUME NEW out PROVE Copies(WorkerDataBundles, out) = Cardinality(KnownAsked(out))
  <2>1. {k \in DOMAIN WorkerDataBundles : WorkerDataBundles[k] = out} = {} /\ KnownAsked(out) = {}
    BY <1>2 DEF Init, KnownAsked
  <2> QED BY <2>1 DEF Copies
<1> QED BY <1>2, <1>3, FS_EmptySet DEF Init, KnownInv

(* One turn: a peer the chain does not know, an output that does not       *)
(* parse or is of no use, or one more bundle.                              *)
LEMMA TurnKeepsKnown ==
  ASSUME IInv, KnownInv, UnknownPeer \/ UnparsableOutput \/ ParsedOutput
  PROVE  KnownInv'
<1> DEFINE q0 == <<next, peer>>
           e == results[next].out
<1>1. /\ AtPeer /\ pc = "results"
      /\ results' = results /\ next' = next /\ peer' = peer + 1 /\ pc' = pc
  BY DEF UnknownPeer, PeerAfterUnknown, UnparsableOutput, ParsedOutput, AtPeer, AtResult
<1>2. /\ Asked' = Asked \cup {q0} /\ q0 \notin Asked
      /\ results[q0[1]].out = e
  BY <1>1, AskedGrows DEF IInv
<1>3. e \in Outputs /\ WorkerDataBundles \in Seq(Outputs)
  <2>1. next \in 1..Len(results)
    BY <1>1, ResultTyped DEF AtPeer, AtResult, IInv, TypeOK
  <2> QED BY <2>1, ResultTyped DEF IInv, TypeOK
<1>4. \/ /\ unknown' = unknown \cup {q0} /\ WorkerDataBundles' = WorkerDataBundles
      \/ /\ unknown' = unknown
         /\ WorkerDataBundles' =
              IF Usable(e) THEN Append(WorkerDataBundles, e) ELSE WorkerDataBundles
  BY DEF UnknownPeer, UnparsableOutput, ParsedOutput, Keep, Usable
<1>5. unknown \subseteq Asked /\ IsFiniteSet(Asked)
  BY DEF KnownInv
<1> HIDE DEF e, q0
<1>6. unknown' \subseteq Asked' /\ IsFiniteSet(Asked')
  BY <1>2, <1>4, <1>5, FS_AddElement
<1>7. ASSUME NEW out \in UsableOutputs
      PROVE  Copies(WorkerDataBundles', out) = Cardinality(KnownAsked(out)')
  <2>1. /\ IsFiniteSet(KnownAsked(out)) /\ q0 \notin KnownAsked(out)
        /\ Copies(WorkerDataBundles, out) = Cardinality(KnownAsked(out))
    <3>1. KnownAsked(out) \subseteq Asked
      BY DEF KnownAsked
    <3> QED BY <1>2, <1>5, <3>1, FS_Subset DEF KnownInv
  <2>2. CASE unknown' = unknown \cup {q0} /\ WorkerDataBundles' = WorkerDataBundles
    <3>1. KnownAsked(out)' = KnownAsked(out)
      BY <1>1, <1>2, <1>5, <2>2 DEF KnownAsked
    <3> QED BY <2>1, <2>2, <3>1
  <2>3. CASE unknown' = unknown /\ e = out
    <3>1. KnownAsked(out)' = KnownAsked(out) \cup {q0}
      BY <1>1, <1>2, <1>5, <2>3 DEF KnownAsked
    <3>2. Cardinality(KnownAsked(out)') = Cardinality(KnownAsked(out)) + 1
      BY <2>1, <3>1, FS_AddElement
    <3>3. Usable(e)
      BY <2>3 DEF UsableOutputs
    <3>4. WorkerDataBundles' = Append(WorkerDataBundles, e)
          \/ q0 \in unknown'
      BY <1>4, <3>3
    <3>5. WorkerDataBundles' = Append(WorkerDataBundles, e)
      BY <1>2, <1>5, <2>3, <3>4
    <3> QED BY <1>3, <2>1, <2>3, <3>2, <3>5, CopiesAppend
  <2>4. CASE unknown' = unknown /\ e # out
    <3>1. KnownAsked(out)' = KnownAsked(out)
      BY <1>1, <1>2, <1>5, <2>4 DEF KnownAsked
    <3>2. Copies(Append(WorkerDataBundles, e), out) = Copies(WorkerDataBundles, out)
      BY <1>3, <2>4, CopiesAppend
    <3>3. CASE WorkerDataBundles' = WorkerDataBundles
      BY <2>1, <3>1, <3>3
    <3>4. CASE WorkerDataBundles' = Append(WorkerDataBundles, e)
      BY <2>1, <3>1, <3>2, <3>4
    <3> QED BY <1>4, <3>3, <3>4
  <2> QED BY <1>4, <2>2, <2>3, <2>4
<1>8. UsableOutputs' = UsableOutputs
  BY DEF UsableOutputs, Usable
<1> QED BY <1>1, <1>6, <1>7, <1>8 DEF KnownInv, Copies

LEMMA RestKeepsKnown ==
  ASSUME IInv, KnownInv, NextResult \/ EndOfResults \/ UNCHANGED vars
  PROVE  KnownInv'
<1>1. UNCHANGED <<results, unknown, WorkerDataBundles>>
  BY DEF NextResult, EndOfResults, vars
<1>2. Asked' = Asked
  <2>1. Peerings' = Peerings
    BY <1>1 DEF Peerings
  <2>2. CASE NextResult
    <3>1. next' = next + 1 /\ peer' = 1 /\ next \in 1..Len(results)
          /\ ~(peer <= Len(results[next].peers))
      BY <2>2, ResultTyped DEF NextResult, AtPeer, AtResult, IInv, TypeOK
    <3>2. ASSUME NEW q \in Peerings
          PROVE  (q[1] < next + 1 \/ (q[1] = next + 1 /\ q[2] < 1))
                   <=> (q[1] < next \/ (q[1] = next /\ q[2] < peer))
      <4>1. q[1] \in Nat /\ next \in Nat /\ peer \in Nat
        BY PeeringTyped DEF IInv
      <4>2. q[2] \in 1..Len(results[q[1]].peers)
        BY PeeringForm, PeeringTyped DEF IInv
      <4>3. q[1] = next => Len(results[q[1]].peers) \in Nat /\ q[2] < peer
        BY <3>1, <4>1, <4>2, ResultTyped DEF IInv
      <4> QED BY <4>1, <4>2, <4>3
    <3> QED BY <2>1, <3>1, <3>2 DEF Asked
  <2>3. CASE EndOfResults \/ UNCHANGED vars
    BY <2>1, <2>3 DEF EndOfResults, vars, Asked
  <2> QED BY <2>2, <2>3
<1>3. \A out : KnownAsked(out)' = KnownAsked(out)
  BY <1>1, <1>2 DEF KnownAsked
<1>4. UsableOutputs' = UsableOutputs
  BY DEF UsableOutputs, Usable
<1>5. pc' # "results" => next' = Len(results') + 1
  <2>1. next \in Nat /\ Len(results) \in Nat /\ next <= Len(results) + 1
    BY ResultTyped DEF IInv, TypeOK
  <2> QED BY <1>1, <2>1 DEF NextResult, AtResult, EndOfResults, vars, KnownInv
<1> QED BY <1>1, <1>2, <1>3, <1>4, <1>5 DEF KnownInv, Copies

LEMMA KnownBundles == Spec => [](IInv /\ KnownInv)
<1>1. IInv /\ KnownInv /\ [Next]_vars => KnownInv'
  BY TurnKeepsKnown, RestKeepsKnown DEF Next, Step, Terminated
<1> QED BY <1>1, InitIInv, InitKnown, NextIInv, PTL DEF Spec

(* Every peer the chain knows has its usable bundle in the payload, once,  *)
(* whichever other peers the chain does not know: in particular silence    *)
(* means that none of them had one.                                        *)
THEOREM NoKnownPeerIsLost == Spec => []KnownPeersAreSent
<1>1. IInv /\ KnownInv => KnownPeersAreSent
  <2> SUFFICES ASSUME IInv, KnownInv, NEW out \in UsableOutputs
               PROVE  /\ \A req \in sent :
                           Copies(req.bundles, out) = Cardinality(KnownWith(out))
                      /\ pc = "notSent" => KnownWith(out) = {}
    BY DEF KnownPeersAreSent
  <2>1. ASSUME pc # "results" PROVE KnownWith(out) = KnownAsked(out)
    <3>1. next = Len(results) + 1
      BY <2>1 DEF KnownInv
    <3>2. \A q \in Peerings : q[1] < next
      BY <3>1, PeeringForm, PeeringTyped, ResultTyped DEF IInv
    <3>3. Asked = Peerings
      BY <3>2 DEF Asked
    <3> QED BY <3>3 DEF KnownWith, KnownAsked
  <2>2. Copies(WorkerDataBundles, out) = Cardinality(KnownAsked(out))
    BY DEF KnownInv
  <2>3. \A req \in sent : pc # "results" /\ req.bundles = WorkerDataBundles
    BY DEF IInv, SentInv
  <2>4. ASSUME pc = "notSent" PROVE KnownWith(out) = {}
    <3>1. parsed = <<>>
      BY <2>4 DEF IInv, SentInv, NonceInv
    <3>2. {k \in DOMAIN WorkerDataBundles : WorkerDataBundles[k] = out} = {}
      BY <3>1 DEF IInv, BundleInv
    <3>3. IsFiniteSet(KnownAsked(out)) /\ Cardinality(KnownAsked(out)) = 0
      <4>1. KnownAsked(out) \subseteq Asked
        BY DEF KnownAsked
      <4> QED BY <2>2, <3>2, <4>1, FS_Subset, FS_EmptySet DEF Copies, KnownInv
    <3> QED BY <2>1, <2>4, <3>3, FS_EmptySet
  <2> QED BY <2>1, <2>2, <2>3, <2>4
<1> QED BY <1>1, KnownBundles, PTL

-----------------------------------------------------------------------------
(* The refinement of the submission both kinds of leaders promise.         *)

HeardHeights == {parsed[k].height : k \in DOMAIN parsed}

LEMMA InitSubmits == Init => Submission!Init
  BY DEF Init, Submission!Init

(* An output that parses is heard, whether or not its bundle is kept.      *)
LEMMA ParsedOutputIsHeard ==
  ASSUME IInv, ParsedOutput
  PROVE  Submission!Hear
<1> DEFINE out == results[next].out
<1>1. /\ pc = "results" /\ pc' = pc /\ sent' = sent /\ sent = {}
      /\ next \in 1..Len(results)
  BY ResultTyped DEF ParsedOutput, AtPeer, AtResult, IInv, TypeOK, SentInv
<1>2. out \in Outputs /\ out.height \in Heights
  BY <1>1, ResultTyped DEF IInv, Outputs
<1>3. /\ parsed' = Append(parsed, out)
      /\ WorkerDataBundles' =
           IF Usable(out) THEN Append(WorkerDataBundles, out) ELSE WorkerDataBundles
  BY DEF ParsedOutput, Keep
<1> HIDE DEF out
<1>4. HeardHeights' = HeardHeights \cup {out.height}
  <2>1. parsed \in Seq(Outputs)
    BY DEF IInv, TypeOK
  <2>2. /\ DOMAIN parsed' = DOMAIN parsed \cup {Len(parsed) + 1}
        /\ parsed'[Len(parsed) + 1] = out
        /\ \A k \in DOMAIN parsed : parsed'[k] = parsed[k]
    BY <1>2, <1>3, <2>1
  <2> QED BY <2>2 DEF HeardHeights
<1>5. \/ UNCHANGED WorkerDataBundles
      \/ \E b \in UsableOutputs : WorkerDataBundles' = Append(WorkerDataBundles, b)
  <2>1. CASE Usable(out)
    BY <1>2, <1>3, <2>1 DEF UsableOutputs
  <2>2. CASE ~Usable(out)
    BY <1>3, <2>2
  <2> QED BY <2>1, <2>2
<1> QED BY <1>1, <1>2, <1>4, <1>5 DEF HeardHeights, Submission!Hear, Submission!Open

LEMMA EndOfResultsSubmits ==
  ASSUME IInv, EndOfResults
  PROVE  Submission!Submit \/ Submission!StaySilent
<1>1. /\ UNCHANGED <<parsed, WorkerDataBundles>>
      /\ pc = "results" /\ sent = {}
  BY DEF EndOfResults, IInv, SentInv
<1>2. CASE nonce = {}
  <2>1. parsed = <<>> /\ pc' = "notSent" /\ sent' = sent
    BY <1>2 DEF EndOfResults, NothingToSend, IInv, NonceInv
  <2> QED BY <1>1, <2>1 DEF Submission!StaySilent, Submission!Open
<1>3. CASE nonce # {}
  <2> DEFINE h == CHOOSE x \in nonce : TRUE
  <2>1. parsed # <<>> /\ nonce = {parsed[1].height}
    BY <1>3 DEF IInv, NonceInv
  <2>2. 1 \in DOMAIN parsed
    BY <2>1 DEF IInv, TypeOK
  <2>3. h = parsed[1].height
    BY <2>1
  <2>4. /\ pc' = "sent"
        /\ sent' = {[nonce |-> h, topic |-> Topic, bundles |-> WorkerDataBundles]}
    BY <1>1, <1>3 DEF EndOfResults, NothingToSend
  <2> HIDE DEF h
  <2> QED BY <1>1, <2>2, <2>3, <2>4 DEF Submission!Submit, Submission!Open
<1> QED BY <1>2, <1>3

LEMMA NextSubmits ==
  ASSUME IInv, [Next]_vars
  PROVE  [Submission!Next]_(Submission!vars)
<1>1. CASE ParsedOutput
  BY <1>1, ParsedOutputIsHeard DEF Submission!Next
<1>2. CASE EndOfResults
  BY <1>2, EndOfResultsSubmits DEF Submission!Next
<1>3. CASE NextResult \/ UnknownPeer \/ UnparsableOutput \/ UNCHANGED vars
  BY <1>3 DEF NextResult, UnknownPeer, UnparsableOutput, vars, Submission!vars
<1> QED BY <1>1, <1>2, <1>3 DEF Next, Step, Terminated

(* The worker leader's handler is a submission that never panics: one      *)
(* payload of all usable bundles under a height it heard, or silence when  *)
(* nothing parsed.                                                         *)
THEOREM WorkerSubmission == Spec => ImplementsSubmission
  BY InitSubmits, NextSubmits, Invariance, PTL DEF Spec, ImplementsSubmission, Submission!Spec
=============================================================================
