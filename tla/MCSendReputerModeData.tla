----------------------- MODULE MCSendReputerModeData -----------------------
(* Three results.  Peers p1 and p4 belong to one reputer.  The results     *)
(* come from three reputers, from one reputer under two peer ids or twice  *)
(* under one, or include a result without peers and one with two peers.    *)
EXTENDS SendReputerModeData

CONSTANTS p1, p2, p3, p4, a1, a2, a3, t1, t2

MCReputerAddress ==
  [p \in Peers |-> IF p = p2 THEN a2 ELSE IF p = p3 THEN a3 ELSE a1]

PeerLists ==
  { << <<p1>>, <<p2>>, <<p3>> >>,
    << <<p1>>, <<p4>>, <<p2>> >>,
    << <<p1>>, <<p2>>, <<p1>> >>,
    << <<>>, <<p1, p2>>, <<p2>> >> }

MCHeights == {-1, 1, 2}

Bundle(topic, current, eval) ==
  [kind |-> "bundle", topic |-> topic, current |-> current, eval |-> eval,
   nonce |-> current]

Ordinary ==
  { Bundle(t1, 1, 1), Bundle(t1, 2, 1), Bundle(t2, 1, 1),
    [Bundle(t1, 1, 1) EXCEPT !.kind = "noValueBundle"] }

(* No nonce, or a height that is none next to one that is.                 *)
Odd ==
  { [Bundle(t1, 2, 1) EXCEPT !.kind = "noReputerNonce"],
    [Bundle(t1, 1, 1) EXCEPT !.current = -1] }

(* At most one odd output.                                                 *)
OutputLists ==
  {outs \in [1..3 -> Ordinary \cup Odd] :
     \A i, j \in 1..3 : outs[i] \in Odd /\ outs[j] \in Odd => i = j}

MCInputs ==
  {[i \in 1..3 |-> [peers |-> peers[i], out |-> outs[i]]] :
     peers \in PeerLists, outs \in OutputLists}
=============================================================================
