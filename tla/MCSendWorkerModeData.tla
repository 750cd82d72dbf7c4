----------------------- MODULE MCSendWorkerModeData ------------------------
(* Up to three results: one with two peers, as aggregation makes it of     *)
(* equal outputs, between others with one peer, or none at all; heights    *)
(* may be missing (0) or -1.                                               *)
EXTENDS SendWorkerModeData

CONSTANTS p1, p2, p3, p4, t1, t2

Output(kind, topic, height) == [kind |-> kind, topic |-> topic, height |-> height]

OutputValues ==
  { Output("unparsable", t1, 0), Output("noBundle", t1, 0), Output("noBundle", t1, 1),
    Output("inference", t1, 1), Output("inference", t1, -1), Output("inference", t2, 1),
    Output("forecastOnly", t1, 1), Output("forecastOnly", t2, 1) }

PeerLists == { << <<p1>>, <<p2, p3>>, <<p4>> >>, << <<p1, p2>>, <<>>, <<p3>> >> }

MCInputs ==
  {[i \in 1..3 |-> [peers |-> peers[i], out |-> outs[i]]] :
     peers \in PeerLists, outs \in [1..3 -> OutputValues]} \cup {<<>>}

MCHeights == {-1, 0, 1}
=============================================================================
