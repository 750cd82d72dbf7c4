-------------------------- MODULE MCNodeLifecycle --------------------------
(* A head and a worker, with every outcome of the key configuration, a     *)
(* known and an unknown worker mode, a link that changes freely, and three *)
(* interrupts: one taken, one held by the channel, one dropped.            *)
EXTENDS NodeLifecycle
=============================================================================
