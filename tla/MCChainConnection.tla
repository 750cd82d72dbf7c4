------------------------- MODULE MCChainConnection -------------------------
(* A worker with every outcome of the key configuration, a known and an    *)
(* unknown worker mode and a link that changes freely.                     *)
EXTENDS ChainConnection
=============================================================================
