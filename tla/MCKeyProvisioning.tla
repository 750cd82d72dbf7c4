------------------------- MODULE MCKeyProvisioning -------------------------
(* Three starts of a container, with no backup, a plain and an encrypted  *)
(* one.  Key pairs are interchangeable, and each start may need a new one. *)
EXTENDS KeyProvisioning, TLC

KeySymmetry == Permutations(Keys)
=============================================================================
