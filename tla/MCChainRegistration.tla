------------------------ MODULE MCChainRegistration ------------------------
(* A reputer with two topics, the first listed twice and one entry that is *)
(* not a number; two crashes; balances from nothing to more than enough.   *)
EXTENDS ChainRegistration

CONSTANTS t1, t2

MCTopicIds == <<t1, "notNumerical", t2, t1>>
=============================================================================
