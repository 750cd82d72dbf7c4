-------------------------- MODULE MCLeaderPipeline --------------------------
(* Three responses with every combination of messages; payloads may be    *)
(* executed twice.                                                         *)
EXTENDS LeaderPipeline

Worker12 == buildb7sTopic([form |-> "number", number |-> 12])
Reputer12 == buildb7sTopic([form |-> "slash", number |-> 12])
Reputer == buildb7sTopic([form |-> "inside", number |-> 12])

MCReceived ==
  { [outcome |-> "garbage", channel |-> Worker12],
    [outcome |-> "notOK", channel |-> Worker12],
    [outcome |-> "usable", channel |-> Reputer],
    [outcome |-> "nothingParsed", channel |-> Worker12],
    [outcome |-> "noBundle", channel |-> Worker12],
    [outcome |-> "usable", channel |-> Reputer12] }
=============================================================================
