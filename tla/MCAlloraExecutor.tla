-------------------------- MODULE MCAlloraExecutor --------------------------
(* Clients' environments of up to three variables, in any order and with   *)
(* repetitions, before the topic the head adds.                            *)
EXTENDS AlloraExecutor

Name(f, t) == [form |-> f, number |-> t]
MCRequestable ==
  { Name("number", 1), Name("slash", 1), Name("dash", 1), Name("glued", 12),
    Name("word", 1), Name("bare", 1) }

Topic(topic) == [name |-> "TOPIC_ID", value |-> topic]
Current(h) == [name |-> "ALLORA_BLOCK_HEIGHT_CURRENT", value |-> h]
Eval(h) == [name |-> "ALLORA_BLOCK_HEIGHT_EVAL", value |-> h]
AllowsNegative(b) == [name |-> "LOSS_FUNCTION_ALLOWS_NEGATIVE", value |-> b]

MCVars ==
  { Topic(Name("number", 12)), Current(1), Current(-1), Current(NoNumber), Eval(1),
    Eval(-1), AllowsNegative(TRUE), AllowsNegative(FALSE) }

MCEnvironments == UNION {[1..n -> MCVars] : n \in 0..3}

Out(hs, es) == [form |-> "json", heads |-> hs, elements |-> es]
Unparsable == [Out(<<>>, <<>>) EXCEPT !.form = "unparsable"]

MCStdouts ==
  [m \in WorkerModes |->
     IF m = "reputer"
     THEN { Out(<<"positive", "positive">>, <<"positive", "negative">>),
            Out(<<"negative", "positive">>, <<"positive">>),
            Out(<<"positive", "noNumber">>, <<>>), Unparsable }
     ELSE { Out(<<"negative">>, <<"positive", "positive">>),
            Out(<<>>, <<"positive", "negative">>),
            Out(<<"noNumber">>, <<>>), Unparsable }]
=============================================================================
