--------------------------- MODULE AlloraExecutor ---------------------------
(***************************************************************************)
(* AlloraExecutor.ExecuteFunction (cmd/node/main.go): one execution        *)
(* request on a worker or reputer.  The function's own output is turned    *)
(* into a bundle signed with the node's key, under the topic and the block *)
(* heights found in the request's environment variables.  Whatever is      *)
(* missing or malformed ends the call early with the output as it is then. *)
(* The head's API handler (cmd/node/execute.go createExecutor) has added   *)
(* the name of the topic to the variables the client sent, and chosen the  *)
(* channel of the nodes by it (TopicNames.tla).                            *)
(*                                                                         *)
(* External: the executor that runs the function, and the keyring.         *)
(***************************************************************************)
EXTENDS Sequences, TopicNames

CONSTANTS
  Requestable,   \* the topic names clients write
  Heights,       \* block heights
  Environments,  \* the possible environments in a client's request
  Stdouts,       \* the possible outputs of the function, by worker mode
  WorkerModes,   \* configured worker modes
  None           \* an absent value

notFoundValue == -1

(* An environment variable with its value: a topic's name, a number or     *)
(* text that is none, a flag.                                              *)
EnvVars ==
  [name : {"TOPIC_ID"}, value : Names]
    \cup [name : {"ALLORA_BLOCK_HEIGHT_CURRENT", "ALLORA_BLOCK_HEIGHT_EVAL"},
          value : Heights \cup {notFoundValue, NoNumber}]
    \cup [name : {"LOSS_FUNCTION_ALLOWS_NEGATIVE"}, value : BOOLEAN]

(* A decimal in the output: one that has a logarithm, one that has none,   *)
(* or no number (as the empty string is none).                             *)
Decimals == {"positive", "negative", "noNumber"}

(* The function's output.  heads are the values outside the lists (the     *)
(* inferer value of a worker, combined and naive value of a reputer),      *)
(* elements those in the lists, one list after the other.                  *)
Outputs ==
  [form : {"json", "unparsable"}, heads : Seq(Decimals), elements : Seq(Decimals)]

ASSUME ExecutorAssumption ==
  /\ Requestable \subseteq Names
  /\ Heights \subseteq Nat
  /\ Environments \subseteq Seq(EnvVars)
  /\ Stdouts \in [WorkerModes -> SUBSET Outputs]
  /\ None \notin Names \cup Int

VARIABLES
  requested,                  \* the topic the client named, None if no head added it
  environment, stdout, mode,  \* the request, the output, the worker mode
  appChain,                   \* whether the executor has a chain client
  pc,
  next,                       \* index of the next variable, then of the next element
  err,                        \* the function-wide err
  returned,                   \* what the call returns besides the output
  topicId, topicFound, current, eval, topicAllowsNegative,
  heads, elements,            \* the values converted so far
  signed,                     \* the bundles put in place of the output
  opsProcessed, workerResponse

request == <<requested, environment, stdout, mode, appChain>>
found == <<topicId, topicFound, current, eval, topicAllowsNegative>>
bundle == <<heads, elements>>
counters == <<opsProcessed, workerResponse>>
vars == <<request, pc, next, err, returned, found, bundle, signed, counters>>

(* createExecutor appends the topic to the variables of the client.  A     *)
(* name it cannot build a channel for goes nowhere.                        *)
TopicVars(topic) ==
  IF topic = None THEN <<>> ELSE <<[name |-> "TOPIC_ID", value |-> topic]>>
RequestEnvironmentTopicFirst(client, topic) == TopicVars(topic) \o client
RequestEnvironment(client, topic) == client \o TopicVars(topic)

Init ==
  /\ requested \in {name \in Requestable : ~BuildPanics(name)} \cup {None}
  /\ \E client \in Environments : environment = RequestEnvironment(client, requested)
  /\ mode \in WorkerModes
  /\ stdout \in Stdouts[mode]
  /\ appChain \in BOOLEAN
  /\ pc = "execute"
  /\ next = 1
  /\ err = "nil"
  /\ returned = "pending"
  /\ topicId = 0
  /\ topicFound = FALSE
  /\ current = notFoundValue
  /\ eval = notFoundValue
  /\ topicAllowsNegative = FALSE
  /\ heads = <<>>
  /\ elements = <<>>
  /\ signed = {}
  /\ opsProcessed = 0
  /\ workerResponse = 0

Return(e) == pc' = "returned" /\ returned' = e
Continue(where) == pc' = where /\ UNCHANGED returned

-----------------------------------------------------------------------------
Execute ==
  /\ pc = "execute"
  /\ err' \in {"nil", "execution"}
  /\ Continue("env")
  /\ UNCHANGED <<request, next, found, bundle, signed, counters>>

AtVar(name) ==
  pc = "env" /\ next <= Len(environment) /\ environment[next].name = name

(* Parsing assigns err, over whatever error the execution left in it, and  *)
(* leaves 0 of what does not parse.                                        *)
Parse(number) ==
  /\ next' = next + 1
  /\ IF number # NoNumber THEN err' = "nil" /\ Continue("env")
     ELSE err' = "parse" /\ Return("parse")
Parsed(number) == IF number = NoNumber THEN 0 ELSE number

(* A later variable of the same name replaces an earlier one.              *)
ReadTopic ==
  /\ AtVar("TOPIC_ID")
  /\ Parse(TopicId(environment[next].value))
  /\ topicFound' = TRUE
  /\ topicId' = Parsed(TopicId(environment[next].value))
  /\ UNCHANGED <<request, current, eval, topicAllowsNegative, bundle, signed, counters>>

ReadCurrentHeight ==
  /\ AtVar("ALLORA_BLOCK_HEIGHT_CURRENT")
  /\ Parse(environment[next].value)
  /\ current' = Parsed(environment[next].value)
  /\ UNCHANGED <<request, topicId, topicFound, eval, topicAllowsNegative, bundle,
                 signed, counters>>

ReadEvalHeight ==
  /\ AtVar("ALLORA_BLOCK_HEIGHT_EVAL")
  /\ Parse(environment[next].value)
  /\ eval' = Parsed(environment[next].value)
  /\ UNCHANGED <<request, topicId, topicFound, current, topicAllowsNegative, bundle,
                 signed, counters>>

(* Only "true" is looked for: a later "false" does not take it back.       *)
ReadAllowsNegative ==
  /\ AtVar("LOSS_FUNCTION_ALLOWS_NEGATIVE")
  /\ topicAllowsNegative' = (topicAllowsNegative \/ environment[next].value)
  /\ next' = next + 1
  /\ UNCHANGED <<request, pc, err, returned, topicId, topicFound, current, eval,
                 bundle, signed, counters>>

NothingToSignForWithoutHeight == ~topicFound \/ ~appChain
NothingToSignFor == ~topicFound \/ current = notFoundValue \/ ~appChain
EvalMissing == mode = "reputer" /\ eval = notFoundValue

EndOfEnv ==
  /\ pc = "env"
  /\ next > Len(environment)
  /\ next' = 1
  /\ IF NothingToSignFor \/ EvalMissing THEN Return("nil")
     ELSE IF mode \in {"worker", "reputer"} THEN Continue("unmarshal")
     ELSE Continue("count")
  /\ UNCHANGED <<request, err, found, bundle, signed, counters>>

-----------------------------------------------------------------------------
(* A worker's output that does not parse is passed on with the error, and  *)
(* counts as an operation; a reputer's ends the call.                      *)
AfterUnparsableSigned == "heads"
AfterUnparsable == "count"

Unmarshal ==
  /\ pc = "unmarshal"
  /\ IF stdout.form = "json" THEN err' = "nil" /\ Continue("heads")
     ELSE /\ err' = "parse"
          /\ IF mode = "worker" THEN Continue(AfterUnparsable) ELSE Return("parse")
  /\ UNCHANGED <<request, next, found, bundle, signed, counters>>

Scaled(d, log) == [decimal |-> d, scale |-> IF log THEN "log" ELSE "raw"]

ConvertsAsFarAsPossible(ds, log) == TRUE
Converts(ds, log) ==
  \A i \in DOMAIN ds : ds[i] = "positive" \/ (ds[i] = "negative" /\ ~log)

(* A reputer's combined and naive value must be numbers                    *)
(* (MustNewDecFromString panics) and are scaled like the elements; a       *)
(* worker's inference is optional and never scaled.                        *)
ConvertHeads ==
  /\ pc = "heads"
  /\ LET log == mode = "reputer" /\ ~topicAllowsNegative IN
       IF Converts(stdout.heads, log)
       THEN /\ heads' = [i \in DOMAIN stdout.heads |-> Scaled(stdout.heads[i], log)]
            /\ Continue("elements")
       ELSE /\ IF mode = "reputer" /\ \E i \in DOMAIN stdout.heads : stdout.heads[i] = "noNumber"
               THEN Continue("panicked") ELSE Return("parse")
            /\ UNCHANGED heads
  /\ UNCHANGED <<request, next, err, found, elements, signed, counters>>

ConvertElement ==
  /\ pc = "elements"
  /\ next <= Len(stdout.elements)
  /\ LET d == stdout.elements[next] IN
       IF Converts(<<d>>, ~topicAllowsNegative)
       THEN /\ elements' = Append(elements, Scaled(d, ~topicAllowsNegative))
            /\ Continue("elements")
       ELSE Return("parse") /\ UNCHANGED elements
  /\ next' = next + 1
  /\ UNCHANGED <<request, err, found, heads, signed, counters>>

EndOfElements ==
  /\ pc = "elements"
  /\ next > Len(stdout.elements)
  /\ Continue("sign")
  /\ UNCHANGED <<request, next, err, found, bundle, signed, counters>>

(* The response counter of workers counts the responses of reputers too;   *)
(* reputerResponse is never incremented.                                   *)
Sign ==
  /\ pc = "sign"
  /\ signed' = signed \cup
       {[topic |-> topicId, current |-> current,
         eval |-> IF mode = "reputer" THEN eval ELSE None,
         heads |-> heads, elements |-> elements]}
  /\ workerResponse' = workerResponse + 1
  /\ Continue("count")
  /\ UNCHANGED <<request, next, err, found, bundle, opsProcessed>>

(* The bundle cannot be marshalled.                                        *)
MarshalFails ==
  /\ pc = "sign"
  /\ Return("marshal")
  /\ UNCHANGED <<request, next, err, found, bundle, signed, counters>>

(* The keyring returns an error and no public key, and the code asks the   *)
(* key for its bytes before it looks at the error.                         *)
SignFails ==
  /\ pc = "sign"
  /\ Continue("panicked")
  /\ UNCHANGED <<request, next, err, found, bundle, signed, counters>>

Count ==
  /\ pc = "count"
  /\ opsProcessed' = opsProcessed + 1
  /\ Return(err)
  /\ UNCHANGED <<request, next, err, found, bundle, signed, workerResponse>>

ReadEnv == ReadTopic \/ ReadCurrentHeight \/ ReadEvalHeight \/ ReadAllowsNegative

Ended == pc \in {"returned", "panicked"} /\ UNCHANGED vars

Next ==
  \/ Execute \/ ReadEnv \/ EndOfEnv
  \/ Unmarshal \/ ConvertHeads \/ ConvertElement \/ EndOfElements
  \/ Sign \/ MarshalFails \/ SignFails \/ Count
  \/ Ended

Spec == Init /\ [][Next]_vars
-----------------------------------------------------------------------------
ScaledDecimals == [decimal : Decimals, scale : {"log", "raw"}]

TypeOK ==
  /\ pc \in {"execute", "env", "unmarshal", "heads", "elements", "sign", "count",
             "returned", "panicked"}
  /\ next \in Nat \ {0}
  /\ err \in {"nil", "execution", "parse"}
  /\ returned \in {"pending", "nil", "execution", "parse", "marshal"}
  /\ returned = "pending" <=> pc # "returned"
  /\ topicId \in Topics \cup {0}
  /\ topicFound \in BOOLEAN
  /\ current \in Heights \cup {0, notFoundValue}
  /\ eval \in Heights \cup {0, notFoundValue}
  /\ topicAllowsNegative \in BOOLEAN
  /\ heads \in Seq(ScaledDecimals)
  /\ elements \in Seq(ScaledDecimals)
  /\ signed \subseteq [topic : Topics, current : Heights, eval : Heights \cup {None},
                       heads : Seq(ScaledDecimals), elements : Seq(ScaledDecimals)]
  /\ opsProcessed \in 0..1
  /\ workerResponse \in 0..1

(* What a node signs for a request that came through a head is signed for  *)
(* the topic of the channel the head chose its workers by, which is the    *)
(* topic their leader submits it for: whichever way the client wrote the   *)
(* topic, and whatever variables it put into the request itself.           *)
SignedForRequestedTopic ==
  \A b \in signed : requested # None => b.topic = NumTopicId(buildb7sTopic(requested))

Values(name) ==
  {environment[i].value : i \in {k \in DOMAIN environment : environment[k].name = name}}

(* A signed bundle never rests on a default: its heights are heights that  *)
(* were sent, also when variables repeat or carry -1, the value that means *)
(* "not found".  A reputer's bundle has both.                              *)
SignedForSentHeights ==
  \A b \in signed :
    /\ b.current \in Values("ALLORA_BLOCK_HEIGHT_CURRENT") \ {notFoundValue}
    /\ mode = "reputer" =>
         b.eval \in Values("ALLORA_BLOCK_HEIGHT_EVAL") \ {notFoundValue}

(* A list is whole when every value of ds is in it, in its order and on    *)
(* the scale, and none is there that the scale has no number for.          *)
Whole(converted, ds, log) ==
  /\ Len(converted) = Len(ds)
  /\ \A i \in DOMAIN ds :
       /\ converted[i] = Scaled(ds[i], log)
       /\ ds[i] = "positive" \/ (ds[i] = "negative" /\ ~log)

(* A signed bundle is whole: the values outside the lists and those in     *)
(* them are on the scale the request's LOSS_FUNCTION_ALLOWS_NEGATIVE asks  *)
(* for, wherever it stands among the variables, except a worker's          *)
(* inference, which is signed as it is.                                    *)
SignedWhole ==
  \A b \in signed :
    LET log == TRUE \notin Values("LOSS_FUNCTION_ALLOWS_NEGATIVE") IN
      /\ Whole(b.heads, stdout.heads, mode = "reputer" /\ log)
      /\ Whole(b.elements, stdout.elements, log)

(* The output is replaced only by a call that returns no error: with an    *)
(* error comes the function's own output, never half a bundle.             *)
ErrorLeavesOutput == signed # {} /\ pc = "returned" => returned = "nil"
=============================================================================
