------------------------ MODULE AlloraExecutorProofs ------------------------
(***************************************************************************)
(* Proofs about AlloraExecutor for any environment, any output, any set of *)
(* topics and heights.                                                     *)
(***************************************************************************)
EXTENDS AlloraExecutor, SequenceTheorems, TLAPS

Reading == pc \in {"execute", "env"}
Converting == pc \in {"unmarshal", "heads", "elements", "sign"}
Read == Converting \/ pc = "count"

(* The request does not change, and the head's topic is its last variable. *)
RequestInv ==
  /\ environment \in Seq(EnvVars)
  /\ mode \in WorkerModes /\ stdout \in Outputs
  /\ requested \in Names \cup {None}
  /\ requested # None =>
       /\ Len(environment) > 0
       /\ environment[Len(environment)] = [name |-> "TOPIC_ID", value |-> requested]

Sent(height, name) == height \in Heights /\ height \in Values(name)
LossAllowed(i) ==
  environment[i].name = "LOSS_FUNCTION_ALLOWS_NEGATIVE" /\ environment[i].value = TRUE

(* The loop invariant: what has been found in the prefix that was read.    *)
EnvInv ==
  Reading =>
    /\ next \in 1..Len(environment) + 1
    /\ topicFound => topicId \in Topics
    /\ current # notFoundValue => Sent(current, "ALLORA_BLOCK_HEIGHT_CURRENT")
    /\ eval # notFoundValue => Sent(eval, "ALLORA_BLOCK_HEIGHT_EVAL")
    /\ topicAllowsNegative <=> \E i \in 1..next - 1 : LossAllowed(i)
    /\ requested # None /\ next = Len(environment) + 1 =>
         topicFound /\ topicId = TopicId(requested)

(* What the loop leaves for the rest of the call.                          *)
FoundInv ==
  Read =>
    /\ topicId \in Topics
    /\ requested # None => topicId = TopicId(requested)
    /\ Sent(current, "ALLORA_BLOCK_HEIGHT_CURRENT")
    /\ mode = "reputer" => Sent(eval, "ALLORA_BLOCK_HEIGHT_EVAL")
    /\ topicAllowsNegative <=> \E i \in 1..Len(environment) : LossAllowed(i)

Fits(d) == d = "positive" \/ (d = "negative" /\ topicAllowsNegative)

ConvertedUpTo(n) ==
  /\ Len(elements) = n
  /\ \A i \in 1..n :
       /\ elements[i] = Scaled(stdout.elements[i], ~topicAllowsNegative)
       /\ Fits(stdout.elements[i])

(* The loop invariant of the conversion.                                   *)
ConvertedInv ==
  /\ pc \in {"unmarshal", "heads"} => next = 1 /\ elements = <<>>
  /\ Reading => elements = <<>>
  /\ pc \in {"elements", "sign"} =>
       Whole(heads, stdout.heads, mode = "reputer" /\ ~topicAllowsNegative)
  /\ pc = "elements" =>
       next \in 1..Len(stdout.elements) + 1 /\ ConvertedUpTo(next - 1)
  /\ pc = "sign" => ConvertedUpTo(Len(stdout.elements))

(* The counters, and the error with which a signed output is returned.     *)
OutcomeInv ==
  /\ Reading \/ Converting => signed = {} /\ workerResponse = 0
  /\ pc # "returned" => opsProcessed = 0
  /\ pc \in {"heads", "elements", "sign"} => err = "nil"
  /\ signed # {} =>
       \/ pc = "count" /\ err = "nil"
       \/ pc = "returned" /\ returned = "nil"

SignedInv == SignedForRequestedTopic /\ SignedForSentHeights /\ SignedWhole

IInv ==
  /\ TypeOK
  /\ RequestInv
  /\ EnvInv
  /\ FoundInv
  /\ ConvertedInv
  /\ OutcomeInv
  /\ SignedInv

-----------------------------------------------------------------------------
(* Topic names.  A name the functions can read a number in is sent to the  *)
(* channel of that number: the three ways to cut a name agree.             *)
LEMMA NamesAgree ==
  ASSUME NEW name \in Names, TopicId(name) # NoNumber
  PROVE  /\ NumTopicId(buildb7sTopic(name)) = TopicId(name)
         /\ TopicId(name) \in Topics
<1>1. name.form \in {"number", "slash"} /\ TopicId(name) = name.number
  BY DEF TopicId
<1>2. name.number \in Topics
  BY DEF Names
<1>3. CASE name.form = "number"
  BY <1>1, <1>2, <1>3 DEF NumTopicId, buildb7sTopic, ContainsReputer
<1>4. CASE name.form = "slash"
  <2>1. CutEight(name) = name.number
    BY <1>4 DEF CutEight
  <2> QED
    BY <1>1, <1>2, <1>4, <2>1 DEF NumTopicId, buildb7sTopic, ContainsReputer
<1> QED BY <1>1, <1>3, <1>4

LEMMA EnvVarTypes ==
  ASSUME NEW v \in EnvVars
  PROVE  /\ v.name = "TOPIC_ID" => v.value \in Names
         /\ v.name \in {"ALLORA_BLOCK_HEIGHT_CURRENT", "ALLORA_BLOCK_HEIGHT_EVAL"} =>
              v.value \in Heights \cup {notFoundValue, NoNumber}
         /\ v.name = "LOSS_FUNCTION_ALLOWS_NEGATIVE" => v.value \in BOOLEAN
  BY DEF EnvVars

LEMMA RequestTypes ==
  ASSUME NEW client \in Environments, NEW topic \in Names \cup {None}
  PROVE  LET env == RequestEnvironment(client, topic) IN
         /\ env \in Seq(EnvVars)
         /\ topic # None =>
              Len(env) > 0 /\ env[Len(env)] = [name |-> "TOPIC_ID", value |-> topic]
<1> DEFINE env == RequestEnvironment(client, topic)
<1>1. client \in Seq(EnvVars)
  BY ExecutorAssumption
<1>2. CASE topic = None
  <2>1. env = client \o <<>>
    BY <1>2 DEF RequestEnvironment, TopicVars
  <2>2. env = client
    BY <1>1, <2>1
  <2> QED BY <1>1, <1>2, <2>2
<1>3. CASE topic # None
  <2> DEFINE v == [name |-> "TOPIC_ID", value |-> topic]
  <2>1. v \in EnvVars
    BY <1>3 DEF EnvVars
  <2>2. env = client \o <<v>>
    BY <1>3 DEF RequestEnvironment, TopicVars
  <2>3. env \in Seq(EnvVars) /\ Len(env) = Len(client) + 1 /\ env[Len(env)] = v
    BY <1>1, <2>1, <2>2
  <2> QED BY <1>1, <2>3
<1> QED BY <1>2, <1>3

LEMMA InitIInv == Init => IInv
<1> SUFFICES ASSUME Init PROVE IInv
  OBVIOUS
<1> USE DEF Init
<1>1. RequestInv
  <2>1. requested \in Names \cup {None}
    BY ExecutorAssumption
  <2>2. mode \in WorkerModes /\ stdout \in Outputs
    BY ExecutorAssumption
  <2>3. PICK client \in Environments : environment = RequestEnvironment(client, requested)
    OBVIOUS
  <2> QED BY <2>1, <2>2, <2>3, RequestTypes DEF RequestInv
<1>2. TypeOK
  <2>1. topicFound \in BOOLEAN /\ topicAllowsNegative \in BOOLEAN
    BY Zenon
  <2>2. heads \in Seq(ScaledDecimals) /\ elements \in Seq(ScaledDecimals)
    OBVIOUS
  <2> QED BY <2>1, <2>2 DEF TypeOK, notFoundValue
<1>3. EnvInv
  <2>1. Len(environment) \in Nat
    BY <1>1 DEF RequestInv
  <2>2. ~ \E i \in 1..next - 1 : LossAllowed(i)
    OBVIOUS
  <2> QED BY <1>1, <2>1, <2>2 DEF EnvInv, RequestInv
<1>4. FoundInv /\ ConvertedInv /\ OutcomeInv
  BY DEF FoundInv, Read, Converting, Reading, ConvertedInv, OutcomeInv
<1>5. SignedInv
  BY DEF SignedInv, SignedForRequestedTopic, SignedForSentHeights, SignedWhole
<1> QED BY <1>1, <1>2, <1>3, <1>4, <1>5 DEF IInv

-----------------------------------------------------------------------------
LEMMA RequestKept ==
  ASSUME IInv, UNCHANGED request
  PROVE  RequestInv'
  BY DEF IInv, RequestInv, request

LEMMA SignedKept ==
  ASSUME IInv, UNCHANGED <<request, signed>>
  PROVE  SignedInv'
<1> USE DEF IInv, SignedInv, request
<1>1. SignedForRequestedTopic'
  BY DEF SignedForRequestedTopic
<1>2. \A name : Values(name)' = Values(name)
  BY DEF Values
<1>3. SignedForSentHeights'
  BY <1>2 DEF SignedForSentHeights
<1>4. SignedWhole'
  BY <1>2 DEF SignedWhole
<1> QED BY <1>1, <1>3, <1>4

(* What was found stays found.                                             *)
LEMMA FoundKept ==
  ASSUME IInv, UNCHANGED <<request, found>>, Read' => Read
  PROVE  FoundInv'
  BY DEF IInv, FoundInv, Sent, Values, LossAllowed, request, found

LEMMA ExecuteKeeps == ASSUME IInv, Execute PROVE IInv'
<1> USE DEF Execute, Continue, request, found, bundle, counters
<1>1. RequestInv' /\ SignedInv'
  BY RequestKept, SignedKept
<1>2. TypeOK'
  BY DEF IInv, TypeOK
<1>3. EnvInv'
  BY DEF IInv, EnvInv, Reading, Sent, Values, LossAllowed, RequestInv
<1>4. FoundInv' /\ ConvertedInv' /\ OutcomeInv'
  BY DEF IInv, FoundInv, ConvertedInv, OutcomeInv, Read, Reading, Converting
<1> QED BY <1>1, <1>2, <1>3, <1>4 DEF IInv

(* One variable of the environment.                                        *)
LEMMA AtVariable ==
  ASSUME IInv, NEW name, AtVar(name)
  PROVE  /\ pc = "env" /\ next \in 1..Len(environment) /\ Len(environment) \in Nat
         /\ environment[next] \in EnvVars
         /\ environment[next].name = name
         /\ environment[next].value \in Values(name)
         /\ requested # None /\ next = Len(environment) =>
              name = "TOPIC_ID" /\ environment[next].value = requested
<1>1. pc = "env" /\ next \in Nat \ {0} /\ next <= Len(environment) /\ Len(environment) \in Nat
  BY DEF AtVar, IInv, TypeOK, RequestInv
<1>2. environment[next] \in EnvVars /\ environment[next].name = name
  BY <1>1 DEF AtVar, IInv, RequestInv
<1>3. next \in DOMAIN environment
  BY <1>1 DEF IInv, RequestInv
<1>4. environment[next].value \in Values(name)
  BY <1>2, <1>3 DEF Values
<1> QED BY <1>1, <1>2, <1>4 DEF IInv, RequestInv

LEMMA AllowanceRead ==
  ASSUME IInv, NEW name, AtVar(name), environment' = environment, next' = next + 1,
         topicAllowsNegative' <=> topicAllowsNegative \/ LossAllowed(next)
  PROVE  topicAllowsNegative' <=> \E i \in 1..next' - 1 : LossAllowed(i)'
<1>1. next \in 1..Len(environment) /\ Len(environment) \in Nat
  BY AtVariable
<1>2. \A i : LossAllowed(i)' <=> LossAllowed(i)
  BY DEF LossAllowed
<1>3. \A i : i \in 1..next' - 1 <=> i \in 1..next - 1 \/ i = next
  BY <1>1
<1>4. topicAllowsNegative <=> \E i \in 1..next - 1 : LossAllowed(i)
  BY DEF AtVar, IInv, EnvInv, Reading
<1> QED BY <1>2, <1>3, <1>4, Zenon

(* Where a parsed variable leaves the loop invariant to be shown.          *)
LEMMA ParseKeeps ==
  ASSUME IInv, NEW name, AtVar(name), NEW number, Parse(number),
         UNCHANGED <<request, bundle, signed, counters>>, TypeOK',
         number # NoNumber => EnvInv'
  PROVE  IInv'
<1> USE DEF Parse, Continue, Return, request, bundle, counters
<1>0. pc = "env"
  BY DEF AtVar
<1>1. RequestInv' /\ SignedInv'
  BY RequestKept, SignedKept
<1>2. CASE number # NoNumber
  <2>1. pc' = "env" /\ EnvInv'
    BY <1>2
  <2>2. FoundInv' /\ ConvertedInv' /\ OutcomeInv'
    BY <1>0, <2>1 DEF IInv, FoundInv, ConvertedInv, OutcomeInv, Read, Reading, Converting
  <2> QED BY <1>1, <2>1, <2>2 DEF IInv
<1>3. CASE number = NoNumber
  <2>1. pc' = "returned"
    BY <1>3
  <2>2. EnvInv' /\ FoundInv' /\ ConvertedInv' /\ OutcomeInv'
    BY <1>0, <2>1 DEF IInv, EnvInv, FoundInv, ConvertedInv, OutcomeInv, Read, Reading, Converting
  <2> QED BY <1>1, <2>2 DEF IInv
<1> QED BY <1>2, <1>3

LEMMA ReadTopicKeeps == ASSUME IInv, ReadTopic PROVE IInv'
<1> DEFINE number == TopicId(environment[next].value)
<1>1. AtVar("TOPIC_ID") /\ Parse(number)
  BY DEF ReadTopic
<1>2. environment[next].value \in Names
  BY <1>1, AtVariable, EnvVarTypes
<1>3. number # NoNumber => number \in Topics
  BY <1>2, NamesAgree
<1>4. topicId' \in Topics \cup {0} /\ (number # NoNumber => topicId' = number)
  BY <1>3 DEF ReadTopic, Parsed
<1>5. TypeOK'
  <2>1. topicFound' \in BOOLEAN
    BY DEF ReadTopic
  <2>2. next' \in Nat \ {0} /\ err' \in {"nil", "parse"}
        /\ pc' \in {"env", "returned"} /\ returned' \in {returned, "parse"}
        /\ (returned' = "pending" <=> pc' # "returned")
    BY <1>1 DEF Parse, Continue, Return, IInv, TypeOK, AtVar
  <2> QED
    BY <1>4, <2>1, <2>2 DEF IInv, TypeOK, ReadTopic, bundle, counters
<1>6. ASSUME number # NoNumber PROVE EnvInv'
  <2>1. next' = next + 1 /\ pc' = "env" /\ topicFound' = TRUE /\ topicId' = number
    BY <1>1, <1>4, <1>6 DEF Parse, Continue, ReadTopic
  <2>2. UNCHANGED <<environment, requested, current, eval, topicAllowsNegative>>
    BY DEF ReadTopic, request
  <2>3. ~LossAllowed(next)
    BY <1>1, AtVariable DEF LossAllowed
  <2>4. topicAllowsNegative' <=> \E i \in 1..next' - 1 : LossAllowed(i)'
    BY <1>1, <2>1, <2>2, <2>3, AllowanceRead
  <2>5. requested # None /\ next = Len(environment) => number = TopicId(requested)
    BY <1>1, AtVariable
  <2>6. next \in 1..Len(environment) /\ Len(environment) \in Nat
    BY <1>1, AtVariable
  <2>7. /\ current # notFoundValue => Sent(current, "ALLORA_BLOCK_HEIGHT_CURRENT")
        /\ eval # notFoundValue => Sent(eval, "ALLORA_BLOCK_HEIGHT_EVAL")
    BY <1>1, AtVariable DEF IInv, EnvInv, Reading
  <2>8. /\ current' # notFoundValue => Sent(current, "ALLORA_BLOCK_HEIGHT_CURRENT")'
        /\ eval' # notFoundValue => Sent(eval, "ALLORA_BLOCK_HEIGHT_EVAL")'
    BY <2>2, <2>7 DEF Sent, Values
  <2> QED
    BY <1>3, <1>6, <2>1, <2>2, <2>4, <2>5, <2>6, <2>8 DEF EnvInv
<1>7. UNCHANGED <<request, bundle, signed, counters>>
  BY DEF ReadTopic
<1> QED
  BY <1>1, <1>5, <1>6, <1>7, ParseKeeps

LEMMA ReadCurrentHeightKeeps == ASSUME IInv, ReadCurrentHeight PROVE IInv'
<1> DEFINE number == environment[next].value
<1>1. AtVar("ALLORA_BLOCK_HEIGHT_CURRENT") /\ Parse(number)
  BY DEF ReadCurrentHeight
<1>2. number \in Heights \cup {notFoundValue, NoNumber} /\ number \in Values("ALLORA_BLOCK_HEIGHT_CURRENT")
  BY <1>1, AtVariable, EnvVarTypes
<1>3. current' = IF number = NoNumber THEN 0 ELSE number
  BY DEF ReadCurrentHeight, Parsed
<1>4. TypeOK'
  <2>1. current' \in Heights \cup {0, notFoundValue}
    BY <1>2, <1>3
  <2>2. next' \in Nat \ {0} /\ err' \in {"nil", "parse"}
        /\ pc' \in {"env", "returned"} /\ returned' \in {returned, "parse"}
        /\ (returned' = "pending" <=> pc' # "returned")
    BY <1>1 DEF Parse, Continue, Return, IInv, TypeOK, AtVar
  <2> QED
    BY <2>1, <2>2 DEF IInv, TypeOK, ReadCurrentHeight, bundle, counters
<1>5. ASSUME number # NoNumber PROVE EnvInv'
  <2>1. next' = next + 1 /\ pc' = "env" /\ current' = number
    BY <1>1, <1>3, <1>5 DEF Parse, Continue
  <2>2. UNCHANGED <<environment, requested, topicId, topicFound, eval, topicAllowsNegative>>
    BY DEF ReadCurrentHeight, request
  <2>3. ~LossAllowed(next)
    BY <1>1, AtVariable DEF LossAllowed
  <2>4. topicAllowsNegative' <=> \E i \in 1..next' - 1 : LossAllowed(i)'
    BY <1>1, <2>1, <2>2, <2>3, AllowanceRead
  <2>5. ~(requested # None /\ next = Len(environment))
    BY <1>1, AtVariable
  <2>6. next \in 1..Len(environment) /\ Len(environment) \in Nat
    BY <1>1, AtVariable
  <2>7. /\ topicFound => topicId \in Topics
        /\ eval # notFoundValue => Sent(eval, "ALLORA_BLOCK_HEIGHT_EVAL")
    BY <1>1, AtVariable DEF IInv, EnvInv, Reading
  <2>8. /\ eval' # notFoundValue => Sent(eval, "ALLORA_BLOCK_HEIGHT_EVAL")'
        /\ current' # notFoundValue => Sent(current, "ALLORA_BLOCK_HEIGHT_CURRENT")'
    BY <1>2, <1>5, <2>1, <2>2, <2>7 DEF Sent, Values
  <2> QED
    BY <2>1, <2>2, <2>4, <2>5, <2>6, <2>7, <2>8 DEF EnvInv
<1>6. UNCHANGED <<request, bundle, signed, counters>>
  BY DEF ReadCurrentHeight
<1> QED
  BY <1>1, <1>4, <1>5, <1>6, ParseKeeps

LEMMA ReadEvalHeightKeeps == ASSUME IInv, ReadEvalHeight PROVE IInv'
<1> DEFINE number == environment[next].value
<1>1. AtVar("ALLORA_BLOCK_HEIGHT_EVAL") /\ Parse(number)
  BY DEF ReadEvalHeight
<1>2. number \in Heights \cup {notFoundValue, NoNumber} /\ number \in Values("ALLORA_BLOCK_HEIGHT_EVAL")
  BY <1>1, AtVariable, EnvVarTypes
<1>3. eval' = IF number = NoNumber THEN 0 ELSE number
  BY DEF ReadEvalHeight, Parsed
<1>4. TypeOK'
  <2>1. eval' \in Heights \cup {0, notFoundValue}
    BY <1>2, <1>3
  <2>2. next' \in Nat \ {0} /\ err' \in {"nil", "parse"}
        /\ pc' \in {"env", "returned"} /\ returned' \in {returned, "parse"}
        /\ (returned' = "pending" <=> pc' # "returned")
    BY <1>1 DEF Parse, Continue, Return, IInv, TypeOK, AtVar
  <2> QED
    BY <2>1, <2>2 DEF IInv, TypeOK, ReadEvalHeight, bundle, counters
<1>5. ASSUME number # NoNumber PROVE EnvInv'
  <2>1. next' = next + 1 /\ pc' = "env" /\ eval' = number
    BY <1>1, <1>3, <1>5 DEF Parse, Continue
  <2>2. UNCHANGED <<environment, requested, topicId, topicFound, current, topicAllowsNegative>>
    BY DEF ReadEvalHeight, request
  <2>3. ~LossAllowed(next)
    BY <1>1, AtVariable DEF LossAllowed
  <2>4. topicAllowsNegative' <=> \E i \in 1..next' - 1 : LossAllowed(i)'
    BY <1>1, <2>1, <2>2, <2>3, AllowanceRead
  <2>5. ~(requested # None /\ next = Len(environment))
    BY <1>1, AtVariable
  <2>6. next \in 1..Len(environment) /\ Len(environment) \in Nat
    BY <1>1, AtVariable
  <2>7. /\ topicFound => topicId \in Topics
        /\ current # notFoundValue => Sent(current, "ALLORA_BLOCK_HEIGHT_CURRENT")
    BY <1>1, AtVariable DEF IInv, EnvInv, Reading
  <2>8. /\ current' # notFoundValue => Sent(current, "ALLORA_BLOCK_HEIGHT_CURRENT")'
        /\ eval' # notFoundValue => Sent(eval, "ALLORA_BLOCK_HEIGHT_EVAL")'
    BY <1>2, <1>5, <2>1, <2>2, <2>7 DEF Sent, Values
  <2> QED
    BY <2>1, <2>2, <2>4, <2>5, <2>6, <2>7, <2>8 DEF EnvInv
<1>6. UNCHANGED <<request, bundle, signed, counters>>
  BY DEF ReadEvalHeight
<1> QED
  BY <1>1, <1>4, <1>5, <1>6, ParseKeeps

LEMMA ReadAllowsNegativeKeeps == ASSUME IInv, ReadAllowsNegative PROVE IInv'
<1> DEFINE name == "LOSS_FUNCTION_ALLOWS_NEGATIVE"
<1>1. AtVar(name) /\ pc = "env" /\ pc' = "env" /\ next' = next + 1
  BY DEF ReadAllowsNegative, AtVar
<1>2. environment[next].value \in BOOLEAN /\ environment[next].name = name
  BY <1>1, AtVariable, EnvVarTypes
<1>3. /\ topicAllowsNegative' \in BOOLEAN
      /\ topicAllowsNegative' <=> topicAllowsNegative \/ LossAllowed(next)
  <2>1. topicAllowsNegative \in BOOLEAN
    BY DEF IInv, TypeOK
  <2>2. topicAllowsNegative' = (topicAllowsNegative \/ environment[next].value)
    BY DEF ReadAllowsNegative
  <2>3. LossAllowed(next) <=> environment[next].value
    BY <1>2 DEF LossAllowed
  <2> QED BY <1>2, <2>1, <2>2, <2>3
<1>4. RequestInv' /\ SignedInv'
  BY RequestKept, SignedKept DEF ReadAllowsNegative
<1>5. TypeOK'
  <2>1. next' \in Nat \ {0}
    BY <1>1 DEF IInv, TypeOK
  <2> QED
    BY <1>3, <2>1 DEF IInv, TypeOK, ReadAllowsNegative, bundle, counters
<1>6. EnvInv'
  <2>1. topicAllowsNegative' <=> \E i \in 1..next' - 1 : LossAllowed(i)'
    BY <1>1, <1>3, AllowanceRead DEF ReadAllowsNegative, request
  <2>2. ~(requested # None /\ next = Len(environment))
    BY <1>1, AtVariable
  <2>3. next \in 1..Len(environment) /\ Len(environment) \in Nat
    BY <1>1, AtVariable
  <2> QED
    BY <1>1, <2>1, <2>2, <2>3 DEF IInv, EnvInv, Reading, ReadAllowsNegative, request, Sent, Values
<1>7. FoundInv' /\ ConvertedInv' /\ OutcomeInv'
  BY <1>1 DEF IInv, FoundInv, ConvertedInv, OutcomeInv, Read, Reading, Converting,
     ReadAllowsNegative, bundle, counters
<1> QED BY <1>4, <1>5, <1>6, <1>7 DEF IInv

(* The end of the loop: nothing is signed on a default.                    *)
LEMMA EndOfEnvKeeps == ASSUME IInv, EndOfEnv PROVE IInv'
<1> USE DEF EndOfEnv, Return, Continue
<1>1. pc = "env" /\ next = Len(environment) + 1 /\ next' = 1 /\ Len(environment) \in Nat
  BY DEF IInv, EnvInv, Reading, RequestInv
<1>2. pc' \in {"returned", "unmarshal", "count"}
      /\ (returned' = "pending" <=> pc' # "returned") /\ returned' \in {"pending", "nil"}
  BY <1>1 DEF IInv, TypeOK
<1>3. RequestInv' /\ SignedInv'
  BY RequestKept, SignedKept
<1>4. TypeOK'
  BY <1>1, <1>2 DEF IInv, TypeOK, found, bundle, counters
<1>5. EnvInv'
  BY <1>2 DEF EnvInv, Reading
<1>6. FoundInv'
  <2> SUFFICES ASSUME pc' \in {"unmarshal", "count"} PROVE FoundInv'
    BY <1>2 DEF FoundInv, Read, Converting
  <2>1. ~NothingToSignFor /\ ~EvalMissing
    OBVIOUS
  <2>2. /\ topicFound /\ topicId \in Topics
        /\ requested # None => topicId = TopicId(requested)
        /\ Sent(current, "ALLORA_BLOCK_HEIGHT_CURRENT")
        /\ mode = "reputer" => Sent(eval, "ALLORA_BLOCK_HEIGHT_EVAL")
    BY <1>1, <2>1 DEF IInv, EnvInv, Reading, NothingToSignFor, EvalMissing
  <2>3. topicAllowsNegative <=> \E i \in 1..Len(environment) : LossAllowed(i)
    <3>1. next - 1 = Len(environment)
      BY <1>1
    <3> QED BY <1>1, <3>1 DEF IInv, EnvInv, Reading
  <2> QED
    BY <2>2, <2>3 DEF FoundInv, Sent, Values, LossAllowed, request, found
<1>7. ConvertedInv' /\ OutcomeInv'
  BY <1>1, <1>2 DEF IInv, ConvertedInv, OutcomeInv, Reading, Converting, bundle, counters
<1> QED BY <1>3, <1>4, <1>5, <1>6, <1>7 DEF IInv

-----------------------------------------------------------------------------
LEMMA UnmarshalKeeps == ASSUME IInv, Unmarshal PROVE IInv'
<1> USE DEF Unmarshal, Return, Continue, AfterUnparsable
<1>1. pc = "unmarshal"
      /\ \/ pc' = "heads" /\ err' = "nil" /\ returned' = returned
         \/ pc' = "count" /\ err' = "parse" /\ returned' = returned
         \/ pc' = "returned" /\ err' = "parse" /\ returned' = "parse"
  OBVIOUS
<1>2. RequestInv' /\ SignedInv'
  BY RequestKept, SignedKept
<1>3. FoundInv'
  BY <1>1, FoundKept DEF Read, Converting
<1>4. TypeOK'
  BY <1>1 DEF IInv, TypeOK, found, bundle, counters
<1>5. EnvInv' /\ ConvertedInv' /\ OutcomeInv'
  BY <1>1 DEF IInv, EnvInv, ConvertedInv, OutcomeInv, Reading, Converting, bundle, counters
<1> QED BY <1>2, <1>3, <1>4, <1>5 DEF IInv

LEMMA ScaledType ==
  ASSUME NEW d \in Decimals, NEW log \in BOOLEAN
  PROVE  Scaled(d, log) \in ScaledDecimals
  BY DEF Scaled, ScaledDecimals

LEMMA ConvertHeadsKeeps == ASSUME IInv, ConvertHeads PROVE IInv'
<1> USE DEF ConvertHeads, Return, Continue
<1> DEFINE log == mode = "reputer" /\ ~topicAllowsNegative
<1> DEFINE converted == [i \in DOMAIN stdout.heads |-> Scaled(stdout.heads[i], log)]
<1>1. pc = "heads"
      /\ \/ pc' = "elements" /\ heads' = converted /\ returned' = returned
         \/ pc' = "panicked" /\ heads' = heads /\ returned' = returned
         \/ pc' = "returned" /\ heads' = heads /\ returned' = "parse"
  OBVIOUS
<1>2. RequestInv' /\ SignedInv'
  BY RequestKept, SignedKept
<1>3. FoundInv'
  BY <1>1, FoundKept DEF Read, Converting
<1>4. converted \in Seq(ScaledDecimals) /\ Len(converted) = Len(stdout.heads)
  <2>1. stdout.heads \in Seq(Decimals) /\ DOMAIN stdout.heads = 1..Len(stdout.heads)
        /\ Len(stdout.heads) \in Nat
    BY DEF IInv, RequestInv, Outputs
  <2>2. log \in BOOLEAN
    OBVIOUS
  <2> HIDE DEF log
  <2>3. ASSUME NEW i \in 1..Len(stdout.heads)
        PROVE  Scaled(stdout.heads[i], log) \in ScaledDecimals
    <3>1. stdout.heads[i] \in Decimals
      BY <2>1
    <3> QED BY <2>2, <3>1, ScaledType
  <2>4. converted \in [1..Len(stdout.heads) -> ScaledDecimals]
    BY <2>1, <2>3
  <2> QED BY <2>1, <2>4
<1>5. TypeOK'
  BY <1>1, <1>4 DEF IInv, TypeOK, found, counters
<1>6. ConvertedInv'
  <2>1. CASE pc' = "elements"
    <3>1. next' = 1 /\ elements' = <<>>
      BY <1>1 DEF IInv, ConvertedInv
    <3>2. Len(stdout.elements) \in Nat
      BY DEF IInv, RequestInv, Outputs
    <3>3. stdout' = stdout
      BY DEF request
    <3>4. ConvertedUpTo(next - 1)'
      BY <3>1 DEF ConvertedUpTo
    <3>5. Converts(stdout.heads, log) /\ heads' = converted
      BY <1>1, <2>1
    <3>6. Whole(converted, stdout.heads, log)
      BY <1>4, <3>5 DEF Whole, Converts
    <3>7. Whole(heads, stdout.heads, mode = "reputer" /\ ~topicAllowsNegative)'
      BY <3>5, <3>6 DEF Whole, request, found
    <3> QED
      BY <1>1, <2>1, <3>1, <3>2, <3>3, <3>4, <3>7 DEF ConvertedInv, Reading
  <2>2. CASE pc' \in {"panicked", "returned"}
    BY <2>2 DEF ConvertedInv, Reading
  <2> QED BY <1>1, <2>1, <2>2
<1>7. EnvInv' /\ OutcomeInv'
  BY <1>1 DEF IInv, EnvInv, OutcomeInv, Reading, Converting, counters
<1> QED BY <1>2, <1>3, <1>5, <1>6, <1>7 DEF IInv

LEMMA ConvertElementKeeps == ASSUME IInv, ConvertElement PROVE IInv'
<1> USE DEF ConvertElement, Return, Continue
<1> DEFINE d == stdout.elements[next]
           e == Scaled(d, ~topicAllowsNegative)
<1>1. pc = "elements" /\ next' = next + 1
      /\ \/ /\ Converts(<<d>>, ~topicAllowsNegative)
            /\ pc' = "elements" /\ elements' = Append(elements, e) /\ returned' = returned
         \/ pc' = "returned" /\ elements' = elements /\ returned' = "parse"
  OBVIOUS
<1>2. RequestInv' /\ SignedInv'
  BY RequestKept, SignedKept
<1>3. FoundInv'
  BY <1>1, FoundKept DEF Read, Converting
<1>4. /\ stdout.elements \in Seq(Decimals) /\ Len(stdout.elements) \in Nat
      /\ next \in 1..Len(stdout.elements) /\ d \in Decimals
      /\ topicAllowsNegative \in BOOLEAN /\ elements \in Seq(ScaledDecimals)
      /\ Len(elements) = next - 1
  BY <1>1 DEF IInv, TypeOK, RequestInv, Outputs, ConvertedInv, ConvertedUpTo
<1>5. e \in ScaledDecimals
  BY <1>4, ScaledType
<1>6. elements' \in Seq(ScaledDecimals)
  BY <1>1, <1>4, <1>5
<1>7. TypeOK'
  BY <1>1, <1>4, <1>6 DEF IInv, TypeOK, found, counters
<1>8. ConvertedInv'
  <2>1. CASE pc' = "elements"
    <3>1. UNCHANGED <<stdout, topicAllowsNegative, heads>>
      BY DEF request, found
    <3>2. Fits(d)
      <4>1. Converts(<<d>>, ~topicAllowsNegative)
        BY <1>1, <2>1
      <4>2. DOMAIN <<d>> = {1} /\ <<d>>[1] = d
        OBVIOUS
      <4> QED BY <4>1, <4>2 DEF Converts, Fits
    <3>3. /\ elements' = Append(elements, e) /\ Len(elements') = next
          /\ elements'[next] = e
          /\ \A i \in 1..next - 1 : elements'[i] = elements[i]
      BY <1>1, <1>4, <1>5, <2>1
    <3>4. \A i \in 1..next - 1 :
            elements[i] = Scaled(stdout.elements[i], ~topicAllowsNegative)
              /\ Fits(stdout.elements[i])
      BY <1>1 DEF IInv, ConvertedInv, ConvertedUpTo
    <3>5. next' - 1 = next
      BY <1>1, <1>4
    <3>6. ASSUME NEW i \in 1..next
          PROVE  elements'[i] = Scaled(stdout.elements[i], ~topicAllowsNegative)
                   /\ Fits(stdout.elements[i])
      <4>1. i \in 1..next - 1 \/ i = next
        BY <1>4
      <4> QED BY <3>2, <3>3, <3>4, <4>1
    <3>7. ConvertedUpTo(next - 1)'
      BY <3>1, <3>3, <3>5, <3>6 DEF ConvertedUpTo, Fits
    <3>8. next' \in 1..Len(stdout'.elements) + 1
      BY <1>1, <1>4, <3>1
    <3>9. Whole(heads, stdout.heads, mode = "reputer" /\ ~topicAllowsNegative)'
      BY <1>1, <3>1 DEF IInv, ConvertedInv, Whole, request
    <3> QED BY <2>1, <3>7, <3>8, <3>9 DEF ConvertedInv, Reading
  <2>2. CASE pc' = "returned"
    BY <2>2 DEF ConvertedInv, Reading
  <2> QED BY <1>1, <2>1, <2>2
<1>9. EnvInv' /\ OutcomeInv'
  BY <1>1 DEF IInv, EnvInv, OutcomeInv, Reading, Converting, counters
<1> QED BY <1>2, <1>3, <1>7, <1>8, <1>9 DEF IInv

LEMMA EndOfElementsKeeps == ASSUME IInv, EndOfElements PROVE IInv'
<1> USE DEF EndOfElements, Continue
<1>1. pc = "elements" /\ pc' = "sign" /\ next = Len(stdout.elements) + 1
      /\ Len(stdout.elements) \in Nat
  BY DEF IInv, ConvertedInv, RequestInv, Outputs
<1>2. RequestInv' /\ SignedInv'
  BY RequestKept, SignedKept
<1>3. FoundInv'
  BY <1>1, FoundKept DEF Read, Converting
<1>4. TypeOK'
  BY <1>1 DEF IInv, TypeOK, found, bundle, counters
<1>5. ConvertedInv'
  <2>1. next - 1 = Len(stdout.elements)
    BY <1>1
  <2> QED
    BY <1>1, <2>1 DEF IInv, ConvertedInv, ConvertedUpTo, Fits, Whole, Reading, request, found,
                      bundle
<1>6. EnvInv' /\ OutcomeInv'
  BY <1>1 DEF IInv, EnvInv, OutcomeInv, Reading, Converting, counters
<1> QED BY <1>2, <1>3, <1>4, <1>5, <1>6 DEF IInv

-----------------------------------------------------------------------------
(* The bundle that is put in place of the output.                          *)
LEMMA SignKeeps == ASSUME IInv, Sign PROVE IInv'
<1> DEFINE b == [topic |-> topicId, current |-> current,
                 eval |-> IF mode = "reputer" THEN eval ELSE None,
                 heads |-> heads, elements |-> elements]
<1> USE DEF Continue
<1>1. pc = "sign" /\ pc' = "count" /\ signed' = {b} /\ workerResponse' = 1
      /\ UNCHANGED <<returned, request, next, err, found, bundle, opsProcessed>>
  BY DEF Sign, IInv, OutcomeInv, Converting
<1>2. RequestInv'
  BY <1>1, RequestKept
<1>3. FoundInv'
  BY <1>1, FoundKept DEF Read, Converting
<1>4. /\ topicId \in Topics
      /\ requested # None => topicId = TopicId(requested)
      /\ Sent(current, "ALLORA_BLOCK_HEIGHT_CURRENT")
      /\ mode = "reputer" => Sent(eval, "ALLORA_BLOCK_HEIGHT_EVAL")
      /\ topicAllowsNegative <=> \E i \in 1..Len(environment) : LossAllowed(i)
  BY <1>1 DEF IInv, FoundInv, Read, Converting
<1>5. heads \in Seq(ScaledDecimals) /\ elements \in Seq(ScaledDecimals)
      /\ topicAllowsNegative \in BOOLEAN
  BY DEF IInv, TypeOK
<1>6. b \in [topic : Topics, current : Heights, eval : Heights \cup {None},
             heads : Seq(ScaledDecimals), elements : Seq(ScaledDecimals)]
  BY <1>4, <1>5 DEF Sent
<1>7. TypeOK'
  <2> HIDE DEF b
  <2> QED BY <1>1, <1>6 DEF IInv, TypeOK, found, bundle
<1>8. \A name : Values(name)' = Values(name)
  BY <1>1 DEF Values, request
<1>9. SignedForRequestedTopic'
  <2> SUFFICES ASSUME requested # None
               PROVE  topicId = NumTopicId(buildb7sTopic(requested))
    BY <1>1 DEF SignedForRequestedTopic, request
  <2>1. requested \in Names /\ topicId = TopicId(requested) /\ TopicId(requested) # NoNumber
    BY <1>4, TopicNamesAssumption DEF IInv, RequestInv
  <2> QED BY <2>1, NamesAgree
<1>10. SignedForSentHeights'
  <2>1. current \in Values("ALLORA_BLOCK_HEIGHT_CURRENT") \ {notFoundValue}
        /\ (mode = "reputer" =>
              eval \in Values("ALLORA_BLOCK_HEIGHT_EVAL") \ {notFoundValue})
    BY <1>4, ExecutorAssumption DEF Sent, notFoundValue
  <2> QED BY <1>1, <1>8, <2>1 DEF SignedForSentHeights, request
<1>11. SignedWhole'
  <2> DEFINE log == TRUE \notin Values("LOSS_FUNCTION_ALLOWS_NEGATIVE")
  <2>1. log = ~topicAllowsNegative
    <3>1. DOMAIN environment = 1..Len(environment)
      BY DEF IInv, RequestInv
    <3>2. TRUE \in Values("LOSS_FUNCTION_ALLOWS_NEGATIVE")
            <=> \E i \in DOMAIN environment : LossAllowed(i)
      BY DEF Values, LossAllowed
    <3>3. TRUE \in Values("LOSS_FUNCTION_ALLOWS_NEGATIVE") <=> topicAllowsNegative
      BY <1>4, <3>1, <3>2
    <3> QED BY <1>5, <3>3
  <2>2. /\ Whole(heads, stdout.heads, mode = "reputer" /\ ~topicAllowsNegative)
        /\ ConvertedUpTo(Len(stdout.elements))
    BY <1>1 DEF IInv, ConvertedInv
  <2>3. DOMAIN stdout.elements = 1..Len(stdout.elements)
    BY DEF IInv, RequestInv, Outputs
  <2>4. Whole(elements, stdout.elements, ~topicAllowsNegative)
    BY <2>2, <2>3 DEF Whole, ConvertedUpTo, Fits
  <2>5. b.heads = heads /\ b.elements = elements
    OBVIOUS
  <2>6. UNCHANGED <<environment, stdout, mode>>
    BY <1>1 DEF request
  <2> HIDE DEF b
  <2> QED BY <1>1, <1>8, <2>1, <2>2, <2>4, <2>5, <2>6 DEF SignedWhole, Whole
<1>12. EnvInv' /\ ConvertedInv' /\ OutcomeInv'
  BY <1>1 DEF IInv, EnvInv, ConvertedInv, OutcomeInv, Reading, Converting
<1> QED
  BY <1>2, <1>3, <1>7, <1>9, <1>10, <1>11, <1>12 DEF IInv, SignedInv

LEMMA SigningFailsKeeps == ASSUME IInv, MarshalFails \/ SignFails PROVE IInv'
<1>1. pc = "sign" /\ UNCHANGED <<request, next, err, found, bundle, signed, counters>>
      /\ \/ pc' = "returned" /\ returned' = "marshal"
         \/ pc' = "panicked" /\ returned' = returned
  BY DEF MarshalFails, SignFails, Return, Continue
<1>2. RequestInv' /\ SignedInv'
  BY <1>1, RequestKept, SignedKept
<1>3. TypeOK'
  BY <1>1 DEF IInv, TypeOK, found, bundle, counters
<1>4. FoundInv'
  BY <1>1, FoundKept DEF Read, Converting
<1>5. EnvInv' /\ ConvertedInv' /\ OutcomeInv'
  BY <1>1 DEF IInv, EnvInv, ConvertedInv, OutcomeInv, Reading, Converting, bundle, counters
<1> QED BY <1>2, <1>3, <1>4, <1>5 DEF IInv

LEMMA CountKeeps == ASSUME IInv, Count PROVE IInv'
<1> USE DEF Count, Return
<1>1. pc = "count" /\ pc' = "returned" /\ returned' = err /\ opsProcessed' = 1
  BY DEF IInv, OutcomeInv
<1>2. RequestInv' /\ SignedInv'
  BY RequestKept, SignedKept
<1>3. TypeOK'
  BY <1>1 DEF IInv, TypeOK, found, bundle
<1>4. FoundInv'
  BY <1>1, FoundKept DEF Read, Converting
<1>5. EnvInv' /\ ConvertedInv' /\ OutcomeInv'
  BY <1>1 DEF IInv, EnvInv, ConvertedInv, OutcomeInv, Reading, Converting, bundle
<1> QED BY <1>2, <1>3, <1>4, <1>5 DEF IInv

LEMMA StutterKeeps == ASSUME IInv, UNCHANGED vars PROVE IInv'
<1> USE DEF vars, request, found, bundle, counters
<1>1. RequestInv' /\ SignedInv'
  BY RequestKept, SignedKept
<1>2. FoundInv'
  BY FoundKept DEF Read, Converting
<1>3. TypeOK'
  BY DEF IInv, TypeOK
<1>4. EnvInv' /\ ConvertedInv' /\ OutcomeInv'
  BY DEF IInv, EnvInv, ConvertedInv, ConvertedUpTo, Fits, Whole, OutcomeInv, Reading, Converting,
     Sent, Values, LossAllowed
<1> QED BY <1>1, <1>2, <1>3, <1>4 DEF IInv

LEMMA NextIInv == IInv /\ [Next]_vars => IInv'
<1> SUFFICES ASSUME IInv, [Next]_vars PROVE IInv'
  OBVIOUS
<1>1. CASE Execute
  BY <1>1, ExecuteKeeps
<1>2. CASE ReadEnv
  BY <1>2, ReadTopicKeeps, ReadCurrentHeightKeeps, ReadEvalHeightKeeps,
     ReadAllowsNegativeKeeps DEF ReadEnv
<1>3. CASE EndOfEnv
  BY <1>3, EndOfEnvKeeps
<1>4. CASE Unmarshal \/ ConvertHeads \/ ConvertElement \/ EndOfElements
  BY <1>4, UnmarshalKeeps, ConvertHeadsKeeps, ConvertElementKeeps, EndOfElementsKeeps
<1>5. CASE Sign
  BY <1>5, SignKeeps
<1>6. CASE MarshalFails \/ SignFails
  BY <1>6, SigningFailsKeeps
<1>7. CASE Count
  BY <1>7, CountKeeps
<1>8. CASE Ended \/ UNCHANGED vars
  BY <1>8, StutterKeeps DEF Ended
<1> QED
  BY <1>1, <1>2, <1>3, <1>4, <1>5, <1>6, <1>7, <1>8 DEF Next

-----------------------------------------------------------------------------
(* The request stays as it came, the variables found are those of the part *)
(* that was read, and the values converted those of the output so far.     *)
THEOREM Invariance == Spec => []IInv
  BY InitIInv, NextIInv, PTL DEF Spec

(* The variables keep their types; a bundle is never signed for a topic or *)
(* a height that is none.                                                  *)
THEOREM TypeCorrect == Spec => []TypeOK
<1>1. IInv => TypeOK
  BY DEF IInv
<1> QED BY <1>1, Invariance, PTL

(* The node signs for the topic of the channel its request went to, for    *)
(* every way the client may have written the topic and every environment   *)
(* it may have sent along.                                                 *)
THEOREM SignedForChannelsTopic == Spec => []SignedForRequestedTopic
<1>1. IInv => SignedForRequestedTopic
  BY DEF IInv, SignedInv
<1> QED BY <1>1, Invariance, PTL

(* No bundle rests on a height that was not in the request.                *)
THEOREM SignedForHeightsSent == Spec => []SignedForSentHeights
<1>1. IInv => SignedForSentHeights
  BY DEF IInv, SignedInv
<1> QED BY <1>1, Invariance, PTL

(* A signed bundle has every value of the output, on the scale asked for.  *)
THEOREM SignedIsWhole == Spec => []SignedWhole
<1>1. IInv => SignedWhole
  BY DEF IInv, SignedInv
<1> QED BY <1>1, Invariance, PTL

(* A call that ends with an error has left the output as it was.           *)
THEOREM ErrorKeepsOutput == Spec => []ErrorLeavesOutput
<1>1. IInv => ErrorLeavesOutput
  BY DEF IInv, OutcomeInv, ErrorLeavesOutput
<1> QED BY <1>1, Invariance, PTL
=============================================================================
