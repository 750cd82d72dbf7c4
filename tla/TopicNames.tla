----------------------------- MODULE TopicNames -----------------------------
(***************************************************************************)
(* The names of a topic between a client and the chain.  The client names  *)
(* a topic to the head's API; createExecutor (cmd/node/execute.go) passes  *)
(* that name on to the functions as TOPIC_ID, and hands the request to the *)
(* nodes of a b7s channel whose name it makes of it (buildb7sTopic).       *)
(* ExecuteFunction (cmd/node/main.go) reads the number in TOPIC_ID and     *)
(* signs for it; the leader (sendResultsToChain) cuts the number out of    *)
(* the channel's name and submits for it.  Each of the three cuts the name *)
(* in a way of its own.                                                    *)
(***************************************************************************)
EXTENDS Integers

CONSTANTS
  Topics,    \* topic ids
  NoNumber   \* what is left where no number is left

ASSUME TopicNamesAssumption == Topics \subseteq Nat /\ NoNumber \notin Int

(* What a client may write, for topic 12:                                  *)
(*   number  12            slash   12/reputer      dash   12-reputer       *)
(*   glued   12reputer     inside  reputer/12      bare   reputer          *)
(*   word    any other text without "reputer" that is no number            *)
Forms == {"number", "slash", "dash", "glued", "inside", "bare", "word"}
Names == [form : Forms, number : Topics]

ContainsReputer(name) == name.form \notin {"number", "word"}

(* A name that contains "reputer" loses its last eight characters,         *)
(* wherever that is: a separator of any kind with it, or else a digit.     *)
CutSeven(name) ==
  IF name.form = "glued" THEN name.number ELSE NoNumber
CutEight(name) ==
  CASE name.form \in {"slash", "dash"} -> name.number
    [] name.form = "glued" /\ name.number >= 10 -> name.number \div 10
    [] OTHER -> NoNumber

(* "reputer" alone has seven characters: cutting eight panics, in the      *)
(* handler of the head, which ends the request and not the head.           *)
BuildPanics(name) == name.form = "bare"

buildb7sTopic(name) ==
  IF ContainsReputer(name)
  THEN [number |-> CutEight(name), mode |-> "reputer"]
  ELSE [number |-> IF name.form = "number" THEN name.number ELSE NoNumber,
        mode |-> "worker"]

Channels == [number : Nat \cup {NoNumber}, mode : {"worker", "reputer"}]

(* The number in TOPIC_ID: all of it, or what is before "/reputer".        *)
TopicId(name) ==
  IF name.form \in {"number", "slash"} THEN name.number ELSE NoNumber

(* The leader cuts off the prefix, and as many characters as the mode in   *)
(* the channel's name has: what buildb7sTopic put around the number.       *)
NumTopicId(channel) == channel.number
=============================================================================
