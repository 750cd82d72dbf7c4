---------------------------- MODULE TopicStaking ----------------------------
(***************************************************************************)
(* What registerWithBlockchain (cmd/node/appchain.go) does to the chain,   *)
(* without its queries, its loop, its runs and its crashes: topics are     *)
(* registered one at a time, never again, and a topic's registration opens *)
(* the only time in which it gets stake: some initial stakes, at most      *)
(* Bound of them, before that time is over for good.                       *)
(***************************************************************************)
EXTENDS Integers

CONSTANTS
  Topics,
  Amount,  \* the initial stake
  Bound    \* the largest number of initial stakes of one topic

VARIABLES
  registered,  \* the topics the node is registered in
  staking,     \* the topic that may get stake, as a set of at most one
  stake        \* the stake in each topic

vars == <<registered, staking, stake>>

Init ==
  /\ registered = {}
  /\ staking = {}
  /\ stake = [t \in Topics |-> 0]

Register(t) ==
  /\ t \notin registered
  /\ staking = {}
  /\ registered' = registered \cup {t}
  /\ staking' = {t}
  /\ UNCHANGED stake

AddStake(t) ==
  /\ t \in staking
  /\ stake[t] + Amount <= Bound * Amount
  /\ stake' = [stake EXCEPT ![t] = @ + Amount]
  /\ UNCHANGED <<registered, staking>>

EndStaking ==
  /\ staking' = {}
  /\ UNCHANGED <<registered, stake>>

Next == (\E t \in Topics : Register(t) \/ AddStake(t)) \/ EndStaking

Spec == Init /\ [][Next]_vars
=============================================================================
