------------------------ MODULE SendReputerModeData ------------------------
(***************************************************************************)
(* AppChain.SendReputerModeData and the functions it calls                 *)
(* (cmd/node/appchain.go): the reputer leader turns the aggregated results *)
(* of one execution request into one bulk payload.  It looks up the chain  *)
(* address of each result's first peer, keeps one usable bundle per        *)
(* address, lets the reputers vote on the block heights, weighted by stake *)
(* when the stakes can be read, and hands the payload to a goroutine that  *)
(* runs SendDataWithRetry.                                                 *)
(*                                                                         *)
(* External: the chain's queries, each of which may fail.  The chain's     *)
(* stakes may change between two of them, but no address is asked for      *)
(* twice, so a fixed function chosen in Init covers every such change.     *)
(***************************************************************************)
EXTENDS Integers, Sequences, Functions

CONSTANTS
  Peers,               \* libp2p peer ids
  Addresses,           \* chain addresses
  ReputerAddress,      \* the chain's registry: a peer's reputer address
  Topics,
  Topic,               \* the topic of the request, argument topicId
  Heights,             \* block heights that outputs report
  Inputs,              \* the possible values of the argument results
  Stakes,              \* the possible stakes of a reputer in the topic
  PageLimits,          \* the possible values of the chain's MaxPageLimit
  DefaultPageLimit,    \* DEFAULT_MAX_REPUTERS_FOR_STAKE_QUERY
  MaxStakeQueries      \* MAX_NUMBER_STAKE_QUERIES_PER_REQUEST

(* The standard output of a reputer, as SendReputerModeData reads it: not  *)
(* JSON at all, JSON without a ReputerValueBundle, without a ValueBundle   *)
(* in it (an executor without a chain connection returns the function's    *)
(* own output) or without a ReputerNonce in that, or a whole bundle.  The  *)
(* heights are what a peer wrote: nothing relates the height in the nonce  *)
(* to the one next to the bundle, and either may be -1.                    *)
Outputs ==
  [kind : {"unparsable", "noReputerValueBundle", "noValueBundle", "noReputerNonce",
           "bundle"},
   topic : Topics, current : Heights, eval : Heights, nonce : Heights]

Results == [peers : Seq(Peers), out : Outputs]

ASSUME ReputerAssumption ==
  /\ ReputerAddress \in [Peers -> Addresses]
  /\ Topic \in Topics
  /\ Heights \subseteq Int
  /\ Inputs \subseteq Seq(Results)
  /\ Stakes \subseteq Nat
  /\ PageLimits \subseteq Nat
  /\ DefaultPageLimit \in Nat
  /\ MaxStakeQueries \in Nat

VARIABLES
  results,                \* argument: the aggregated results
  stake,                  \* chain: the stake of each address in the topic
  pc,
  next,                   \* index of the next result
  reputerAddrSet,         \* addresses already seen
  valueBundles,           \* the usable bundles
  reputerAddrs,           \* their reputers, index by index
  blockCurrentToReputer,  \* who reported which current height
  blockEvalToReputer,     \* who reported which eval height
  paramsErr,              \* the error of the query for the chain's parameters
  maxReputers,            \* addresses per stake query
  page,                   \* loop counter of the stake queries
  stakesPerReputer,       \* addresses whose stake has been read
  useWeightedVote,
  vote,                   \* locals of argmaxBlockByStake or ...ByCount
  blockCurrentHeight,
  blockEvalHeight,        \* decided and logged only
  sent                    \* the payloads handed to a sender goroutine

scanned == <<next, reputerAddrSet, valueBundles, reputerAddrs,
             blockCurrentToReputer, blockEvalToReputer>>
stakes  == <<paramsErr, maxReputers, page, stakesPerReputer>>
voting  == <<useWeightedVote, vote, blockCurrentHeight, blockEvalHeight>>
vars    == <<results, stake, pc, scanned, stakes, voting, sent>>

NoVotes == [h \in Heights |-> <<>>]
VoteOver(blocks) ==
  [remaining |-> blocks, firstIter |-> TRUE, blockOfMaxPower |-> -1]

Init ==
  /\ results \in Inputs
  /\ stake \in [Addresses -> Stakes]
  /\ pc = "results"
  /\ next = 1
  /\ reputerAddrSet = {}
  /\ valueBundles = <<>>
  /\ reputerAddrs = <<>>
  /\ blockCurrentToReputer = NoVotes
  /\ blockEvalToReputer = NoVotes
  /\ paramsErr = FALSE
  /\ maxReputers = DefaultPageLimit
  /\ page = 0
  /\ stakesPerReputer = {}
  /\ useWeightedVote = TRUE
  /\ vote = VoteOver({})
  /\ blockCurrentHeight = -1
  /\ blockEvalHeight = -1
  /\ sent = {}

-----------------------------------------------------------------------------
(* The loop over the results.                                              *)

Addr(result) == ReputerAddress[result.peers[1]]

(* A bundle is kept without a look at its nonce.                           *)
UsableForAnyTopic(out) == out.kind \in {"noReputerNonce", "bundle"}
Usable(out) == out.kind \in {"noReputerNonce", "bundle"} /\ out.topic = Topic

AtResult == pc = "results" /\ next <= Len(results)

FreshPeerOnly(result) ==
  /\ result.peers # <<>>
  /\ ~\E i \in 1..(next - 1) :
        results[i].peers # <<>> /\ results[i].peers[1] = result.peers[1]
Fresh(result) == result.peers # <<>> /\ Addr(result) \notin reputerAddrSet

(* No peers in the result, or the chain does not know the first peer's     *)
(* address, or the address has been seen before.                           *)
SkipResult ==
  /\ AtResult
  /\ next' = next + 1
  /\ UNCHANGED <<results, stake, pc, reputerAddrSet, valueBundles, reputerAddrs,
                 blockCurrentToReputer, blockEvalToReputer, stakes, voting, sent>>

(* The address is marked as seen before its output is looked at.           *)
RejectOutput ==
  /\ AtResult
  /\ LET result == results[next] IN
       /\ Fresh(result)
       /\ ~Usable(result.out)
       /\ reputerAddrSet' = reputerAddrSet \cup {Addr(result)}
  /\ next' = next + 1
  /\ UNCHANGED <<results, stake, pc, valueBundles, reputerAddrs,
                 blockCurrentToReputer, blockEvalToReputer, stakes, voting, sent>>

CastVote(tally, height, addr) == [tally EXCEPT ![height] = Append(@, addr)]

AcceptOutput ==
  /\ AtResult
  /\ LET result == results[next]
         out == result.out
     IN /\ Fresh(result)
        /\ Usable(out)
        /\ reputerAddrSet' = reputerAddrSet \cup {Addr(result)}
        /\ valueBundles' = Append(valueBundles, out)
        /\ reputerAddrs' = Append(reputerAddrs, Addr(result))
        /\ blockCurrentToReputer' =
             CastVote(blockCurrentToReputer, out.current, Addr(result))
        /\ blockEvalToReputer' =
             CastVote(blockEvalToReputer, out.eval, Addr(result))
  /\ next' = next + 1
  /\ UNCHANGED <<results, stake, pc, stakes, voting, sent>>

EndOfResults ==
  /\ pc = "results"
  /\ next > Len(results)
  /\ pc' = IF reputerAddrs = <<>> THEN "notSent" ELSE "params"
  /\ UNCHANGED <<results, stake, scanned, stakes, voting, sent>>

-----------------------------------------------------------------------------
(* getStakePerReputer.                                                     *)

QueryParams ==
  /\ pc = "params"
  /\ \/ /\ paramsErr' = TRUE
        /\ UNCHANGED maxReputers
     \/ /\ \E limit \in PageLimits : maxReputers' = limit
        /\ UNCHANGED paramsErr
  /\ pc' = "stakes"
  /\ UNCHANGED <<results, stake, scanned, page, stakesPerReputer, voting, sent>>

Lesser(a, b) == IF a <= b THEN a ELSE b

(* The addresses of one query, reputerAddrs[start:end].  The products fit  *)
(* in uint64 for every page limit a chain can serve.                       *)
PageIndicesShifted(p) ==
  (p * maxReputers + 2)..Lesser((p + 1) * maxReputers, Len(reputerAddrs))
PageIndices(p) ==
  (p * maxReputers + 1)..Lesser((p + 1) * maxReputers, Len(reputerAddrs))

HasPageUnbounded == PageIndices(page) # {}
HasPage == page < MaxStakeQueries /\ PageIndices(page) # {}

QueryStakePage ==
  /\ pc = "stakes"
  /\ HasPage
  /\ stakesPerReputer' =
       stakesPerReputer \cup {reputerAddrs[i] : i \in PageIndices(page)}
  /\ page' = page + 1
  /\ UNCHANGED <<results, stake, pc, scanned, paramsErr, maxReputers, voting,
                 sent>>

(* The map is read over keys that occur: heights somebody reported.        *)
Reported(tally) == {h \in Heights : tally[h] # <<>>}

BeginVote == vote' = VoteOver(Reported(blockCurrentToReputer))

(* A failed query makes the function return an error at once.              *)
StakeQueryFails ==
  /\ pc = "stakes"
  /\ HasPage
  /\ useWeightedVote' = FALSE
  /\ BeginVote
  /\ pc' = "voteCurrent"
  /\ UNCHANGED <<results, stake, scanned, paramsErr, maxReputers, page,
                 stakesPerReputer, blockCurrentHeight, blockEvalHeight, sent>>

(* After the last page the function returns the error of the parameter     *)
(* query, which the errors of the stake queries do not overwrite (they are *)
(* variables of the loop body).                                            *)
EndOfStakePages ==
  /\ pc = "stakes"
  /\ ~HasPage
  /\ useWeightedVote' = ~paramsErr
  /\ BeginVote
  /\ pc' = "voteCurrent"
  /\ UNCHANGED <<results, stake, scanned, stakes, blockCurrentHeight,
                 blockEvalHeight, sent>>

-----------------------------------------------------------------------------
(* argmaxBlockByStake and argmaxBlockByCount: one loop over the keys of a  *)
(* tally, which Go visits in any order.                                    *)

Tally == IF pc = "voteCurrent" THEN blockCurrentToReputer ELSE blockEvalToReputer

VotingPower(voters) ==
  IF useWeightedVote
  THEN SumFunction([i \in DOMAIN voters |-> stake[voters[i]]])
  ELSE Len(voters)

(* highestVotingPower is 0 and is never assigned.                          *)
BecomesFrontRunnerOnTie(voters) == vote.firstIter \/ VotingPower(voters) >= 0
BecomesFrontRunnerByPower(voters) == VotingPower(voters) > 0
BecomesFrontRunner(voters) == vote.firstIter \/ VotingPower(voters) > 0

Voting == pc \in {"voteCurrent", "voteEval"}

(* An address that is no key of the stake map yields a zero math.Int,      *)
(* whose nil big.Int makes Add panic.                                      *)
StakeMissing(voters) ==
  useWeightedVote /\ \E i \in DOMAIN voters : voters[i] \notin stakesPerReputer

VisitBlock ==
  /\ Voting
  /\ \E block \in vote.remaining :
       LET voters == Tally[block] IN
         /\ ~StakeMissing(voters)
         /\ vote' = [remaining |-> vote.remaining \ {block},
                     firstIter |-> FALSE,
                     blockOfMaxPower |->
                       IF BecomesFrontRunner(voters) THEN block
                       ELSE vote.blockOfMaxPower]
  /\ UNCHANGED <<results, stake, pc, scanned, stakes, useWeightedVote,
                 blockCurrentHeight, blockEvalHeight, sent>>

VotePanics ==
  /\ Voting
  /\ \E block \in vote.remaining : StakeMissing(Tally[block])
  /\ pc' = "votePanicked"
  /\ UNCHANGED <<results, stake, scanned, stakes, voting, sent>>

EndCurrentVote ==
  /\ pc = "voteCurrent"
  /\ vote.remaining = {}
  /\ blockCurrentHeight' = vote.blockOfMaxPower
  /\ vote' = VoteOver(Reported(blockEvalToReputer))
  /\ pc' = "voteEval"
  /\ UNCHANGED <<results, stake, scanned, stakes, useWeightedVote,
                 blockEvalHeight, sent>>

EndEvalVote ==
  /\ pc = "voteEval"
  /\ vote.remaining = {}
  /\ blockEvalHeight' = vote.blockOfMaxPower
  /\ pc' = "compose"
  /\ UNCHANGED <<results, stake, scanned, stakes, useWeightedVote, vote,
                 blockCurrentHeight, sent>>

(* The vote decided for -1, which somebody reported.                       *)
GiveUp ==
  /\ pc = "compose"
  /\ blockCurrentHeight = -1
  /\ pc' = "notSent"
  /\ UNCHANGED <<results, stake, scanned, stakes, voting, sent>>

(* The filter compares the height in the nonce of every bundle, and        *)
(* dereferences a nil pointer at a bundle that has none.                   *)
HasNonce(out) == out.kind = "bundle"
FilterPasses == \A k \in DOMAIN valueBundles : HasNonce(valueBundles[k])

FilterPanics ==
  /\ pc = "compose"
  /\ blockCurrentHeight # -1
  /\ ~FilterPasses
  /\ pc' = "filterPanicked"
  /\ UNCHANGED <<results, stake, scanned, stakes, voting, sent>>

(* The filtered list of bundles is computed and not used.                  *)
Compose ==
  /\ pc = "compose"
  /\ blockCurrentHeight # -1
  /\ FilterPasses
  /\ pc' = "sent"
  /\ sent' = sent \cup {[nonce |-> blockCurrentHeight, topic |-> Topic,
                         bundles |-> valueBundles]}
  /\ UNCHANGED <<results, stake, scanned, stakes, voting>>

Step == \/ SkipResult \/ RejectOutput \/ AcceptOutput \/ EndOfResults
        \/ QueryParams \/ QueryStakePage \/ StakeQueryFails \/ EndOfStakePages
        \/ VisitBlock \/ VotePanics \/ EndCurrentVote \/ EndEvalVote
        \/ GiveUp \/ FilterPanics \/ Compose

Ends == {"sent", "notSent", "votePanicked", "filterPanicked"}
Ended == pc \in Ends
Terminated == Ended /\ UNCHANGED vars

Next == Step \/ Terminated

Spec == Init /\ [][Next]_vars

-----------------------------------------------------------------------------
Blocks == Heights \cup {-1}

TypeOK ==
  /\ results \in Seq(Results)
  /\ stake \in [Addresses -> Stakes]
  /\ pc \in {"results", "params", "stakes", "voteCurrent", "voteEval", "compose"} \cup Ends
  /\ next \in 1..(Len(results) + 1)
  /\ reputerAddrSet \subseteq Addresses
  /\ valueBundles \in Seq(Outputs)
  /\ reputerAddrs \in Seq(Addresses)
  /\ blockCurrentToReputer \in [Heights -> Seq(Addresses)]
  /\ blockEvalToReputer \in [Heights -> Seq(Addresses)]
  /\ paramsErr \in BOOLEAN
  /\ maxReputers \in Nat
  /\ page \in 0..MaxStakeQueries
  /\ stakesPerReputer \subseteq Addresses
  /\ useWeightedVote \in BOOLEAN
  /\ vote \in [remaining : SUBSET Heights, firstIter : BOOLEAN, blockOfMaxPower : Blocks]
  /\ blockCurrentHeight \in Blocks
  /\ blockEvalHeight \in Blocks
  /\ \A req \in sent :
       req \in [nonce : Heights \ {-1}, topic : {Topic}, bundles : Seq(Outputs)]

(* Where an address stands in a tally.                                     *)
Ballots(tally, addr) ==
  {b \in Heights \X (1..Len(reputerAddrs)) :
     b[2] \in DOMAIN tally[b[1]] /\ tally[b[1]][b[2]] = addr}

CountedOnce(tally, addr) ==
  /\ Ballots(tally, addr) # {}
  /\ \A b, c \in Ballots(tally, addr) : b = c

(* Every reputer whose bundle was kept votes exactly once on the current   *)
(* and exactly once on the eval height, whatever peers it runs and however *)
(* often it occurs in the results; nobody else votes.  The code says the   *)
(* set of addresses is there for this (appchain.go:534).                   *)
OneVotePerReputer ==
  \A addr \in Addresses : \A tally \in {blockCurrentToReputer, blockEvalToReputer} :
    IF \E k \in DOMAIN reputerAddrs : reputerAddrs[k] = addr
    THEN CountedOnce(tally, addr)
    ELSE Ballots(tally, addr) = {}

(* The two lists built side by side stay aligned: bundle k is the output   *)
(* of a result whose first peer the chain knows as reputer k, no reputer   *)
(* occurs twice, and each bundle is for the requested topic.               *)
BundlesAttributed ==
  /\ Len(valueBundles) = Len(reputerAddrs)
  /\ \A k \in DOMAIN valueBundles :
       /\ valueBundles[k].topic = Topic
       /\ \E i \in 1..(next - 1) :
            /\ results[i].peers # <<>>
            /\ results[i].out = valueBundles[k]
            /\ Addr(results[i]) = reputerAddrs[k]
       /\ \A j \in DOMAIN reputerAddrs : reputerAddrs[j] = reputerAddrs[k] => j = k

(* The nonce of a payload is the height of at least one bundle in it: the  *)
(* vote over the maps' keys never invents a height.                        *)
SentHeightWasReported ==
  \A req \in sent : \E k \in DOMAIN req.bundles : req.bundles[k].current = req.nonce

Powered(voters) == VotingPower(voters) > 0

(* A height was decided, and what follows goes by it.                      *)
Decided == pc \in {"voteEval", "compose", "filterPanicked", "sent"}

(* In a vote weighted by stake a height that only reputers without stake   *)
(* reported never wins against one that a reputer with stake reported,     *)
(* whatever the order of the map's keys: registering reputers without      *)
(* staking cannot move the nonce.                                          *)
PoweredHeightWins ==
  (/\ Decided
   /\ \E h \in Reported(blockCurrentToReputer) : Powered(blockCurrentToReputer[h]))
  => Powered(blockCurrentToReputer[blockCurrentHeight])

(* The vote panics (a nil big.Int in math.Int.Add) only if more reputers   *)
(* answered than MaxStakeQueries pages hold, and then before a height    *)
(* other than -1 has been decided: with fewer reputers the pages cover     *)
(* every voter without a gap, and the second vote meets the addresses of   *)
(* the first.                                                              *)
BeyondCapacity == Len(reputerAddrs) > MaxStakeQueries * maxReputers

VotePanicsOnlyBeyondCapacity ==
  pc = "votePanicked" => BeyondCapacity /\ useWeightedVote /\ blockCurrentHeight = -1

(* The converse: a height is decided by stake only when every query of the *)
(* chain succeeded, the one for its parameters too, and there are no more  *)
(* reputers than the pages hold.                                           *)
StakeDecidesOnlyWithinCapacity ==
  Decided /\ useWeightedVote => ~paramsErr /\ ~BeyondCapacity

(* What panics once a height is decided is the filter, for a bundle        *)
(* without a nonce, and such a bundle keeps those of all other reputers    *)
(* from being sent.                                                        *)
FilterPanicsExactlyWithoutNonce ==
  /\ pc = "filterPanicked" => \E k \in DOMAIN valueBundles : ~HasNonce(valueBundles[k])
  /\ \A req \in sent : \A k \in DOMAIN req.bundles : HasNonce(req.bundles[k])

(* What can end the process in this handler, and what cannot.  The         *)
(* capacity of the stake queries is exactly the number of reputers up to   *)
(* which a vote weighted by stake works: below it never panics, beyond it  *)
(* never comes to a decision, whatever the order of the map's keys.  After *)
(* a decision only a kept bundle without a nonce makes it panic.           *)
PanicCauses ==
  /\ VotePanicsOnlyBeyondCapacity
  /\ StakeDecidesOnlyWithinCapacity
  /\ FilterPanicsExactlyWithoutNonce

(* The handler gives up only when no bundle was usable, or when somebody   *)
(* reported the height -1 and it won the vote: no failed query of the      *)
(* chain suppresses the payload, and the vote itself never loses a height. *)
GivesUpOnlyWithoutHeight ==
  pc = "notSent" =>
    \/ valueBundles = <<>>
    \/ \E k \in DOMAIN valueBundles : valueBundles[k].current = -1

(* The handler implements the submission a leader promises: whichever      *)
(* queries fail, whatever the page limit and the order of the keys, it     *)
(* ends once, with one payload of all usable bundles under a height that   *)
(* one of them reports, with a panic, or, if no bundle was usable or one   *)
(* of them reported -1, without a payload.                                 *)
UsableOutputs == {out \in Outputs : Usable(out)}

Submission ==
  INSTANCE LeaderSubmission WITH
    Bundles <- UsableOutputs,
    NoHeight <- {-1},
    MayPanic <- TRUE,
    heard <- {valueBundles[k].current : k \in DOMAIN valueBundles},
    bundles <- valueBundles,
    outcome <- CASE pc = "sent" -> "sent"
                 [] pc = "notSent" -> "silent"
                 [] pc \in {"votePanicked", "filterPanicked"} -> "panicked"
                 [] OTHER -> "open"

ImplementsSubmission == Submission!Spec

-----------------------------------------------------------------------------
(* What comments of the source say and the code does not do.               *)

(* appchain.go:461: "Find the current block height with the highest voting *)
(* power".                                                                 *)
VotedHeightHasHighestPower ==
  Decided =>
    \A h \in Reported(blockCurrentToReputer) :
      VotingPower(blockCurrentToReputer[h])
        <= VotingPower(blockCurrentToReputer[blockCurrentHeight])

(* appchain.go:609: "Remove those bundles that do not come from the        *)
(* current block height".                                                  *)
SentBundlesMatchNonce ==
  \A req \in sent : \A k \in DOMAIN req.bundles : req.bundles[k].nonce = req.nonce

(* How far that reaches: it takes reputers who disagree, with each other   *)
(* or, in one bundle, with themselves.  A payload whose bundles are all of *)
(* one height, within the bundle and next to it, has it for its nonce.     *)
UnanimousBundlesMatchNonce ==
  \A req \in sent :
    (\A j, k \in DOMAIN req.bundles : req.bundles[j].nonce = req.bundles[k].current)
      => \A k \in DOMAIN req.bundles : req.bundles[k].nonce = req.nonce
=============================================================================
