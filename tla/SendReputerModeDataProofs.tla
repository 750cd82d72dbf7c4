--------------------- MODULE SendReputerModeDataProofs ---------------------
(* Proofs about SendReputerModeData for every registry of peers, every set *)
(* of results, stakes and heights, every page limit and number of queries. *)
EXTENDS SendReputerModeData, TLAPS

-----------------------------------------------------------------------------
(* The inductive invariant, part by part.                                  *)

(* Each kept bundle belongs to the reputer at its index, and is for the    *)
(* requested topic.                                                        *)
BundleInv ==
  /\ Len(valueBundles) = Len(reputerAddrs)
  /\ \A k \in DOMAIN valueBundles : valueBundles[k].topic = Topic

(* Everybody in a tally is in the list of reputers, under a bundle that    *)
(* reports that height, and the current tally misses nobody.               *)
TallyInv ==
  /\ \A h \in Heights : \A i \in DOMAIN blockCurrentToReputer[h] :
       \E k \in DOMAIN valueBundles :
         /\ valueBundles[k].current = h
         /\ reputerAddrs[k] = blockCurrentToReputer[h][i]
  /\ \A h \in Heights : \A i \in DOMAIN blockEvalToReputer[h] :
       \E k \in DOMAIN valueBundles :
         reputerAddrs[k] = blockEvalToReputer[h][i]
  /\ \A k \in DOMAIN valueBundles :
       \E i \in DOMAIN blockCurrentToReputer[valueBundles[k].current] :
         blockCurrentToReputer[valueBundles[k].current][i] = reputerAddrs[k]

(* The stakes read so far are those of a prefix of the list of reputers.   *)
PageInv ==
  /\ pc \in {"results", "params"} => page = 0
  /\ \A k \in DOMAIN reputerAddrs :
       k <= page * maxReputers => reputerAddrs[k] \in stakesPerReputer
  /\ pc \in {"voteCurrent", "voteEval", "votePanicked"} /\ useWeightedVote => ~HasPage

(* What the loop over the keys of a tally has established: the front       *)
(* runner is a visited key, and has power if a visited key has.            *)
Visited == Reported(Tally) \ vote.remaining

VoteInv ==
  Voting =>
    /\ vote.remaining \subseteq Reported(Tally)
    /\ vote.firstIter <=> Visited = {}
    /\ Visited # {} => vote.blockOfMaxPower \in Visited
    /\ (\E h \in Visited : Powered(Tally[h])) => Powered(Tally[vote.blockOfMaxPower])
    /\ \A h \in Visited : ~StakeMissing(Tally[h])

(* The decided height.                                                     *)
DecidedInv ==
  /\ pc \notin {"results", "notSent"} => valueBundles # <<>>
  /\ pc \in {"results", "params", "stakes", "voteCurrent", "votePanicked"} =>
       blockCurrentHeight = -1
  /\ Decided =>
       /\ blockCurrentHeight \in Reported(blockCurrentToReputer)
       /\ \A h \in Reported(blockCurrentToReputer) : ~StakeMissing(blockCurrentToReputer[h])
  /\ GivesUpOnlyWithoutHeight
  /\ PoweredHeightWins
  /\ VotePanicsOnlyBeyondCapacity

SentInv ==
  /\ pc # "sent" => sent = {}
  /\ SentHeightWasReported
  /\ FilterPanicsExactlyWithoutNonce

IInv == TypeOK /\ BundleInv /\ TallyInv /\ PageInv /\ VoteInv /\ DecidedInv /\ SentInv

-----------------------------------------------------------------------------
(* Type correctness.                                                       *)

LEMMA ResultsTyped ==
  ASSUME results \in Seq(Results)
  PROVE  /\ Len(results) \in Nat
         /\ \A i \in 1..Len(results) :
              /\ results[i].out \in Outputs
              /\ results[i].peers # <<>> => Addr(results[i]) \in Addresses
<1>1. Len(results) \in Nat
  OBVIOUS
<1>2. ASSUME NEW i \in 1..Len(results)
      PROVE  /\ results[i].out \in Outputs
             /\ results[i].peers # <<>> => Addr(results[i]) \in Addresses
  <2>1. results[i] \in Results
    OBVIOUS
  <2>2. results[i].out \in Outputs /\ results[i].peers \in Seq(Peers)
    BY <2>1 DEF Results
  <2>3. results[i].peers # <<>> => results[i].peers[1] \in Peers
    BY <2>2
  <2> QED BY <2>2, <2>3, ReputerAssumption DEF Addr
<1> QED BY <1>1, <1>2

LEMMA OutputTyped ==
  ASSUME NEW out \in Outputs
  PROVE  /\ out.topic \in Topics
         /\ out.current \in Heights
         /\ out.eval \in Heights
  BY DEF Outputs

LEMMA CastVoteTyped ==
  ASSUME NEW tally \in [Heights -> Seq(Addresses)],
         NEW height \in Heights, NEW addr \in Addresses
  PROVE  CastVote(tally, height, addr) \in [Heights -> Seq(Addresses)]
  BY DEF CastVote

LEMMA InitTypeOK == Init => TypeOK
<1> SUFFICES ASSUME Init PROVE TypeOK
  OBVIOUS
<1>1. valueBundles \in Seq(Outputs) /\ reputerAddrs \in Seq(Addresses)
  BY DEF Init
<1>2. /\ blockCurrentToReputer \in [Heights -> Seq(Addresses)]
      /\ blockEvalToReputer \in [Heights -> Seq(Addresses)]
  BY DEF Init, NoVotes
<1>3. next \in 1..(Len(results) + 1)
  BY ResultsTyped, ReputerAssumption DEF Init
<1>4. vote \in [remaining : SUBSET Heights, firstIter : BOOLEAN, blockOfMaxPower : Blocks]
  BY DEF Init, VoteOver, Blocks
<1>5. maxReputers \in Nat /\ page \in 0..MaxStakeQueries
  BY ReputerAssumption DEF Init
<1>6. blockCurrentHeight \in Blocks /\ blockEvalHeight \in Blocks
  BY DEF Init, Blocks
<1>7. stake \in [Addresses -> Stakes] /\ results \in Seq(Results)
  BY ReputerAssumption DEF Init
<1> HIDE DEF Blocks
<1> QED BY <1>1, <1>2, <1>3, <1>4, <1>5, <1>6, <1>7 DEF Init, TypeOK

LEMMA AcceptOutputTypeOK == TypeOK /\ AcceptOutput => TypeOK'
<1> SUFFICES ASSUME TypeOK, AcceptOutput PROVE TypeOK'
  OBVIOUS
<1> DEFINE out == results[next].out
           addr == Addr(results[next])
<1>1. /\ results \in Seq(Results)
      /\ next \in 1..Len(results)
  BY ResultsTyped DEF TypeOK, AcceptOutput, AtResult
<1>2. out \in Outputs /\ addr \in Addresses
  BY <1>1, ResultsTyped DEF AcceptOutput, Fresh
<1>3. /\ valueBundles' = Append(valueBundles, out)
      /\ reputerAddrs' = Append(reputerAddrs, addr)
      /\ blockCurrentToReputer' = CastVote(blockCurrentToReputer, out.current, addr)
      /\ blockEvalToReputer' = CastVote(blockEvalToReputer, out.eval, addr)
      /\ reputerAddrSet' = reputerAddrSet \cup {addr}
      /\ next' = next + 1
      /\ UNCHANGED <<results, stake, pc, stakes, voting, sent>>
  BY DEF AcceptOutput
<1> HIDE DEF out, addr
<1>4. valueBundles' \in Seq(Outputs) /\ reputerAddrs' \in Seq(Addresses)
  BY <1>2, <1>3 DEF TypeOK
<1>5. /\ blockCurrentToReputer' \in [Heights -> Seq(Addresses)]
      /\ blockEvalToReputer' \in [Heights -> Seq(Addresses)]
  BY <1>2, <1>3, OutputTyped, CastVoteTyped DEF TypeOK
<1>6. next' \in 1..(Len(results') + 1)
  BY <1>1, <1>3, ResultsTyped
<1>7. reputerAddrSet' \subseteq Addresses
  BY <1>2, <1>3 DEF TypeOK
<1> QED BY <1>3, <1>4, <1>5, <1>6, <1>7 DEF TypeOK, stakes, voting

LEMMA ScanTypeOK == TypeOK /\ (SkipResult \/ RejectOutput \/ EndOfResults) => TypeOK'
<1> SUFFICES ASSUME TypeOK, SkipResult \/ RejectOutput \/ EndOfResults PROVE TypeOK'
  OBVIOUS
<1>1. results \in Seq(Results) /\ Len(results) \in Nat
  BY ResultsTyped DEF TypeOK
<1>2. CASE SkipResult
  BY <1>1, <1>2 DEF TypeOK, SkipResult, AtResult, stakes, voting
<1>3. CASE RejectOutput
  <2>1. Addr(results[next]) \in Addresses
    BY <1>1, <1>3, ResultsTyped DEF TypeOK, RejectOutput, AtResult, Fresh
  <2>2. /\ reputerAddrSet' \subseteq Addresses
        /\ next' \in 1..(Len(results) + 1)
    BY <1>1, <1>3, <2>1 DEF TypeOK, RejectOutput, AtResult
  <2> QED BY <1>3, <2>2 DEF TypeOK, RejectOutput, stakes, voting
<1>4. CASE EndOfResults
  BY <1>4 DEF TypeOK, EndOfResults, scanned, stakes, voting, Ends
<1> QED BY <1>2, <1>3, <1>4

(* A slice that ends at the list's length at the latest lies in the list.   *)
LEMMA WithinList ==
  ASSUME NEW from \in Nat, NEW to \in Nat, NEW n \in Nat,
         NEW i \in (from + 1)..Lesser(to, n)
  PROVE  i \in 1..n
BY DEF Lesser

LEMMA QueryTypeOK ==
  TypeOK /\ (QueryParams \/ QueryStakePage \/ StakeQueryFails \/ EndOfStakePages) => TypeOK'
<1> SUFFICES ASSUME TypeOK,
                    QueryParams \/ QueryStakePage \/ StakeQueryFails \/ EndOfStakePages
             PROVE  TypeOK'
  OBVIOUS
<1> USE DEF TypeOK, scanned, voting
<1>1. CASE QueryParams
  BY <1>1, ReputerAssumption DEF QueryParams
<1>2. CASE QueryStakePage
  <2>1. \A i \in PageIndices(page) : reputerAddrs[i] \in Addresses
    <3>1. ASSUME NEW i \in PageIndices(page) PROVE i \in 1..Len(reputerAddrs)
      <4>1. page * maxReputers \in Nat /\ (page + 1) * maxReputers \in Nat
        BY ReputerAssumption
      <4>2. Len(reputerAddrs) \in Nat
        OBVIOUS
      <4> QED BY <3>1, <4>1, <4>2, WithinList DEF PageIndices
    <3> QED BY <3>1
  <2>2. page' \in 0..MaxStakeQueries
    BY <1>2, ReputerAssumption DEF QueryStakePage, HasPage
  <2>3. stakesPerReputer' \subseteq Addresses
    BY <1>2, <2>1 DEF QueryStakePage
  <2> QED BY <1>2, <2>2, <2>3 DEF QueryStakePage
<1>3. vote' = VoteOver(Reported(blockCurrentToReputer)) =>
        vote' \in [remaining : SUBSET Heights, firstIter : BOOLEAN, blockOfMaxPower : Blocks]
  BY DEF VoteOver, Reported, Blocks
<1>4. CASE StakeQueryFails
  BY <1>3, <1>4 DEF StakeQueryFails, BeginVote
<1>5. CASE EndOfStakePages
  BY <1>3, <1>5 DEF EndOfStakePages, BeginVote, stakes
<1> QED BY <1>1, <1>2, <1>4, <1>5

LEMMA VoteTypeOK ==
  TypeOK /\ (VisitBlock \/ VotePanics \/ EndCurrentVote \/ EndEvalVote) => TypeOK'
<1> SUFFICES ASSUME TypeOK, VisitBlock \/ VotePanics \/ EndCurrentVote \/ EndEvalVote
             PROVE  TypeOK'
  OBVIOUS
<1> USE DEF TypeOK, scanned, stakes
<1>1. CASE VisitBlock
  <2>1. PICK block \in vote.remaining :
          vote' = [remaining |-> vote.remaining \ {block},
                   firstIter |-> FALSE,
                   blockOfMaxPower |->
                     IF BecomesFrontRunner(Tally[block]) THEN block
                     ELSE vote.blockOfMaxPower]
    BY <1>1 DEF VisitBlock
  <2>2. block \in Blocks /\ vote.blockOfMaxPower \in Blocks
    BY DEF Blocks
  <2>3. vote' \in [remaining : SUBSET Heights, firstIter : BOOLEAN, blockOfMaxPower : Blocks]
    BY <2>1, <2>2
  <2> QED BY <1>1, <2>3 DEF VisitBlock
<1>2. CASE VotePanics
  BY <1>2 DEF VotePanics, voting, Ends
<1>3. CASE EndCurrentVote
  <2>1. VoteOver(Reported(blockEvalToReputer))
          \in [remaining : SUBSET Heights, firstIter : BOOLEAN, blockOfMaxPower : Blocks]
    BY DEF VoteOver, Reported, Blocks
  <2> QED BY <1>3, <2>1 DEF EndCurrentVote
<1>4. CASE EndEvalVote
  BY <1>4 DEF EndEvalVote
<1> QED BY <1>1, <1>2, <1>3, <1>4

LEMMA ComposeTypeOK == TypeOK /\ (GiveUp \/ FilterPanics \/ Compose) => TypeOK'
<1> SUFFICES ASSUME TypeOK, GiveUp \/ FilterPanics \/ Compose PROVE TypeOK'
  OBVIOUS
<1>1. CASE GiveUp \/ FilterPanics
  BY <1>1 DEF TypeOK, GiveUp, FilterPanics, scanned, stakes, voting, Ends
<1>2. CASE Compose
  <2>1. [nonce |-> blockCurrentHeight, topic |-> Topic, bundles |-> valueBundles]
          \in [nonce : Heights \ {-1}, topic : {Topic}, bundles : Seq(Outputs)]
    BY <1>2 DEF Compose, TypeOK, Blocks
  <2> QED BY <1>2, <2>1 DEF TypeOK, Compose, scanned, stakes, voting, Ends
<1> QED BY <1>1, <1>2

LEMMA NextTypeOK == TypeOK /\ [Next]_vars => TypeOK'
<1> SUFFICES ASSUME TypeOK, [Next]_vars PROVE TypeOK'
  OBVIOUS
<1>1. CASE UNCHANGED vars
  BY <1>1 DEF TypeOK, vars, scanned, stakes, voting
<1>2. CASE Step
  BY <1>2, AcceptOutputTypeOK, ScanTypeOK, QueryTypeOK, VoteTypeOK, ComposeTypeOK
    DEF Step
<1> QED BY <1>1, <1>2 DEF Next, Terminated

(* Every variable stays in its type, in particular the height that is sent *)
(* is one of the reported heights' type and never -1.                      *)
THEOREM TypeCorrect == Spec => []TypeOK
  BY InitTypeOK, NextTypeOK, PTL DEF Spec

-----------------------------------------------------------------------------
(* The bundles and the tallies.  Only AcceptOutput writes them.            *)

LEMMA ScanUnchanged ==
  ASSUME Step, ~AcceptOutput
  PROVE  UNCHANGED <<valueBundles, reputerAddrs, blockCurrentToReputer, blockEvalToReputer>>
  BY DEF Step, SkipResult, RejectOutput, EndOfResults, QueryParams, QueryStakePage,
         StakeQueryFails, EndOfStakePages, VisitBlock, VotePanics, EndCurrentVote,
         EndEvalVote, GiveUp, FilterPanics, Compose, scanned

LEMMA AcceptOutputBundles ==
  ASSUME TypeOK, BundleInv, TallyInv, AcceptOutput
  PROVE  BundleInv' /\ TallyInv'
<1> DEFINE out == results[next].out
           addr == Addr(results[next])
           n == Len(valueBundles) + 1
<1>1. out \in Outputs /\ addr \in Addresses /\ out.topic = Topic
  BY ResultsTyped DEF TypeOK, AcceptOutput, AtResult, Fresh, Usable
<1>2. /\ valueBundles' = Append(valueBundles, out)
      /\ reputerAddrs' = Append(reputerAddrs, addr)
      /\ blockCurrentToReputer' = CastVote(blockCurrentToReputer, out.current, addr)
      /\ blockEvalToReputer' = CastVote(blockEvalToReputer, out.eval, addr)
  BY DEF AcceptOutput
<1> HIDE DEF out, addr
<1>3. /\ valueBundles \in Seq(Outputs)
      /\ reputerAddrs \in Seq(Addresses)
      /\ Len(valueBundles) = Len(reputerAddrs)
  BY DEF TypeOK, BundleInv
<1>4. /\ DOMAIN valueBundles' = 1..n
      /\ DOMAIN valueBundles = 1..(n - 1)
      /\ n \in Nat \ {0}
      /\ valueBundles'[n] = out
      /\ reputerAddrs'[n] = addr
      /\ \A k \in 1..(n - 1) :
           valueBundles'[k] = valueBundles[k] /\ reputerAddrs'[k] = reputerAddrs[k]
  BY <1>1, <1>2, <1>3
<1>5. BundleInv'
  <2>1. Len(valueBundles') = Len(reputerAddrs')
    BY <1>1, <1>2, <1>3
  <2>2. \A k \in DOMAIN valueBundles' : valueBundles'[k].topic = Topic
    BY <1>1, <1>4 DEF BundleInv
  <2> QED BY <2>1, <2>2 DEF BundleInv
<1>6. ASSUME NEW tally \in [Heights -> Seq(Addresses)], NEW height \in Heights,
             NEW h \in Heights, NEW i \in DOMAIN CastVote(tally, height, addr)[h]
      PROVE  \/ /\ i \in DOMAIN tally[h]
                /\ CastVote(tally, height, addr)[h][i] = tally[h][i]
             \/ /\ h = height
                /\ CastVote(tally, height, addr)[h][i] = addr
  <2>1. tally[h] \in Seq(Addresses)
    OBVIOUS
  <2>2. CASE h # height
    BY <2>2, <1>6 DEF CastVote
  <2>3. CASE h = height
    <3>1. CastVote(tally, height, addr)[h] = Append(tally[h], addr)
      BY <2>3 DEF CastVote
    <3>2. i \in 1..(Len(tally[h]) + 1)
      BY <3>1, <2>1, <1>1, <1>6
    <3> QED BY <3>1, <3>2, <2>1, <2>3, <1>1
  <2> QED BY <2>2, <2>3
<1>7. out.current \in Heights /\ out.eval \in Heights
  BY <1>1, OutputTyped
<1>8. ASSUME NEW h \in Heights, NEW i \in DOMAIN blockCurrentToReputer'[h]
      PROVE  \E k \in DOMAIN valueBundles' :
               /\ valueBundles'[k].current = h
               /\ reputerAddrs'[k] = blockCurrentToReputer'[h][i]
  <2>1. CASE i \in DOMAIN blockCurrentToReputer[h]
             /\ blockCurrentToReputer'[h][i] = blockCurrentToReputer[h][i]
    <3>1. PICK k \in DOMAIN valueBundles :
            /\ valueBundles[k].current = h
            /\ reputerAddrs[k] = blockCurrentToReputer[h][i]
      BY <2>1 DEF TallyInv
    <3>2. k \in 1..n /\ k \in 1..(n - 1)
      BY <1>4
    <3> QED BY <2>1, <3>1, <3>2, <1>4
  <2>2. CASE h = out.current /\ blockCurrentToReputer'[h][i] = addr
    <3>1. n \in DOMAIN valueBundles'
      BY <1>4
    <3> QED BY <3>1, <2>2, <1>4
  <2>3. blockCurrentToReputer \in [Heights -> Seq(Addresses)] /\ i \in DOMAIN CastVote(blockCurrentToReputer, out.current, addr)[h]
    BY <1>2 DEF TypeOK
  <2>4. \/ /\ i \in DOMAIN blockCurrentToReputer[h]
           /\ blockCurrentToReputer'[h][i] = blockCurrentToReputer[h][i]
        \/ /\ h = out.current
           /\ blockCurrentToReputer'[h][i] = addr
    <3>1. \/ /\ i \in DOMAIN blockCurrentToReputer[h]
             /\ CastVote(blockCurrentToReputer, out.current, addr)[h][i] = blockCurrentToReputer[h][i]
          \/ /\ h = out.current
             /\ CastVote(blockCurrentToReputer, out.current, addr)[h][i] = addr
      BY <2>3, <1>6, <1>7, SMTT(30)
    <3> QED BY <3>1, <1>2
  <2> QED BY <2>1, <2>2, <2>4
<1>9. ASSUME NEW h \in Heights, NEW i \in DOMAIN blockEvalToReputer'[h]
      PROVE  \E k \in DOMAIN valueBundles' : reputerAddrs'[k] = blockEvalToReputer'[h][i]
  <2>1. CASE i \in DOMAIN blockEvalToReputer[h]
             /\ blockEvalToReputer'[h][i] = blockEvalToReputer[h][i]
    <3>1. PICK k \in DOMAIN valueBundles : reputerAddrs[k] = blockEvalToReputer[h][i]
      BY <2>1 DEF TallyInv
    <3>2. k \in 1..n /\ k \in 1..(n - 1)
      BY <1>4
    <3> QED BY <2>1, <3>1, <3>2, <1>4
  <2>2. CASE blockEvalToReputer'[h][i] = addr
    <3>1. n \in DOMAIN valueBundles'
      BY <1>4
    <3> QED BY <3>1, <2>2, <1>4
  <2>3. blockEvalToReputer \in [Heights -> Seq(Addresses)] /\ i \in DOMAIN CastVote(blockEvalToReputer, out.eval, addr)[h]
    BY <1>2 DEF TypeOK
  <2>4. \/ /\ i \in DOMAIN blockEvalToReputer[h]
           /\ blockEvalToReputer'[h][i] = blockEvalToReputer[h][i]
        \/ /\ h = out.eval
           /\ blockEvalToReputer'[h][i] = addr
    <3>1. \/ /\ i \in DOMAIN blockEvalToReputer[h]
             /\ CastVote(blockEvalToReputer, out.eval, addr)[h][i] = blockEvalToReputer[h][i]
          \/ /\ h = out.eval
             /\ CastVote(blockEvalToReputer, out.eval, addr)[h][i] = addr
      BY <2>3, <1>6, <1>7, SMTT(30)
    <3> QED BY <3>1, <1>2
  <2> QED BY <2>1, <2>2, <2>4
<1>10. ASSUME NEW k \in DOMAIN valueBundles'
       PROVE  \E i \in DOMAIN blockCurrentToReputer'[valueBundles'[k].current] :
                blockCurrentToReputer'[valueBundles'[k].current][i] = reputerAddrs'[k]
  <2> DEFINE tally == blockCurrentToReputer
  <2>1. tally \in [Heights -> Seq(Addresses)]
    BY DEF TypeOK
  <2>2. tally' = [tally EXCEPT ![out.current] = Append(@, addr)]
    BY <1>2 DEF CastVote
  <2>3. CASE k = n
    <3>1. tally'[out.current] = Append(tally[out.current], addr)
      BY <2>1, <2>2, <1>7
    <3>2. tally[out.current] \in Seq(Addresses)
      BY <2>1, <1>7
    <3>3. /\ Len(tally[out.current]) + 1 \in DOMAIN tally'[out.current]
          /\ tally'[out.current][Len(tally[out.current]) + 1] = addr
      BY <3>1, <3>2, <1>1
    <3> QED BY <3>3, <2>3, <1>4
  <2>4. CASE k \in 1..(n - 1)
    <3> DEFINE h == valueBundles[k].current
    <3>1. h \in Heights
      BY <2>4, <1>3, <1>4, OutputTyped
    <3>2. PICK i \in DOMAIN tally[h] : tally[h][i] = reputerAddrs[k]
      BY <2>4, <1>4 DEF TallyInv
    <3>3. tally[h] \in Seq(Addresses)
      BY <3>1, <2>1
    <3>4. tally'[h] = tally[h] \/ tally'[h] = Append(tally[h], addr)
      BY <2>1, <2>2, <3>1
    <3>5. i \in DOMAIN tally'[h] /\ tally'[h][i] = tally[h][i]
      BY <3>2, <3>3, <3>4, <1>1
    <3> QED BY <3>2, <3>5, <2>4, <1>4
  <2> QED BY <2>3, <2>4, <1>4
<1> QED BY <1>5, <1>8, <1>9, <1>10 DEF TallyInv

LEMMA BundlesPreserved ==
  ASSUME TypeOK, BundleInv, TallyInv, Step
  PROVE  BundleInv' /\ TallyInv'
<1>1. CASE AcceptOutput
  BY <1>1, AcceptOutputBundles
<1>2. CASE ~AcceptOutput
  BY <1>2, ScanUnchanged DEF BundleInv, TallyInv
<1> QED BY <1>1, <1>2

-----------------------------------------------------------------------------
(* The pages of the stake queries.                                         *)

LEMMA PageProduct ==
  ASSUME NEW p \in Nat, NEW m \in Nat
  PROVE  /\ p * m \in Nat
         /\ (p + 1) * m = p * m + m
         /\ 0 * m = 0
  OBVIOUS

LEMMA ProductMonotone ==
  ASSUME NEW m \in Nat, NEW n \in Nat, m <= n, NEW d \in Nat
  PROVE  m * d <= n * d
<1>1. PICK k \in Nat : n = m + k
  <2>1. n - m \in Nat
    OBVIOUS
  <2> QED BY <2>1
<1>2. n * d = m * d + k * d
  BY <1>1
<1>3. m * d \in Nat /\ k * d \in Nat
  OBVIOUS
<1> QED BY <1>2, <1>3

LEMMA HasPageFrame ==
  ASSUME UNCHANGED <<page, maxReputers, reputerAddrs>>
  PROVE  HasPage' = HasPage
  BY DEF HasPage, PageIndices, Lesser

LEMMA PagePreserved ==
  ASSUME TypeOK, PageInv, Step
  PROVE  PageInv'
<1>0. page \in Nat /\ maxReputers \in Nat /\ Len(reputerAddrs) \in Nat
  BY ReputerAssumption DEF TypeOK
<1>1. CASE SkipResult \/ RejectOutput
  BY <1>1 DEF PageInv, SkipResult, RejectOutput, AtResult, stakes, voting
<1>2. CASE AcceptOutput
  <2>1. pc' = "results" /\ page' = 0
    BY <1>2 DEF PageInv, AcceptOutput, AtResult, stakes
  <2>2. maxReputers' \in Nat
    BY <1>0, <1>2 DEF AcceptOutput, stakes
  <2>3. page' * maxReputers' = 0
    BY <2>1, <2>2, PageProduct
  <2>4. \A k \in DOMAIN reputerAddrs' : k > 0
    <3>1. Addr(results[next]) \in Addresses
      BY <1>2, ResultsTyped DEF TypeOK, AcceptOutput, AtResult, Fresh
    <3> QED BY <1>2, <3>1 DEF TypeOK, AcceptOutput
  <2>5. \A k \in DOMAIN reputerAddrs' : k \in Int
    <3>1. Addr(results[next]) \in Addresses
      BY <1>2, ResultsTyped DEF TypeOK, AcceptOutput, AtResult, Fresh
    <3> QED BY <1>2, <3>1 DEF TypeOK, AcceptOutput
  <2> QED BY <2>1, <2>3, <2>4, <2>5 DEF PageInv
<1>3. CASE EndOfResults
  BY <1>3 DEF PageInv, EndOfResults, scanned, stakes, voting
<1>4. CASE QueryParams
  <2>1. page' = 0 /\ maxReputers' \in Nat /\ pc' = "stakes"
    BY <1>0, <1>4, ReputerAssumption DEF PageInv, QueryParams
  <2>2. page' * maxReputers' = 0
    BY <2>1, PageProduct
  <2>3. \A k \in DOMAIN reputerAddrs : k \in Nat \ {0}
    BY DEF TypeOK
  <2> QED BY <1>4, <2>1, <2>2, <2>3 DEF PageInv, QueryParams, scanned
<1>5. CASE QueryStakePage
  <2>1. /\ pc' = "stakes" /\ page' = page + 1
        /\ UNCHANGED <<maxReputers, reputerAddrs>>
        /\ stakesPerReputer' =
             stakesPerReputer \cup {reputerAddrs[i] : i \in PageIndices(page)}
    BY <1>5 DEF QueryStakePage, scanned
  <2>2. ASSUME NEW k \in DOMAIN reputerAddrs, k <= page' * maxReputers'
        PROVE  reputerAddrs[k] \in stakesPerReputer'
    <3>1. k \in Nat /\ k <= Len(reputerAddrs)
      BY DEF TypeOK
    <3>2. page * maxReputers \in Nat /\ (page + 1) * maxReputers = page * maxReputers + maxReputers
      BY <1>0, PageProduct
    <3>3. CASE k <= page * maxReputers
      BY <2>1, <3>3 DEF PageInv
    <3>4. CASE k > page * maxReputers
      <4>1. k \in PageIndices(page)
        BY <1>0, <2>1, <2>2, <3>1, <3>2, <3>4 DEF PageIndices, Lesser
      <4> QED BY <2>1, <4>1
    <3> QED BY <3>1, <3>2, <3>3, <3>4
  <2> QED BY <2>1, <2>2 DEF PageInv
<1>6. CASE StakeQueryFails
  BY <1>6 DEF PageInv, StakeQueryFails, scanned
<1>7. CASE EndOfStakePages
  BY <1>7, HasPageFrame DEF PageInv, EndOfStakePages, scanned, stakes
<1>8. CASE \/ VisitBlock \/ VotePanics \/ EndCurrentVote \/ EndEvalVote
           \/ GiveUp \/ FilterPanics \/ Compose
  <2>1. /\ UNCHANGED <<scanned, stakes, useWeightedVote>>
        /\ pc' \notin {"results", "params"}
        /\ pc' \in {"voteCurrent", "voteEval", "votePanicked"} => pc \in {"voteCurrent", "voteEval"}
    BY <1>8 DEF VisitBlock, VotePanics, EndCurrentVote, EndEvalVote, GiveUp, FilterPanics,
                Compose, voting, Voting
  <2>2. HasPage' = HasPage
    BY <2>1, HasPageFrame DEF scanned, stakes
  <2> QED BY <2>1, <2>2 DEF PageInv, scanned, stakes
<1> QED BY <1>1, <1>2, <1>3, <1>4, <1>5, <1>6, <1>7, <1>8 DEF Step

-----------------------------------------------------------------------------
(* The loop over the keys of a tally.                                      *)

LEMMA BeginVotePreserves ==
  ASSUME vote' = VoteOver(Reported(Tally')), Voting'
  PROVE  VoteInv'
<1>1. Visited' = {} /\ vote'.remaining = Reported(Tally)' /\ vote'.firstIter = TRUE
  BY DEF Visited, VoteOver, Reported
<1> QED BY <1>1 DEF VoteInv

LEMMA VisitBlockPreserves ==
  ASSUME TypeOK, VoteInv, VisitBlock
  PROVE  VoteInv'
<1> DEFINE P(h) == Powered(Tally[h])
           M(h) == StakeMissing(Tally[h])
<1>1. PICK block \in vote.remaining :
        /\ ~M(block)
        /\ vote' = [remaining |-> vote.remaining \ {block},
                    firstIter |-> FALSE,
                    blockOfMaxPower |->
                      IF BecomesFrontRunner(Tally[block]) THEN block
                      ELSE vote.blockOfMaxPower]
  BY DEF VisitBlock
<1>2. BecomesFrontRunner(Tally[block]) <=> (vote.firstIter \/ P(block))
  BY DEF BecomesFrontRunner, Powered
<1>3. /\ UNCHANGED <<pc, stake, useWeightedVote, stakesPerReputer, blockCurrentToReputer,
                     blockEvalToReputer>>
      /\ Voting
  BY DEF VisitBlock, scanned, stakes
<1>4. Tally' = Tally
  BY <1>3 DEF Tally
<1>5. ASSUME NEW h PROVE P(h)' <=> P(h)
  BY <1>3, <1>4 DEF Powered, VotingPower
<1>6. ASSUME NEW h PROVE M(h)' <=> M(h)
  BY <1>3, <1>4 DEF StakeMissing
<1>7. Reported(Tally)' = Reported(Tally)
  BY <1>4 DEF Reported
<1> HIDE DEF P, M
<1>8. /\ vote.remaining \subseteq Reported(Tally)
      /\ vote.firstIter <=> Visited = {}
      /\ Visited # {} => vote.blockOfMaxPower \in Visited
      /\ (\E h \in Visited : P(h)) => P(vote.blockOfMaxPower)
      /\ \A h \in Visited : ~M(h)
  BY <1>3 DEF VoteInv, P, M
<1>9. /\ Visited' = Visited \cup {block}
      /\ vote'.remaining \subseteq Reported(Tally)'
      /\ vote'.firstIter = FALSE
  BY <1>1, <1>7, <1>8 DEF Visited
<1>10. vote'.blockOfMaxPower =
         IF vote.firstIter \/ P(block) THEN block ELSE vote.blockOfMaxPower
  BY <1>1, <1>2
<1>11. vote'.blockOfMaxPower \in Visited'
  BY <1>8, <1>9, <1>10
<1>12. (\E h \in Visited' : P(h)) => P(vote'.blockOfMaxPower)
  BY <1>8, <1>9, <1>10
<1>13. \A h \in Visited' : ~M(h)
  BY <1>1, <1>8, <1>9
<1>14. PICK best : best = vote'.blockOfMaxPower
  OBVIOUS
<1>15. (\E h \in Visited' : P(h)') => P(best)'
  BY <1>5, <1>12, <1>14
<1>16. P(best)' => Powered(Tally[vote.blockOfMaxPower])'
  BY <1>14 DEF P, Powered, VotingPower
<1>17. (\E h \in Visited : Powered(Tally[h]))' => Powered(Tally[vote.blockOfMaxPower])'
  BY <1>15, <1>16 DEF P
<1>18. (\A h \in Visited : ~StakeMissing(Tally[h]))'
  BY <1>6, <1>13 DEF M
<1>19. Voting' /\ Visited' # {}
  BY <1>3, <1>9 DEF Voting
<1> QED BY <1>9, <1>11, <1>17, <1>18, <1>19 DEF VoteInv

LEMMA VotePreserved ==
  ASSUME TypeOK, VoteInv, Step
  PROVE  VoteInv'
<1>1. CASE ~Voting'
  BY <1>1 DEF VoteInv
<1>2. CASE Voting' /\ (StakeQueryFails \/ EndOfStakePages)
  <2>1. vote' = VoteOver(Reported(Tally'))
    BY <1>2 DEF StakeQueryFails, EndOfStakePages, BeginVote, Tally, Reported, scanned
  <2> QED BY <1>2, <2>1, BeginVotePreserves
<1>3. CASE Voting' /\ EndCurrentVote
  <2>1. vote' = VoteOver(Reported(Tally'))
    BY <1>3 DEF EndCurrentVote, Tally, Reported, scanned
  <2> QED BY <1>3, <2>1, BeginVotePreserves
<1>4. CASE VisitBlock
  BY <1>4, VisitBlockPreserves
<1>5. ASSUME \/ SkipResult \/ RejectOutput \/ AcceptOutput \/ EndOfResults
             \/ QueryParams \/ QueryStakePage \/ VotePanics \/ EndEvalVote
             \/ GiveUp \/ FilterPanics \/ Compose
      PROVE  ~Voting'
  BY <1>5 DEF SkipResult, RejectOutput, AcceptOutput, AtResult, EndOfResults, QueryParams,
              QueryStakePage, VotePanics, EndEvalVote, GiveUp, FilterPanics, Compose, Voting
<1> QED BY <1>1, <1>2, <1>3, <1>4, <1>5 DEF Step

-----------------------------------------------------------------------------
(* The decided height.                                                     *)

LEMMA SomethingReported ==
  ASSUME TypeOK, TallyInv, valueBundles # <<>>
  PROVE  Reported(blockCurrentToReputer) # {}
<1>1. 1 \in DOMAIN valueBundles /\ valueBundles[1].current \in Heights
  BY OutputTyped DEF TypeOK
<1>2. DOMAIN blockCurrentToReputer[valueBundles[1].current] # {}
  BY <1>1 DEF TallyInv
<1>3. blockCurrentToReputer[valueBundles[1].current] # <<>>
  BY <1>2
<1> QED BY <1>1, <1>3 DEF Reported

(* A voter whose stake has not been read stands beyond the pages.          *)
LEMMA MissingStakeIsBeyondPages ==
  ASSUME TypeOK, BundleInv, PageInv, pc \in {"voteCurrent", "voteEval"}, useWeightedVote,
         NEW k \in DOMAIN reputerAddrs, reputerAddrs[k] \notin stakesPerReputer
  PROVE  Len(reputerAddrs) > MaxStakeQueries * maxReputers
<1>0. page \in Nat /\ maxReputers \in Nat /\ Len(reputerAddrs) \in Nat /\ MaxStakeQueries \in Nat
  BY ReputerAssumption DEF TypeOK
<1>1. k \in Nat /\ k <= Len(reputerAddrs)
  BY DEF TypeOK
<1>2. /\ page * maxReputers \in Nat
      /\ (page + 1) * maxReputers = page * maxReputers + maxReputers
      /\ MaxStakeQueries * 0 = 0
  BY <1>0, PageProduct
<1>3. k > page * maxReputers
  BY <1>1, <1>2 DEF PageInv
<1>4. ~(page < MaxStakeQueries) \/ PageIndices(page) = {}
  BY DEF PageInv, HasPage
<1>5. CASE ~(page < MaxStakeQueries)
  <2>1. page = MaxStakeQueries
    BY <1>0, <1>5 DEF TypeOK
  <2> QED BY <1>0, <1>1, <1>2, <1>3, <2>1
<1>6. CASE PageIndices(page) = {}
  <2>1. maxReputers = 0
    <3> SUFFICES ASSUME maxReputers # 0 PROVE FALSE
      OBVIOUS
    <3>1. page * maxReputers + 1 \in PageIndices(page)
      BY <1>0, <1>1, <1>2, <1>3 DEF PageIndices, Lesser
    <3> QED BY <3>1, <1>6
  <2> QED BY <1>0, <1>1, <1>2, <1>3, <2>1
<1> QED BY <1>4, <1>5, <1>6

LEMMA VotePanicsDecided ==
  ASSUME TypeOK, BundleInv, TallyInv, PageInv, VoteInv, DecidedInv, VotePanics
  PROVE  pc = "voteCurrent" /\ Len(reputerAddrs) > MaxStakeQueries * maxReputers
<1>1. PICK block \in vote.remaining : StakeMissing(Tally[block])
  BY DEF VotePanics
<1>2. block \in Heights /\ Voting
  BY DEF VotePanics, TypeOK
<1>3. PICK i \in DOMAIN Tally[block] : Tally[block][i] \notin stakesPerReputer /\ useWeightedVote
  BY <1>1 DEF StakeMissing
<1>4. PICK k \in DOMAIN valueBundles : reputerAddrs[k] = Tally[block][i]
  BY <1>2, <1>3 DEF TallyInv, Tally
<1>5. k \in DOMAIN reputerAddrs
  BY <1>4 DEF BundleInv, TypeOK
<1>6. Len(reputerAddrs) > MaxStakeQueries * maxReputers
  BY <1>2, <1>3, <1>4, <1>5, MissingStakeIsBeyondPages DEF Voting
<1>7. ASSUME pc = "voteEval" PROVE FALSE
  <2> DEFINE h == valueBundles[k].current
  <2>1. h \in Heights
    BY <1>4, OutputTyped DEF TypeOK
  <2>2. PICK j \in DOMAIN blockCurrentToReputer[h] : blockCurrentToReputer[h][j] = reputerAddrs[k]
    BY <1>4 DEF TallyInv
  <2>3. blockCurrentToReputer[h] # <<>>
    BY <2>2
  <2>4. ~StakeMissing(blockCurrentToReputer[h])
    BY <1>7, <2>1, <2>3 DEF DecidedInv, Decided, Reported
  <2> QED BY <1>3, <1>4, <2>2, <2>4 DEF StakeMissing
<1> QED BY <1>2, <1>6, <1>7 DEF Voting

LEMMA EndCurrentVoteDecided ==
  ASSUME TypeOK, TallyInv, VoteInv, DecidedInv, EndCurrentVote
  PROVE  DecidedInv'
<1> DEFINE R == Reported(blockCurrentToReputer)
<1>1. /\ pc = "voteCurrent" /\ pc' = "voteEval"
      /\ vote.remaining = {}
      /\ blockCurrentHeight' = vote.blockOfMaxPower
      /\ UNCHANGED <<stake, scanned, stakes, useWeightedVote>>
  BY DEF EndCurrentVote
<1>2. Tally = blockCurrentToReputer /\ Visited = R /\ Voting
  BY <1>1 DEF Tally, Visited, Voting
<1>3. valueBundles # <<>> /\ R # {}
  BY <1>1, SomethingReported DEF DecidedInv
<1>4. /\ vote.blockOfMaxPower \in R
      /\ (\E h \in R : Powered(blockCurrentToReputer[h])) =>
           Powered(blockCurrentToReputer[vote.blockOfMaxPower])
      /\ \A h \in R : ~StakeMissing(blockCurrentToReputer[h])
  BY <1>2, <1>3 DEF VoteInv
<1>5. R' = R
  BY <1>1 DEF scanned, Reported
<1>6. (\A h \in R : ~StakeMissing(blockCurrentToReputer[h]))'
  BY <1>1, <1>4, <1>5 DEF StakeMissing, scanned, stakes
<1>7. ASSUME NEW h PROVE Powered(blockCurrentToReputer[h])' <=> Powered(blockCurrentToReputer[h])
  BY <1>1 DEF Powered, VotingPower, scanned
<1>8. PICK best : best = vote.blockOfMaxPower
  OBVIOUS
<1>9. Powered(blockCurrentToReputer[best]) => Powered(blockCurrentToReputer[blockCurrentHeight])'
  BY <1>1, <1>8 DEF Powered, VotingPower, scanned
<1>10. PoweredHeightWins'
  BY <1>4, <1>5, <1>7, <1>8, <1>9 DEF PoweredHeightWins
<1> QED BY <1>1, <1>3, <1>4, <1>5, <1>6, <1>10
        DEF DecidedInv, Decided, GivesUpOnlyWithoutHeight, VotePanicsOnlyBeyondCapacity,
            BeyondCapacity, scanned

(* The decided height is the height of a bundle.                           *)
LEMMA DecidedHeightIsReported ==
  ASSUME TypeOK, TallyInv, DecidedInv, Decided
  PROVE  \E k \in DOMAIN valueBundles : valueBundles[k].current = blockCurrentHeight
<1>1. blockCurrentHeight \in Heights /\ blockCurrentToReputer[blockCurrentHeight] # <<>>
  BY DEF DecidedInv, Reported
<1>2. 1 \in DOMAIN blockCurrentToReputer[blockCurrentHeight]
  BY <1>1 DEF TypeOK
<1> QED BY <1>1, <1>2 DEF TallyInv

LEMMA DecidedFrame ==
  ASSUME DecidedInv, UNCHANGED <<stake, scanned, stakes, useWeightedVote, blockCurrentHeight>>,
         Decided, Decided'
  PROVE  DecidedInv'
<1>1. Reported(blockCurrentToReputer)' = Reported(blockCurrentToReputer)
  BY DEF scanned, Reported
<1>2. (\A h \in Reported(blockCurrentToReputer) : ~StakeMissing(blockCurrentToReputer[h]))'
  BY <1>1 DEF DecidedInv, StakeMissing, scanned, stakes
<1>3. PoweredHeightWins'
  BY <1>1 DEF DecidedInv, PoweredHeightWins, Powered, VotingPower, scanned
<1> QED BY <1>1, <1>2, <1>3
        DEF DecidedInv, Decided, GivesUpOnlyWithoutHeight, VotePanicsOnlyBeyondCapacity,
            BeyondCapacity, scanned

LEMMA DecidedPreserved ==
  ASSUME TypeOK, BundleInv, TallyInv, PageInv, VoteInv, DecidedInv, Step
  PROVE  DecidedInv'
<1> USE DEF DecidedInv, Decided, GivesUpOnlyWithoutHeight, VotePanicsOnlyBeyondCapacity,
            BeyondCapacity
<1>1. CASE SkipResult \/ RejectOutput \/ AcceptOutput
  BY <1>1 DEF SkipResult, RejectOutput, AcceptOutput, AtResult, voting, PoweredHeightWins
<1>2. CASE EndOfResults
  <2>1. valueBundles = <<>> <=> reputerAddrs = <<>>
    BY DEF BundleInv, TypeOK
  <2> QED BY <1>2, <2>1 DEF EndOfResults, scanned, voting, PoweredHeightWins
<1>3. CASE QueryParams \/ QueryStakePage \/ StakeQueryFails \/ EndOfStakePages
  BY <1>3 DEF QueryParams, QueryStakePage, StakeQueryFails, EndOfStakePages, scanned, voting,
              PoweredHeightWins
<1>4. CASE VotePanics
  <2>1. /\ pc = "voteCurrent" /\ pc' = "votePanicked"
        /\ BeyondCapacity
        /\ UNCHANGED <<stake, scanned, stakes, voting>>
    BY <1>4, VotePanicsDecided DEF VotePanics
  <2>2. useWeightedVote
    BY <1>4 DEF VotePanics, StakeMissing
  <2> QED BY <2>1, <2>2 DEF scanned, stakes, voting, PoweredHeightWins
<1>5. CASE EndCurrentVote
  BY <1>5, EndCurrentVoteDecided
<1>6. CASE VisitBlock /\ pc = "voteCurrent"
  BY <1>6 DEF VisitBlock, scanned, PoweredHeightWins
<1>7. CASE \/ VisitBlock /\ pc = "voteEval"
           \/ EndEvalVote \/ FilterPanics \/ Compose
  BY <1>7, DecidedFrame DEF VisitBlock, EndEvalVote, FilterPanics, Compose, voting
<1>8. CASE GiveUp
  <2>1. PICK k \in DOMAIN valueBundles : valueBundles[k].current = -1
    BY <1>8, DecidedHeightIsReported DEF GiveUp
  <2> QED BY <1>8, <2>1 DEF GiveUp, scanned, voting, PoweredHeightWins
<1> QED BY <1>1, <1>2, <1>3, <1>4, <1>5, <1>6, <1>7, <1>8 DEF Step, VisitBlock, Voting

-----------------------------------------------------------------------------
(* The payload.                                                            *)

LEMMA SentPreserved ==
  ASSUME TypeOK, TallyInv, DecidedInv, SentInv, Step
  PROVE  SentInv'
<1> USE DEF FilterPanicsExactlyWithoutNonce
<1>1. CASE Compose
  <2>1. PICK k \in DOMAIN valueBundles : valueBundles[k].current = blockCurrentHeight
    BY <1>1, DecidedHeightIsReported DEF Compose, Decided
  <2>2. /\ pc' = "sent"
        /\ sent' = {[nonce |-> blockCurrentHeight, topic |-> Topic, bundles |-> valueBundles]}
        /\ FilterPasses
    BY <1>1 DEF Compose, SentInv
  <2> QED BY <2>1, <2>2 DEF SentInv, SentHeightWasReported, FilterPasses, HasNonce
<1>2. CASE ~Compose
  <2>1. sent' = {} /\ sent = {}
    BY <1>2 DEF SentInv, Step, SkipResult, RejectOutput, AcceptOutput, AtResult, EndOfResults,
                QueryParams, QueryStakePage, StakeQueryFails, EndOfStakePages, VisitBlock,
                VotePanics, EndCurrentVote, EndEvalVote, GiveUp, FilterPanics, Voting
  <2>2. pc' = "filterPanicked" => ~FilterPasses /\ UNCHANGED valueBundles
    BY <1>2 DEF Step, SkipResult, RejectOutput, AcceptOutput, AtResult, EndOfResults,
                QueryParams, QueryStakePage, StakeQueryFails, EndOfStakePages, VisitBlock,
                VotePanics, EndCurrentVote, EndEvalVote, GiveUp, FilterPanics, Voting, scanned
  <2> QED BY <2>1, <2>2 DEF SentInv, SentHeightWasReported, FilterPasses, HasNonce
<1> QED BY <1>1, <1>2

-----------------------------------------------------------------------------
LEMMA InitIInv == Init => IInv
<1> SUFFICES ASSUME Init PROVE IInv
  OBVIOUS
<1>1. BundleInv /\ SentInv
  BY DEF Init, BundleInv, SentInv, SentHeightWasReported, FilterPanicsExactlyWithoutNonce
<1>2. TallyInv
  BY DEF Init, TallyInv, NoVotes
<1>3. PageInv /\ VoteInv /\ DecidedInv
  BY DEF Init, PageInv, VoteInv, Voting, DecidedInv, PoweredHeightWins,
         GivesUpOnlyWithoutHeight, VotePanicsOnlyBeyondCapacity, Decided, BeyondCapacity
<1> QED BY <1>1, <1>2, <1>3, InitTypeOK DEF IInv

LEMMA StutterIInv == IInv /\ UNCHANGED vars => IInv'
<1> SUFFICES ASSUME IInv, UNCHANGED vars PROVE IInv'
  OBVIOUS
<1> USE DEF vars, scanned, stakes, voting, IInv
<1>1. TypeOK' /\ BundleInv' /\ TallyInv' /\ SentInv'
  BY DEF TypeOK, BundleInv, TallyInv, SentInv, SentHeightWasReported,
         FilterPanicsExactlyWithoutNonce, HasNonce
<1>2. PageInv'
  BY HasPageFrame DEF PageInv
<1>3. VoteInv'
  BY DEF VoteInv, Voting, Visited, Tally, Reported, Powered, VotingPower, StakeMissing
<1>4. DecidedInv'
  BY DEF DecidedInv, Reported, StakeMissing, GivesUpOnlyWithoutHeight, PoweredHeightWins,
         VotePanicsOnlyBeyondCapacity, Powered, VotingPower, Decided, BeyondCapacity
<1> QED BY <1>1, <1>2, <1>3, <1>4

LEMMA NextIInv == IInv /\ [Next]_vars => IInv'
<1>1. ASSUME IInv, Step PROVE IInv'
  BY <1>1, NextTypeOK, BundlesPreserved, PagePreserved, VotePreserved, DecidedPreserved,
     SentPreserved DEF IInv, Next
<1> QED BY <1>1, StutterIInv DEF Next, Terminated

THEOREM Invariance == Spec => []IInv
  BY InitIInv, NextIInv, PTL DEF Spec

(* The nonce of a payload is the height of one of its bundles.             *)
THEOREM SentHeightIsReported == Spec => []SentHeightWasReported
<1>1. IInv => SentHeightWasReported
  BY DEF IInv, SentInv
<1> QED BY <1>1, Invariance, PTL

(* A height without voting power never wins against one with power.        *)
THEOREM PowerDecides == Spec => []PoweredHeightWins
<1>1. IInv => PoweredHeightWins
  BY DEF IInv, DecidedInv
<1> QED BY <1>1, Invariance, PTL

(* The leader gives up only without a usable bundle, or when one of them   *)
(* is of the height -1: no failed query or page limit makes it give up.    *)
THEOREM GivesUpOnlyForMinusOne == Spec => []GivesUpOnlyWithoutHeight
<1>1. IInv => GivesUpOnlyWithoutHeight
  BY DEF IInv, DecidedInv
<1> QED BY <1>1, Invariance, PTL

-----------------------------------------------------------------------------
(* Whose bundle, whose votes.                                              *)

AttributionInv ==
  /\ BundlesAttributed
  /\ \A k \in DOMAIN reputerAddrs : reputerAddrs[k] \in reputerAddrSet

(* A tally in which each of the addresses has one vote, and nobody else.   *)
OneVoteEach(tally, addrs) ==
  /\ \A h \in Heights : Len(tally[h]) <= Len(addrs)
  /\ \A h \in Heights : \A i \in DOMAIN tally[h] :
       \E k \in DOMAIN addrs : addrs[k] = tally[h][i]
  /\ \A k \in DOMAIN addrs :
       \E h \in Heights : \E i \in DOMAIN tally[h] : tally[h][i] = addrs[k]
  /\ \A g, h \in Heights : \A i \in DOMAIN tally[g], j \in DOMAIN tally[h] :
       tally[g][i] = tally[h][j] => g = h /\ i = j

BallotInv ==
  /\ OneVoteEach(blockCurrentToReputer, reputerAddrs)
  /\ OneVoteEach(blockEvalToReputer, reputerAddrs)

LEMMA VotesAfterCast ==
  ASSUME NEW tally \in [Heights -> Seq(Addresses)], NEW height \in Heights,
         NEW addr \in Addresses, NEW h \in Heights
  PROVE  LET after == CastVote(tally, height, addr) IN
         /\ h # height => after[h] = tally[h]
         /\ h = height =>
              /\ Len(after[h]) = Len(tally[h]) + 1
              /\ DOMAIN after[h] = 1..Len(tally[h]) + 1
              /\ after[h][Len(tally[h]) + 1] = addr
              /\ \A i \in 1..Len(tally[h]) : after[h][i] = tally[h][i]
         /\ tally[h] \in Seq(Addresses)
         /\ Len(tally[h]) \in Nat /\ DOMAIN tally[h] = 1..Len(tally[h])
<1>1. tally[h] \in Seq(Addresses)
  OBVIOUS
<1>2. CASE h # height
  BY <1>1, <1>2 DEF CastVote
<1>3. CASE h = height
  <2>1. CastVote(tally, height, addr)[h] = Append(tally[h], addr)
    BY <1>3 DEF CastVote
  <2> QED BY <1>1, <1>3, <2>1
<1> QED BY <1>2, <1>3

(* A vote of an address that has none yet.                                 *)
LEMMA OneMoreVote ==
  ASSUME NEW tally \in [Heights -> Seq(Addresses)], NEW addrs \in Seq(Addresses),
         OneVoteEach(tally, addrs),
         NEW height \in Heights, NEW addr \in Addresses,
         \A k \in DOMAIN addrs : addrs[k] # addr
  PROVE  OneVoteEach(CastVote(tally, height, addr), Append(addrs, addr))
<1> DEFINE after == CastVote(tally, height, addr)
           more == Append(addrs, addr)
           n == Len(addrs) + 1
           last == Len(tally[height]) + 1
<1>1. /\ Len(addrs) \in Nat /\ DOMAIN addrs = 1..n - 1
      /\ Len(more) = n /\ DOMAIN more = 1..n
      /\ more[n] = addr /\ \A k \in 1..n - 1 : more[k] = addrs[k]
  OBVIOUS
<1>2. ASSUME NEW h \in Heights
      PROVE  /\ h # height => after[h] = tally[h]
             /\ h = height =>
                  /\ Len(after[h]) = last /\ DOMAIN after[h] = 1..last
                  /\ after[h][last] = addr
                  /\ \A i \in 1..last - 1 : after[h][i] = tally[h][i]
             /\ Len(tally[h]) \in Nat /\ DOMAIN tally[h] = 1..Len(tally[h])
  BY VotesAfterCast
<1>3. last \in Nat \ {0} /\ DOMAIN tally[height] = 1..last - 1
  BY <1>2
<1>4. ASSUME NEW h \in Heights, NEW i \in DOMAIN tally[h]
      PROVE  tally[h][i] # addr
  BY DEF OneVoteEach
<1>5. ASSUME NEW h \in Heights, NEW i \in DOMAIN after[h]
      PROVE  \/ i \in DOMAIN tally[h] /\ after[h][i] = tally[h][i]
             \/ h = height /\ i = last /\ after[h][i] = addr
  <2> HIDE DEF after, last
  <2>1. CASE h # height
    BY <1>2, <2>1
  <2>2. CASE h = height
    <3>1. i \in 1..last - 1 \/ i = last
      BY <1>2, <1>3, <1>5, <2>2
    <3> QED BY <1>2, <1>3, <2>2, <3>1
  <2> QED BY <2>1, <2>2
<1>6. ASSUME NEW h \in Heights, NEW i \in DOMAIN tally[h]
      PROVE  i \in DOMAIN after[h] /\ after[h][i] = tally[h][i]
  <2> HIDE DEF after, last
  <2> QED BY <1>2, <1>3, <1>6
<1>7. last \in DOMAIN after[height] /\ after[height][last] = addr
  <2> HIDE DEF after, last
  <2> QED BY <1>2, <1>3
<1> HIDE DEF after, more, last
<1>8. \A h \in Heights : Len(after[h]) <= Len(more)
  <2> SUFFICES ASSUME NEW h \in Heights PROVE Len(after[h]) <= Len(more)
    OBVIOUS
  <2>1. Len(tally[h]) <= Len(addrs)
    BY DEF OneVoteEach
  <2>2. CASE h # height
    BY <1>1, <1>2, <2>1, <2>2
  <2>3. CASE h = height
    BY <1>1, <1>2, <2>1, <2>3 DEF last
  <2> QED BY <2>2, <2>3
<1>9. ASSUME NEW h \in Heights, NEW i \in DOMAIN after[h]
      PROVE  \E k \in DOMAIN more : more[k] = after[h][i]
  <2>1. CASE i \in DOMAIN tally[h] /\ after[h][i] = tally[h][i]
    <3>1. PICK k \in DOMAIN addrs : addrs[k] = tally[h][i]
      BY <2>1 DEF OneVoteEach
    <3>2. k \in 1..n /\ more[k] = addrs[k]
      BY <1>1
    <3> QED BY <1>1, <2>1, <3>1, <3>2
  <2>2. CASE after[h][i] = addr
    <3>1. n \in DOMAIN more
      BY <1>1
    <3> QED BY <1>1, <2>2, <3>1
  <2> QED BY <1>5, <2>1, <2>2
<1>10. ASSUME NEW k \in DOMAIN more
       PROVE  \E h \in Heights : \E i \in DOMAIN after[h] : after[h][i] = more[k]
  <2>1. CASE k = n
    BY <1>1, <1>7, <2>1
  <2>2. CASE k # n
    <3>1. k \in DOMAIN addrs /\ more[k] = addrs[k]
      BY <1>1, <2>2
    <3>2. PICK h \in Heights : \E i \in DOMAIN tally[h] : tally[h][i] = addrs[k]
      BY <3>1 DEF OneVoteEach
    <3>3. PICK i \in DOMAIN tally[h] : tally[h][i] = addrs[k]
      BY <3>2
    <3>4. i \in DOMAIN after[h] /\ after[h][i] = tally[h][i]
      BY <1>6
    <3> QED BY <3>1, <3>3, <3>4
  <2> QED BY <2>1, <2>2
<1>11. ASSUME NEW g \in Heights, NEW h \in Heights,
              NEW i \in DOMAIN after[g], NEW j \in DOMAIN after[h],
              after[g][i] = after[h][j]
       PROVE  g = h /\ i = j
  <2>1. CASE i \in DOMAIN tally[g] /\ after[g][i] = tally[g][i]
             /\ j \in DOMAIN tally[h] /\ after[h][j] = tally[h][j]
    <3>1. tally[g][i] = tally[h][j]
      BY <1>11, <2>1
    <3>2. \A v \in DOMAIN tally[g], w \in DOMAIN tally[h] :
            tally[g][v] = tally[h][w] => g = h /\ v = w
      BY Zenon DEF OneVoteEach
    <3> QED BY <2>1, <3>1, <3>2
  <2>2. CASE i \in DOMAIN tally[g] /\ after[g][i] = tally[g][i] /\ after[h][j] = addr
    BY <1>4, <1>11, <2>2
  <2>3. CASE after[g][i] = addr /\ j \in DOMAIN tally[h] /\ after[h][j] = tally[h][j]
    BY <1>4, <1>11, <2>3
  <2>4. CASE g = height /\ i = last /\ h = height /\ j = last
    BY <2>4
  <2>5. \/ i \in DOMAIN tally[g] /\ after[g][i] = tally[g][i]
        \/ g = height /\ i = last /\ after[g][i] = addr
    BY <1>5
  <2>6. \/ j \in DOMAIN tally[h] /\ after[h][j] = tally[h][j]
        \/ h = height /\ j = last /\ after[h][j] = addr
    BY <1>5
  <2> QED BY <2>1, <2>2, <2>3, <2>4, <2>5, <2>6
<1> QED
  BY <1>8, <1>9, <1>10, <1>11 DEF OneVoteEach, after, more

LEMMA AcceptOutputAttributes ==
  ASSUME TypeOK, AttributionInv, BallotInv, AcceptOutput
  PROVE  AttributionInv' /\ BallotInv'
<1> DEFINE out == results[next].out
           addr == Addr(results[next])
           n == Len(valueBundles) + 1
<1>1. /\ out \in Outputs /\ addr \in Addresses /\ out.topic = Topic
      /\ addr \notin reputerAddrSet /\ results[next].peers # <<>>
      /\ next \in Nat \ {0} /\ next' = next + 1 /\ results' = results
  BY ResultsTyped DEF TypeOK, AcceptOutput, AtResult, Fresh, Usable
<1>2. /\ valueBundles' = Append(valueBundles, out)
      /\ reputerAddrs' = Append(reputerAddrs, addr)
      /\ blockCurrentToReputer' = CastVote(blockCurrentToReputer, out.current, addr)
      /\ blockEvalToReputer' = CastVote(blockEvalToReputer, out.eval, addr)
      /\ reputerAddrSet' = reputerAddrSet \cup {addr}
  BY DEF AcceptOutput
<1>3. /\ valueBundles \in Seq(Outputs) /\ reputerAddrs \in Seq(Addresses)
      /\ Len(valueBundles) = Len(reputerAddrs)
      /\ \A k \in DOMAIN reputerAddrs : reputerAddrs[k] \in reputerAddrSet
      /\ \A k \in DOMAIN reputerAddrs : reputerAddrs[k] # addr
  BY <1>1 DEF TypeOK, AttributionInv, BundlesAttributed
<1>4. BallotInv'
  <2>1. /\ blockCurrentToReputer \in [Heights -> Seq(Addresses)]
        /\ blockEvalToReputer \in [Heights -> Seq(Addresses)]
    BY DEF TypeOK
  <2>2. out.current \in Heights /\ out.eval \in Heights
    BY <1>1, OutputTyped
  <2> HIDE DEF out, addr
  <2> QED
    BY <1>1, <1>2, <1>3, <2>1, <2>2, OneMoreVote DEF BallotInv
<1>5. AttributionInv'
  <2>1. /\ DOMAIN valueBundles = 1..n - 1 /\ DOMAIN reputerAddrs = 1..n - 1
        /\ DOMAIN valueBundles' = 1..n /\ DOMAIN reputerAddrs' = 1..n
        /\ Len(valueBundles') = Len(reputerAddrs')
        /\ n \in Nat \ {0}
        /\ valueBundles'[n] = out /\ reputerAddrs'[n] = addr
        /\ \A k \in 1..n - 1 :
             valueBundles'[k] = valueBundles[k] /\ reputerAddrs'[k] = reputerAddrs[k]
    <3> HIDE DEF out, addr
    <3> QED BY <1>1, <1>2, <1>3
  <2>2. ASSUME NEW k \in 1..n
        PROVE  /\ valueBundles'[k].topic = Topic
               /\ reputerAddrs'[k] \in reputerAddrSet'
               /\ \E i \in 1..next' - 1 :
                    /\ results'[i].peers # <<>>
                    /\ results'[i].out = valueBundles'[k]
                    /\ Addr(results'[i]) = reputerAddrs'[k]
    <3>1. CASE k = n
      <4>1. next \in 1..next' - 1
        BY <1>1
      <4> QED BY <1>1, <1>2, <2>1, <3>1, <4>1
    <3>2. CASE k \in 1..n - 1
      <4>1. /\ valueBundles[k].topic = Topic
            /\ reputerAddrs[k] \in reputerAddrSet
        BY <1>3, <2>1, <3>2 DEF AttributionInv, BundlesAttributed
      <4>2. PICK i \in 1..next - 1 :
              /\ results[i].peers # <<>>
              /\ results[i].out = valueBundles[k]
              /\ Addr(results[i]) = reputerAddrs[k]
        BY <2>1, <3>2 DEF AttributionInv, BundlesAttributed
      <4>3. i \in 1..next' - 1
        BY <1>1, <4>2
      <4>4. valueBundles'[k] = valueBundles[k] /\ reputerAddrs'[k] = reputerAddrs[k]
        BY <2>1, <3>2
      <4>5. reputerAddrs'[k] \in reputerAddrSet'
        BY <1>2, <4>1, <4>4
      <4> HIDE DEF n
      <4> QED BY <1>1, <4>1, <4>2, <4>3, <4>4, <4>5
    <3> QED BY <2>1, <3>1, <3>2
  <2>3. ASSUME NEW k \in 1..n, NEW j \in 1..n, reputerAddrs'[j] = reputerAddrs'[k]
        PROVE  j = k
    <3>1. \A i \in 1..n - 1 : reputerAddrs'[i] # addr
      BY <1>3, <2>1
    <3>2. CASE k \in 1..n - 1 /\ j \in 1..n - 1
      BY <2>1, <2>3, <3>2 DEF AttributionInv, BundlesAttributed
    <3>3. CASE k = n \/ j = n
      BY <2>1, <2>3, <3>1, <3>3
    <3> QED BY <2>1, <3>2, <3>3
  <2> HIDE DEF n
  <2> QED
    BY <2>1, <2>2, <2>3 DEF AttributionInv, BundlesAttributed, Addr
<1> QED BY <1>4, <1>5

LEMMA AttributionPreserved ==
  ASSUME TypeOK, AttributionInv, BallotInv, [Next]_vars
  PROVE  AttributionInv' /\ BallotInv'
<1>1. CASE AcceptOutput
  BY <1>1, AcceptOutputAttributes
<1>2. CASE Step /\ ~AcceptOutput
  <2>1. UNCHANGED <<valueBundles, reputerAddrs, blockCurrentToReputer, blockEvalToReputer>>
    BY <1>2, ScanUnchanged
  <2>2. /\ results' = results /\ next' \in {next, next + 1}
        /\ \A addr \in reputerAddrSet : addr \in reputerAddrSet'
    BY <1>2 DEF Step, SkipResult, RejectOutput, EndOfResults, QueryParams, QueryStakePage,
         StakeQueryFails, EndOfStakePages, VisitBlock, VotePanics, EndCurrentVote,
         EndEvalVote, GiveUp, FilterPanics, Compose, scanned
  <2>3. next \in Nat
    BY ResultsTyped DEF TypeOK
  <2>4. ASSUME NEW i \in 1..next - 1 PROVE i \in 1..next' - 1
    <3>1. next' = next \/ next' = next + 1
      BY <2>2
    <3> QED BY <2>3, <3>1
  <2> QED
    BY <2>1, <2>2, <2>4 DEF AttributionInv, BundlesAttributed, BallotInv, Addr
<1>3. CASE UNCHANGED vars
  BY <1>3 DEF vars, scanned, AttributionInv, BundlesAttributed, BallotInv, Addr
<1> QED BY <1>1, <1>2, <1>3 DEF Next, Terminated

LEMMA OneVoteIsCounted ==
  ASSUME TypeOK, NEW tally \in [Heights -> Seq(Addresses)],
         OneVoteEach(tally, reputerAddrs), NEW addr \in Addresses
  PROVE  IF \E k \in DOMAIN reputerAddrs : reputerAddrs[k] = addr
         THEN CountedOnce(tally, addr)
         ELSE Ballots(tally, addr) = {}
<1>1. ASSUME NEW h \in Heights
      PROVE  /\ DOMAIN tally[h] = 1..Len(tally[h])
             /\ \A i \in DOMAIN tally[h] : i \in 1..Len(reputerAddrs)
  <2>1. tally[h] \in Seq(Addresses) /\ Len(tally[h]) <= Len(reputerAddrs)
    BY DEF OneVoteEach
  <2>2. Len(reputerAddrs) \in Nat
    BY DEF TypeOK
  <2> QED BY <2>1, <2>2
<1>2. CASE \E k \in DOMAIN reputerAddrs : reputerAddrs[k] = addr
  <2>1. PICK h \in Heights : \E i \in DOMAIN tally[h] : tally[h][i] = addr
    BY <1>2 DEF OneVoteEach
  <2>2. PICK i \in DOMAIN tally[h] : tally[h][i] = addr
    BY <2>1
  <2>3. <<h, i>> \in Ballots(tally, addr)
    BY <1>1, <2>2 DEF Ballots
  <2>4. ASSUME NEW b \in Ballots(tally, addr), NEW c \in Ballots(tally, addr)
        PROVE  b = c
    <3>1. /\ b \in Heights \X (1..Len(reputerAddrs)) /\ c \in Heights \X (1..Len(reputerAddrs))
          /\ b[2] \in DOMAIN tally[b[1]] /\ tally[b[1]][b[2]] = addr
          /\ c[2] \in DOMAIN tally[c[1]] /\ tally[c[1]][c[2]] = addr
      BY DEF Ballots
    <3>2. b[1] = c[1] /\ b[2] = c[2]
      BY <3>1 DEF OneVoteEach
    <3> QED BY <3>1, <3>2
  <2> QED BY <1>2, <2>3, <2>4 DEF CountedOnce
<1>3. CASE ~\E k \in DOMAIN reputerAddrs : reputerAddrs[k] = addr
  BY <1>3 DEF OneVoteEach, Ballots
<1> QED BY <1>2, <1>3

LEMMA Attribution == Spec => [](TypeOK /\ AttributionInv /\ BallotInv)
<1>1. Init => AttributionInv /\ BallotInv
  BY DEF Init, NoVotes, AttributionInv, BundlesAttributed, BallotInv, OneVoteEach
<1>2. TypeOK /\ AttributionInv /\ BallotInv /\ [Next]_vars
        => TypeOK' /\ AttributionInv' /\ BallotInv'
  BY NextTypeOK, AttributionPreserved
<1> QED BY InitTypeOK, <1>1, <1>2, PTL DEF Spec

(* Each bundle of a payload is the output of the reputer at its index, and *)
(* no reputer has two.                                                     *)
THEOREM BundlesHaveTheirReputer == Spec => []BundlesAttributed
<1>1. AttributionInv => BundlesAttributed
  BY DEF AttributionInv
<1> QED BY <1>1, Attribution, PTL

(* One vote on each height for every reputer, whatever peers it runs.      *)
THEOREM OneVoteEachReputer == Spec => []OneVotePerReputer
<1>1. TypeOK /\ BallotInv => OneVotePerReputer
  <2> SUFFICES ASSUME TypeOK, BallotInv,
                      NEW addr \in Addresses,
                      NEW tally \in {blockCurrentToReputer, blockEvalToReputer}
               PROVE  IF \E k \in DOMAIN reputerAddrs : reputerAddrs[k] = addr
                      THEN CountedOnce(tally, addr)
                      ELSE Ballots(tally, addr) = {}
    BY DEF OneVotePerReputer
  <2>1. tally \in [Heights -> Seq(Addresses)] /\ OneVoteEach(tally, reputerAddrs)
    BY DEF TypeOK, BallotInv
  <2> QED BY <2>1, OneVoteIsCounted
<1> QED BY <1>1, Attribution, PTL

(* A payload whose bundles all agree on one height, each with itself and   *)
(* with the others, has that height for its nonce.                         *)
THEOREM UnanimityIsSafe == Spec => []UnanimousBundlesMatchNonce
<1>1. IInv => UnanimousBundlesMatchNonce
  <2> SUFFICES ASSUME IInv, NEW req \in sent,
                      \A j, k \in DOMAIN req.bundles :
                        req.bundles[j].nonce = req.bundles[k].current,
                      NEW k \in DOMAIN req.bundles
               PROVE  req.bundles[k].nonce = req.nonce
    BY DEF UnanimousBundlesMatchNonce
  <2>1. PICK j \in DOMAIN req.bundles : req.bundles[j].current = req.nonce
    BY DEF IInv, SentInv, SentHeightWasReported
  <2> QED BY <2>1
<1> QED BY <1>1, Invariance, PTL

-----------------------------------------------------------------------------
(* The capacity of the stake queries.                                      *)

(* No stake is read but those of the pages.                                *)
StakesInv ==
  /\ pc \in {"results", "params"} => stakesPerReputer = {}
  /\ \A addr \in stakesPerReputer :
       \E k \in DOMAIN reputerAddrs : k <= page * maxReputers /\ reputerAddrs[k] = addr

LEMMA StakesPreserved ==
  ASSUME TypeOK, PageInv, StakesInv, [Next]_vars
  PROVE  StakesInv'
<1>0. page \in Nat /\ maxReputers \in Nat /\ Len(reputerAddrs) \in Nat
  BY ReputerAssumption DEF TypeOK
<1>1. CASE SkipResult \/ RejectOutput \/ AcceptOutput \/ EndOfResults
  <2>1. stakesPerReputer' = {}
    BY <1>1 DEF StakesInv, SkipResult, RejectOutput, AcceptOutput, AtResult, EndOfResults, stakes
  <2> QED BY <2>1 DEF StakesInv
<1>2. CASE QueryParams
  <2>1. stakesPerReputer' = {}
    BY <1>2 DEF StakesInv, QueryParams
  <2> QED BY <2>1 DEF StakesInv
<1>3. CASE QueryStakePage
  <2>1. /\ pc' = "stakes" /\ page' = page + 1
        /\ UNCHANGED <<maxReputers, reputerAddrs>>
        /\ stakesPerReputer' =
             stakesPerReputer \cup {reputerAddrs[i] : i \in PageIndices(page)}
    BY <1>3 DEF QueryStakePage, scanned
  <2>2. page * maxReputers \in Nat /\ (page + 1) * maxReputers = page * maxReputers + maxReputers
    BY <1>0, PageProduct
  <2>3. ASSUME NEW addr \in stakesPerReputer
        PROVE  \E k \in DOMAIN reputerAddrs : k <= (page + 1) * maxReputers /\ reputerAddrs[k] = addr
    <3>1. PICK k \in DOMAIN reputerAddrs : k <= page * maxReputers /\ reputerAddrs[k] = addr
      BY DEF StakesInv
    <3>2. k \in Nat
      BY DEF TypeOK
    <3>3. k <= (page + 1) * maxReputers
      BY <1>0, <2>2, <3>1, <3>2
    <3> QED BY <3>1, <3>3
  <2>4. ASSUME NEW i \in PageIndices(page)
        PROVE  i \in DOMAIN reputerAddrs /\ i <= (page + 1) * maxReputers
    <3>1. /\ i \in Int /\ page * maxReputers + 1 <= i
          /\ i <= (page + 1) * maxReputers /\ i <= Len(reputerAddrs)
      BY <1>0, <2>2 DEF PageIndices, Lesser
    <3>2. i \in 1..Len(reputerAddrs)
      BY <1>0, <2>2, <3>1
    <3>3. DOMAIN reputerAddrs = 1..Len(reputerAddrs)
      BY DEF TypeOK
    <3> QED BY <3>1, <3>2, <3>3
  <2> QED BY <2>1, <2>3, <2>4 DEF StakesInv
<1>4. CASE \/ StakeQueryFails \/ EndOfStakePages \/ VisitBlock \/ VotePanics
           \/ EndCurrentVote \/ EndEvalVote \/ GiveUp \/ FilterPanics \/ Compose
           \/ UNCHANGED vars
  <2>1. /\ UNCHANGED <<page, maxReputers, reputerAddrs, stakesPerReputer>>
        /\ pc' \in {"results", "params"} => pc \in {"results", "params"}
    BY <1>4 DEF StakeQueryFails, EndOfStakePages, VisitBlock, VotePanics, EndCurrentVote,
                EndEvalVote, GiveUp, FilterPanics, Compose, Voting, vars, scanned, stakes
  <2> QED BY <2>1 DEF StakesInv
<1> QED BY <1>1, <1>2, <1>3, <1>4 DEF Next, Step, Terminated

(* The last reputer in the list has voted in a decided vote, so its stake  *)
(* has been read, and, since nobody is in the list twice, on its own page. *)
LEMMA DecisionNeedsEveryStake ==
  ASSUME TypeOK, BundleInv, TallyInv, DecidedInv, StakesInv, AttributionInv,
         Decided, useWeightedVote
  PROVE  Len(reputerAddrs) <= MaxStakeQueries * maxReputers
<1> DEFINE last == Len(reputerAddrs)
<1>0. /\ page \in Nat /\ maxReputers \in Nat /\ last \in Nat /\ MaxStakeQueries \in Nat
      /\ page <= MaxStakeQueries
  BY ReputerAssumption DEF TypeOK
<1>1. last \in DOMAIN reputerAddrs /\ last \in DOMAIN valueBundles
  BY DEF Decided, DecidedInv, BundleInv, TypeOK
<1>2. reputerAddrs[last] \in stakesPerReputer
  <2> DEFINE h == valueBundles[last].current
  <2>1. h \in Heights
    BY <1>1, OutputTyped DEF TypeOK
  <2>2. PICK i \in DOMAIN blockCurrentToReputer[h] : blockCurrentToReputer[h][i] = reputerAddrs[last]
    BY <1>1 DEF TallyInv
  <2>3. ~StakeMissing(blockCurrentToReputer[h])
    BY <2>1, <2>2 DEF DecidedInv, Reported
  <2> QED BY <2>2, <2>3 DEF StakeMissing
<1>3. PICK k \in DOMAIN reputerAddrs : k <= page * maxReputers /\ reputerAddrs[k] = reputerAddrs[last]
  BY <1>2 DEF StakesInv
<1>4. k = last
  <2>1. last \in DOMAIN valueBundles /\ k \in DOMAIN reputerAddrs
    BY <1>1
  <2> QED BY <1>3, <2>1 DEF AttributionInv, BundlesAttributed
<1>5. page * maxReputers <= MaxStakeQueries * maxReputers
  BY <1>0, ProductMonotone
<1>6. page * maxReputers \in Nat /\ MaxStakeQueries * maxReputers \in Nat
  BY <1>0, PageProduct
<1> HIDE DEF last
<1>7. last <= MaxStakeQueries * maxReputers
  BY <1>0, <1>3, <1>4, <1>5, <1>6
<1> QED BY <1>7 DEF last

(* A vote weighted by stake that goes on has read the parameters.          *)
ParamsInv ==
  pc \in {"voteCurrent", "voteEval", "compose", "filterPanicked", "sent"} /\ useWeightedVote
    => ~paramsErr

LEMMA ParamsPreserved ==
  ASSUME ParamsInv, [Next]_vars
  PROVE  ParamsInv'
  BY DEF ParamsInv, Next, Terminated, Step, SkipResult, RejectOutput, AcceptOutput, AtResult,
         EndOfResults, QueryParams, QueryStakePage, StakeQueryFails, EndOfStakePages,
         VisitBlock, VotePanics, EndCurrentVote, EndEvalVote, GiveUp, FilterPanics, Compose,
         Voting, vars, scanned, stakes, voting

(* What makes the handler panic.  A vote weighted by stake panics only     *)
(* with more reputers than the stake queries have room for, and never      *)
(* decides with so many.  The filter panics exactly for a kept bundle      *)
(* without a nonce.                                                        *)
THEOREM PanicsAreExplained == Spec => []PanicCauses
<1>1. Init => StakesInv /\ ParamsInv
  BY DEF Init, StakesInv, ParamsInv
<1>2. IInv /\ StakesInv /\ ParamsInv /\ [Next]_vars => StakesInv' /\ ParamsInv'
  BY StakesPreserved, ParamsPreserved DEF IInv
<1>3. IInv /\ AttributionInv /\ StakesInv /\ ParamsInv => PanicCauses
  <2> SUFFICES ASSUME IInv, AttributionInv, StakesInv, ParamsInv PROVE PanicCauses
    OBVIOUS
  <2>1. VotePanicsOnlyBeyondCapacity /\ FilterPanicsExactlyWithoutNonce
    BY DEF IInv, DecidedInv, SentInv
  <2>2. ASSUME Decided, useWeightedVote PROVE ~paramsErr /\ ~BeyondCapacity
    <3>1. Len(reputerAddrs) <= MaxStakeQueries * maxReputers
      BY <2>2, DecisionNeedsEveryStake DEF IInv
    <3>2. Len(reputerAddrs) \in Nat /\ MaxStakeQueries * maxReputers \in Nat
      BY ReputerAssumption, PageProduct DEF IInv, TypeOK
    <3> QED BY <2>2, <3>1, <3>2 DEF ParamsInv, Decided, BeyondCapacity
  <2> QED BY <2>1, <2>2 DEF PanicCauses, StakeDecidesOnlyWithinCapacity
<1> QED BY <1>1, <1>2, <1>3, Invariance, Attribution, PTL DEF Spec

-----------------------------------------------------------------------------
(* The refinement of the submission both kinds of leaders promise.         *)

HeardHeights == {valueBundles[k].current : k \in DOMAIN valueBundles}

LEMMA InitSubmits == Init => Submission!Init
  BY DEF Init, Submission!Init

(* A kept bundle is heard.                                                 *)
LEMMA AcceptOutputIsHeard ==
  ASSUME TypeOK, SentInv, AcceptOutput
  PROVE  Submission!Hear
<1> DEFINE out == results[next].out
<1>1. /\ valueBundles' = Append(valueBundles, out)
      /\ out \in Outputs /\ Usable(out)
      /\ pc = "results" /\ pc' = pc /\ sent' = sent /\ sent = {}
  BY ResultsTyped DEF TypeOK, SentInv, AcceptOutput, AtResult
<1>2. out.current \in Heights
  BY <1>1, OutputTyped
<1> HIDE DEF out
<1>3. HeardHeights' = HeardHeights \cup {out.current}
  <2>1. valueBundles \in Seq(Outputs)
    BY DEF TypeOK
  <2>2. /\ DOMAIN valueBundles' = DOMAIN valueBundles \cup {Len(valueBundles) + 1}
        /\ valueBundles'[Len(valueBundles) + 1] = out
        /\ \A k \in DOMAIN valueBundles : valueBundles'[k] = valueBundles[k]
    BY <1>1, <2>1
  <2> QED BY <2>2 DEF HeardHeights
<1>4. out \in UsableOutputs
  BY <1>1 DEF UsableOutputs
<1> QED BY <1>1, <1>2, <1>3, <1>4 DEF HeardHeights, Submission!Hear, Submission!Open

LEMMA ComposeSubmits ==
  ASSUME TypeOK, TallyInv, DecidedInv, SentInv, Compose
  PROVE  Submission!Submit
<1>1. PICK k \in DOMAIN valueBundles : valueBundles[k].current = blockCurrentHeight
  BY DecidedHeightIsReported DEF Compose, Decided
<1>2. /\ pc = "compose" /\ pc' = "sent"
      /\ sent = {} /\ blockCurrentHeight \notin {-1}
      /\ sent' = {[nonce |-> blockCurrentHeight, topic |-> Topic, bundles |-> valueBundles]}
      /\ UNCHANGED valueBundles
  BY DEF Compose, SentInv, scanned
<1> QED BY <1>1, <1>2 DEF Submission!Submit, Submission!Open

(* Without a payload: the height -1 was heard, or a bundle has no nonce.   *)
LEMMA NothingComposed ==
  ASSUME TypeOK, TallyInv, DecidedInv, SentInv, GiveUp \/ FilterPanics
  PROVE  Submission!StaySilent \/ Submission!Panic
<1>1. PICK k \in DOMAIN valueBundles : valueBundles[k].current = blockCurrentHeight
  BY DecidedHeightIsReported DEF GiveUp, FilterPanics, Decided
<1>2. pc = "compose" /\ sent = {} /\ UNCHANGED <<sent, valueBundles>>
  BY DEF GiveUp, FilterPanics, SentInv, scanned
<1>3. CASE GiveUp
  <2>1. -1 \in HeardHeights \cap {-1} /\ pc' = "notSent"
    BY <1>1, <1>3 DEF GiveUp, HeardHeights
  <2>2. HeardHeights \cap {-1} # {}
    BY <2>1
  <2> QED BY <1>2, <2>1, <2>2 DEF HeardHeights, Submission!StaySilent, Submission!Open
<1>4. CASE FilterPanics
  <2>1. HeardHeights # {} /\ pc' = "filterPanicked"
    BY <1>1, <1>4 DEF FilterPanics, HeardHeights
  <2> QED BY <1>2, <2>1 DEF HeardHeights, Submission!Panic, Submission!Open
<1> QED BY <1>3, <1>4

LEMMA NextSubmits ==
  ASSUME IInv, [Next]_vars
  PROVE  [Submission!Next]_(Submission!vars)
<1> USE DEF IInv, scanned, stakes, voting
<1>1. CASE AcceptOutput
  BY <1>1, AcceptOutputIsHeard DEF Submission!Next
<1>2. CASE Compose
  BY <1>2, ComposeSubmits DEF Submission!Next
<1>3. CASE EndOfResults
  <2>1. pc = "results" /\ sent = {} /\ UNCHANGED <<sent, valueBundles>>
    BY <1>3 DEF EndOfResults, SentInv
  <2>2. CASE reputerAddrs = <<>>
    <3>1. valueBundles = <<>> /\ pc' = "notSent"
      BY <1>3, <2>2 DEF EndOfResults, BundleInv, TypeOK
    <3> QED BY <2>1, <3>1 DEF Submission!Next, Submission!StaySilent, Submission!Open
  <2>3. CASE reputerAddrs # <<>>
    BY <1>3, <2>1, <2>3 DEF EndOfResults, Submission!vars
  <2> QED BY <2>2, <2>3
<1>4. CASE VotePanics
  <2>1. /\ Voting /\ pc' = "votePanicked" /\ UNCHANGED <<sent, valueBundles>>
        /\ sent = {} /\ valueBundles # <<>>
    BY <1>4 DEF VotePanics, Voting, SentInv, DecidedInv
  <2>2. 1 \in DOMAIN valueBundles
    BY <2>1 DEF TypeOK
  <2> QED BY <2>1, <2>2 DEF Voting, Submission!Next, Submission!Panic, Submission!Open
<1>5. CASE \/ SkipResult \/ RejectOutput \/ QueryParams \/ QueryStakePage \/ StakeQueryFails
           \/ EndOfStakePages \/ VisitBlock \/ EndCurrentVote \/ EndEvalVote
  <2>1. UNCHANGED <<sent, valueBundles>> /\ {pc, pc'} \cap Ends = {}
    BY <1>5 DEF SkipResult, RejectOutput, AtResult, QueryParams, QueryStakePage, StakeQueryFails,
                EndOfStakePages, VisitBlock, EndCurrentVote, EndEvalVote, Voting, Ends
  <2> QED BY <2>1 DEF Ends, Submission!vars
<1>6. CASE GiveUp \/ FilterPanics
  BY <1>6, NothingComposed DEF Submission!Next
<1>7. CASE UNCHANGED vars
  BY <1>7 DEF vars, Submission!vars
<1> QED BY <1>1, <1>2, <1>3, <1>4, <1>5, <1>6, <1>7 DEF Next, Step, Terminated

(* The reputer leader's handler is a submission, whatever fails on the     *)
(* way: one payload of all usable bundles under a height one of them       *)
(* reports, a panic, or silence without a bundle or with one of height -1. *)
THEOREM ReputerSubmission == Spec => ImplementsSubmission
  BY InitSubmits, NextSubmits, Invariance, PTL DEF Spec, ImplementsSubmission, Submission!Spec
=============================================================================
