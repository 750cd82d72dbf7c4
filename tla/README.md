# Verification of allora-inference-base

TLA+ models of the Allora node (`cmd/node`), TLC configurations that check them on
small instances, and TLAPS proofs of the properties that matter most for every
instance. Paths and line numbers refer to the repository; `PROJECT.json` maps
every definition to the lines it models.

## 1. The system

A node runs in one of two roles. A *head* takes execution requests over HTTP and
hands them to a cluster of *worker-role* nodes (each configured as `worker` or
`reputer`) through the b7s library. Each node of the cluster runs a WASM function,
signs the output with its chain key and returns it; the cluster reaches consensus
on the execution, and the node that leads it submits the aggregated results to the
Allora chain in one bulk message.

```
 client --HTTP--> head: createExecutor --b7s--> worker/reputer: AlloraExecutor.ExecuteFunction
                                                      |  (signed bundles)
                                                      v
        chain <-- SendDataWithRetry <-- SendWorkerModeData / SendReputerModeData
          ^                                           ^
          |                                           |  response callback, under resLoc
   registerWithBlockchain <-- NewAppChain <-- run / reconnection ticker
```

| component | state | operations | hard about it | what makes it correct |
|---|---|---|---|---|
| `SendDataWithRetry` | loop counter, named results | broadcast, sleep, return | lost acknowledgements, retries | bounded executions, none after an acknowledgement, bounded waiting |
| `SendWorkerModeData` | bundles, nonce | per result and peer: query, parse, check, keep | any query may fail, outputs of any kind, nonce from the first parse | the nonce speaks for the bundles; an unknown peer takes no other's bundle with it; no foreign inference; no silence while there is something to say |
| `SendReputerModeData` | address set, two parallel lists, two tallies, stake map | scan, page through stakes, vote twice, compose | map order, duplicates, failing queries, paging, whatever a peer wrote | one vote per reputer, attribution, a reported height with stake wins; a panic only of a vote beyond capacity or of a bundle without a nonce |
| `registerWithBlockchain` | nothing; the chain keeps registrations and stakes | per topic: query, balance, register, stake | crash and restart, repeated messages, partial failure | bounded stake, no stake for old topics, no topic left out |
| connection (`NewAppChain`, `connectToAlloraBlockchain`, ticker) | `appchain`, `err`, `alloraExecutor.appChain`, unlocked | connect, copy, test, use | four threads share three variables | a client is never lost; executor and run agree; a late chain is found |
| `ExecuteFunction` | locals, three counters | read environment, convert, sign | malformed, repeated and reordered variables; early returns | signed for the requested topic and sent heights; whole; no error with a signature |
| response callback, `sendResultsToChain` | lock `resLoc`, counters | lock, parse, gate, dispatch, unlock | concurrent responses, senders that outlive the callback | the lock is released on every path; only what the function of the node's own mode makes a payload of reaches the chain |
| `createExecutor`, `buildb7sTopic` | none | append topic, name the channel | three places cut a topic's name at fixed offsets | the node signs for the topic its leader submits for |
| life cycle of `run` | `done`, `failed`, `sig`, the deferred calls | open, connect, start, select, undo, exit | two closers of one channel, goroutines nobody waits for, interrupts at any time | the exit code tells why; interrupts end the process |
| `allora-keys`, `run.sh` | key files on the volume, their backup | restore, generate, back up | crash between two files, failing calls, lost volumes | key pairs are not mixed, a key in use is kept, a backup is whole and safe |

## 2. Modules

Each `M.tla` is one component; `MCM.tla` and `MCM.cfg` instantiate it for TLC,
`MProofs.tla` proves theorems about it. A configuration `MC<Property>.cfg` checks
the single property it is named after, which the code violates (section 6).

| module | source | how state and actions correspond |
|---|---|---|
| `BoundedDelivery` | abstract | what a call of the sender promises: `executed`, `returned` |
| `SendDataWithRetry` | `appchain.go` 307-327 | `pc` per call; `BroadcastTx` is the body to the `break`, `Backoff` the rest with the loop header. `err` is the named result, which the loop's own `err` hides. `acked`, `lost`, `slept` are history |
| `LeaderSubmission` | abstract | what either leader promises: it hears outputs, keeps some bundles, and ends once, with a payload of everything it kept under a height it heard (`Submit`), without one if it heard nothing or a height that stands for none (`StaySilent`), or, a reputer leader, in a panic (`Panic`) |
| `TopicStaking` | abstract | what registration does to the chain: a topic is registered once, and only then gets stake, for a time and up to a bound |
| `SendWorkerModeData` | `appchain.go` 330-401 | `next`, `peer` are the loop indices; one action per way an iteration ends; `EndOfResults` is the tail of the function. `nonce` is a set with at most one height (nil is `{}`) |
| `SendReputerModeData` | `appchain.go` 410-527, 530-647 | one action per way an iteration ends, per stake query, per key visited in a vote. A vote visits any remaining key: Go's map order. The tail of the function is `GiveUp` (the vote was won by -1), `FilterPanics` (a bundle without a nonce) or `Compose` |
| `ChainRegistration` | `appchain.go` 151-304 | `index` is the loop; one action per query outcome; messages are `Execute...` (the chain, any number of times up to the bound) and `...Returns`; `Crash` at any point |
| `ChainConnection` | `main.go` 91-101, 643-721, 776-793; `appchain.go` 80-149; `execute.go` 38-49 | `main`, `ticker`, `request` are the program counters of run, of the reconnection goroutine and of a request; `Connect` is the whole of a connection attempt, then `err` is tested and the client copied in steps of their own, because other threads run in between |
| `NodeLifecycle` | `main.go` 488-794 | extends `ChainConnection` with the rest of `run`: `phase` is where `run` stands, `opened` counts the resources whose closing is deferred, `nodeLoop` and `api` are goroutines, `sig` is the buffered channel of interrupts. `Close` is Go's `close`, which panics the second time |
| `TopicNames` | `execute.go` 56-67, 127-136; `main.go` 122-138 | a name is a form and a number; `buildb7sTopic`, `TopicId` and `NumTopicId` are the three ways the code cuts it |
| `AlloraExecutor` | `main.go` 109-486; `execute.go` 93-98 | one action per environment variable, per element converted, per early return; the request is what `createExecutor` makes of the client's |
| `LeaderPipeline` | `main.go` 680-691, 776-793; `execute.go` 38-79 | `pc` per response, `resLoc` the lock's holder, `sender` per response. What the function of either mode makes of the results is their outcome: `SendModeData` starts a sender or not, `ModeDataPanics` ends the process. Composes `BoundedDelivery` and takes the topic from the channel's name (`TopicNames`) |
| `KeyProvisioning` | `run.sh` 1-62, 88-92; `cmd/keys/main.go` 53-118 | `pc` is the script's place, `next` the file of the current loop; a written file is truncated and filled in two steps, a decrypted one too; `Crash` and `LoseVolume` are the container's |

How they compose. `SendDataWithRetry` is shown to implement `BoundedDelivery`
(run `retry`, theorem `Refinement`). The modules that send messages then use only
that promise: `LeaderPipeline` instantiates `BoundedDelivery` for its senders, and
`ChainRegistration` takes a message as "executed up to the bound, then returned".
`SendWorkerModeData` and `SendReputerModeData` are both shown to implement
`LeaderSubmission` (`ImplementsSubmission`): the nested loops of the one, and the pages
and votes of the other, are steps of the same few actions, the reputer's panic
included. `ChainRegistration` is shown to implement `TopicStaking`: the abstract module
has no runs, crashes or attempts, so the refinement says that all runs of the node
together treat a topic as one run would.
That the error of a call is nil in every case, which `ChainRegistration` uses to
leave out two branches, is what run `nil_error_not_ack` shows. `LeaderPipeline`
takes from `ChainConnection` that a client, once there, stays (`ClientKept`).
`NodeLifecycle` interleaves the threads of `ChainConnection` with the rest of the
process; that each of its steps is one of `ChainConnection` or leaves its variables
alone is the theorem `LifecycleImplementsConnection`, which carries what is proved of
the connection over to the whole process. `TopicNames` is what the head
(`RequestEnvironment` in `AlloraExecutor`), the workers and the leader
(`LeaderPipeline`) share. `PayloadsAreBoundedDeliveries` proves that the pipeline's
payloads implement `BoundedDelivery`, whatever the interleaving.

### Abstractions

* Data is what the properties tell apart: an output is its kind, topic and
  heights; a decimal is one with a logarithm, one without, or no number; a
  signature is the fact that a bundle was signed.
* External, and nondeterministic: every chain query may fail; a broadcast is
  acknowledged, rejected, or executed without acknowledgement; the link goes up
  and down; the keyring may refuse; the WASM function returns anything.
* Assumed of the outside: a message that executes does so before
  the call that broadcast it returns, or the node crashes; a stake query returns an amount for every
  address it was asked for; the chain rejects a registration that exists or
  cannot be paid and a stake without registration or funds. A panic in a handler
  ends the process, which is Go's rule for goroutines nobody recovers.
* An output is what a peer wrote, not what this code's executor would have written: a
  height may be -1 or missing, a reputer's bundle may have no nonce, or another height
  in it than the one beside it. An output that was not signed has no bundle.
* Topic names: a number, a number with `/reputer`, `-reputer` or `reputer` behind it,
  `reputer` behind or without a number, and any other text. The prefix and the suffix
  that `buildb7sTopic` adds are cut off again by length and are left out. That is exact for
  the names this function makes; the leader's slice (`execute.go` 59) would panic for a
  channel shorter than they are, which no head of this code asks for.
* Keys: a file is absent, empty (truncated, or torn) or of one key pair. The node's
  key is the one in `/app/keys`. Left out: a wrong password, other files in the
  directory, and encrypted copies a crash leaves behind. A generated key pair is new.
* Life cycle: what a goroutine does with a database after `run` has closed it is a
  panic or nothing; the limiter, the host and the API's server only start, fail, end.
* Integers: the products of the stake paging stay far below 2^64 for the page
  limits a chain serves; heights and topics are compared only.

## 3. Runs

The number is that of distinct states; the longest run takes about a minute.

| run | instance | states | shows |
|---|---|---|---|
| `retry` | one call, the constants of workers and reputers (5 retries, 0-2 s) | 2,873 | executions bounded by 6 and by losses + 1; nothing after an acknowledgement; no giving up before all six broadcasts; pauses within the doubling bound; refinement of `BoundedDelivery` |
| `worker` | up to three results over 4 peers, 8 outputs of five kinds, heights -1 to 1, two topics | 57,346 | agreement is sent; each known peer's usable bundle is sent once, whichever peers are unknown; refinement of `LeaderSubmission`, so silence only without output |
| `reputer` | three results, four peers of three reputers (two peers share one), duplicates, results with no and with two peers, one output without a nonce or of height -1, stakes 0 and 1, page limits 1 and 2 with two pages | 1,003,110 | one vote per reputer, attribution, a powered height wins; what panics: the vote by stake exactly beyond the pages' capacity, the filter exactly for a bundle without a nonce; refinement of `LeaderSubmission`, so a reported height, and no giving up but for -1 |
| `registration` | reputer, two topics, one listed twice, one not a number, 4 stake attempts, two crashes, balances 0 to 20 | 5,429 | old topics untouched, every topic accounted for; refinement of `TopicStaking`, so one registration, and one bounded time of staking, per topic |
| `connection` | a head and a worker, all key configurations, a known and an unknown mode, link changing freely, three interrupts | 114,526 | client kept, executor follows, late chain is found, exit code tells why, interrupts end the process |
| `executor` | up to three client variables out of eight in any order, with the head's topic in five forms or missing; four outputs per mode; three modes | 577,361 | signed for the right topic and heights, whole and at one scale, never with an error |
| `pipeline` | three responses out of six messages over three channels, either mode, bound 2 | 483,624 | lock discipline, every response handled, only payloads of the node's own mode executed and counted |
| `keys` | three starts, three key pairs, no, plain and encrypted backup, two failing calls, crashes and lost volumes at will | 197,197 | no mixed pairs, whole restore, key in use kept, one failure harms no backup |

Why the bounds are enough. `reputer`: with two pages of size 1 three reputers
exceed the capacity, with size 2 they do not, and the last page is partial; two
heights and three voters give every tie and every split; one odd output, a bundle
without a nonce or a height -1, is enough to win a vote or to panic, and at most one
of the three results has it; one reputer with two
peers and a repeated peer are the two ways to vote twice. `worker`: three outputs
give a first, a middle and a last one around a rejected one, and the result with two
peers has an unknown one before a known one; -1 and 0 are the heights that stand for
none elsewhere. `registration`: a
crash at any point of a run and again in the next; the repeated topic meets its
own registration in the same pass; balances fail at the fee, at the stake, at
both, at neither. `retry` uses the real constants; calls do not share state, so
one call is checked and the theorems cover any number. `executor`: three
variables suffice for a variable before, between and after two others of any
name, and for repetition. `pipeline`: three responses give a holder, a waiter and
one whose callback has ended while its sender runs; the six messages are all the ways
a callback ends, on a channel of either mode or of no number. `connection`: three interrupts
give one that is taken, one the channel holds and one it drops. `keys`: three starts
give a first one, one after a crash and one that meets what that left; two failing
calls are the fewest that can overwrite a good backup.

Bounds that are not in the code: `MaxCrashes`, `MaxStarts`, `MaxFailures`,
`MaxInterrupts`, the sizes of the inputs, and
`Bound` and `StakingAttempts`, which the code fixes (retries + 1).

Deadlock is checked in every run: a system that is done stutters explicitly.

## 4. Fairness

* `NodeLifecycle`: weak fairness of run's steps up to and with its select, of the
  ticker's, and of the goroutine that waits for another interrupt. A goroutine that
  can run is run, the ticker ticks, and the calls of the start, connection attempts
  among them, return. Nothing is assumed of the deferred calls, which may hang, of
  requests, interrupts, the node's loop, the API or the link;
  `ReconnectsAfterFailedStart` speaks of runs in which the link stays up from some
  time on, `InterruptEndsProcess` of those in which an interrupt comes.
* `LeaderPipeline`: weak fairness of taking the lock, of each handler's steps and of a
  sender's return. Go's mutex hands a starving waiter the lock, and there are
  finitely many responses; a sender returns because its pauses are bounded
  (`SleepWithinBackoff`). Handlers' chain queries are assumed to come back: their context
  has no deadline, so this rests on the RPC client. Responses need not arrive and
  the chain need not execute anything.

The other modules are terminating functions and have no liveness properties.

## 5. Proofs

TLAPS proves, for all values of the constants that satisfy the modules' named
assumptions (only the set of responses of `LeaderPipeline` is required to be finite):

| module | theorem | states |
|---|---|---|
| `SendDataWithRetryProofs` | `TypeCorrect`, `ExecutionsAreBounded`, `NoEarlyGiveUp`, `AckIsFinal`, `SleepStaysWithinBackoff`, `Refinement`; `CallsRunOut` | all properties of the run; and that every step of a call lowers a natural number no other step raises |
| `SendReputerModeDataProofs` | `TypeCorrect`, `SentHeightIsReported`, `PowerDecides`, `PanicsAreExplained`, `GivesUpOnlyForMinusOne`, `BundlesHaveTheirReputer`, `OneVoteEachReputer`, `ReputerSubmission`, `UnanimityIsSafe` | all properties of the run; that the nonce is the height of a bundle in the payload, and that the handler is silent only without bundles or for a height -1; how far a disagreement reaches (section 6) |
| `SendWorkerModeDataProofs` | `TypeCorrect`, `AgreementReachesTheChain`, `NoForeignInference`, `SilenceMeansNothingParsed`, `NoKnownPeerIsLost`, `WorkerSubmission` | all properties of the run; that no inference for another topic is sent, and that the leader is silent only if nothing parsed |
| `ChainRegistrationProofs` | `TypeCorrect`, `StakeIsBoundedAcrossCrashes`, `NoTopicLeftOut`, `OldTopicsKeepTheirStake`, `RegistrationStakesOnce` | all properties of the run; the bound on a topic's stake, whatever the number of crashes |
| `ChainConnectionProofs` | `TypeCorrect`, `ExecutorAndNodeShareClient`, `ClientIsNeverLost`, `SettledStartIsSound`; `LifecycleImplementsConnection`, `LifecycleTypeCorrect`, `ExitCodeIsRight`, `ProcessKeepsItsClient` | all safety properties of the run, first of the connection alone and then of the whole process; how far a disagreement reaches (section 6) |
| `KeyProvisioningProofs` | `TypeCorrect`, `KeyPairsAreNotMixed`, `BackupIsRestored`, `RunningKeySurvives`, `IdentityStays`, `CompleteBackupStays` | all properties of the run; and that, until a call fails, a node runs under a new key pair only if the backup has no other private key, and its volume was lost or it never ran |
| `LeaderPipelineProofs` | `TypeCorrect`, `LockIsReleased`, `ChainSeesPayloadsOfModeOnly`, `PayloadsAreBoundedDeliveries` | the safety properties of the run, and the refinement of `BoundedDelivery` |
| `AlloraExecutorProofs` | `TypeCorrect`, `SignedForChannelsTopic`, `SignedForHeightsSent`, `SignedIsWhole`, `ErrorKeepsOutput` | all properties of the run |

None of the properties is inductive. The strengthenings (`IInv` in each module):

* *Sender.* `BroadcastsCounted` ties executions to the loop counter and `pc`;
  `AckedOnce` says that all executions but the acknowledged one have lost their
  acknowledgement. `SleepWithinBackoff` is inductive by itself: a pause of
  d <= MaxDelay units of `1 << retryCount` adds what doubling the bound allows.
  `StepsLeft` is the loop's variant (`EveryStepCounts`, an action property): termination
  itself is liveness, but that a call has finitely many steps is not.
* *Reputer leader.* `BundleInv` and `TallyInv` tie the tallies to the parallel
  lists in both directions: everybody in a tally is somebody's bundle at that
  height, and no bundle's reputer is missing from the current tally. `PageInv`
  says that the pages read so far cover a prefix of the list, so that when the
  loop ends within capacity every voter has a stake. `StakesInv` is the converse: no
  stake is read but those of the pages; a decided vote has read the stake of the last
  reputer in the list, and since nobody is in the list twice it read it on that
  reputer's own page, so the list is within capacity. The two make the capacity exact,
  and with `SentInv` (no payload has a bundle without a nonce) they say what panics
  (`PanicsAreExplained`); `ParamsInv` has no vote by stake after a failed parameter
  query. `VoteInv` is the loop
  invariant of the vote over an unordered set of keys (the front runner is a
  visited key and has power if a visited key has); `DecidedInv` keeps its
  conclusion after the vote. `OneVoteEach` says that a tally is an injective image
  of the list of reputers, and `AttributionInv` that nobody in the list is outside
  the set of addresses seen, which is why an accepted address casts its first vote.
  For the refinement of `LeaderSubmission` the heights of the kept bundles are those
  heard; `SentInv` has nothing sent before the end, and `DecidedInv` makes the height
  that is sent one of them (`DecidedHeightIsReported`).
* *Worker leader.* `NonceInv` (the nonce is the first parsed output's height),
  `BundleInv` (each bundle is a usable parsed output), `SentInv`. `KnownInv` counts: of each usable
  output there are as many bundles as peers asked so far that the chain knows and that
  gave it; the peers asked (`Asked`) grow by one with each turn of the inner loop, and
  at the end they are all there are (`NoKnownPeerIsLost`). In the refinement
  every parsed output is heard, the unusable ones too: the nonce may be theirs.
* *Registration.* `StakeAccounted`: stake stands only where the node is
  registered, so what a call adds it adds to zero, once per execution; with
  `OldTopicsPassed` this bounds the stake across any number of runs. The refinement of
  `TopicStaking` maps the time for staking to `StakingTopic`: the topic whose call is
  running, if the chain has registered it. A crash, a failure or the end of the call
  closes that time, and it cannot open again because the topic is then registered.
  `PassedTopicsAccounted` is the loop invariant over the configured ids.
* *Connection.* `OneConnectsAtATime`: a connection attempt runs only while there is
  no client; `ExecutorFollows`: the executor's client is nil or run's;
  `OnlyNodeErrHidesClient`: the ticker skips its copy only for an error of
  `node.New`, with which run ends.
* *Life cycle.* `ClosersInv`: which goroutines can have closed which channel, so that
  a second close needs both the node's loop and the API to have ended; `SignalInv`:
  an interrupt in the channel was not yet taken, so two of them are behind an exit
  that was forced after a first.
* *Keys.* As long as no call has failed: `IdentityFirst` (a volume or a backup
  with a private key has an identity file, and a volume with one is of one pair), `RestoreInv` and `KeysInv` (the loop invariants of the restore and of
  allora-keys, which runs only while the backup is empty), `UploadInv` (a backup is
  a prefix of the listing, so the identity is in it first). `IdentityStays` follows from
  `RanInv` and from backup and volume sharing one key pair. `CompleteBackupStays`
  needs only types and the counter of failures.
* *Pipeline.* `CheckedInv` and `SenderInv` carry what was checked under the lock to
  the sender that outlives it; `CountedInv` bounds the commits of the node's own
  mode by the cardinality of the dispatched responses and has none of the other.
* *Executor.* `EnvInv` is the loop invariant over the variables read: what was found
  was sent, and the head's topic is the last one to be found; `FoundInv` keeps it,
  `ConvertedInv` is the loop invariant of the conversion: what is converted so
  far, heads and elements, is converted whole and at one scale (`Whole`). `NamesAgree` says that a
  name with a number in it is cut to the same number on both ways.

Only model-checked: liveness (`ReconnectsAfterFailedStart`, `InterruptEndsProcess`,
`EveryResponseHandled`), which is outside the prover's reach, and the four
disagreements of the next section.

## 6. Where the code and its texts disagree

Four disagreements have a run of their own: a single property that says what the
text says, and that TLC violates. `PROJECT.json` "findings" quotes the texts.

| run | disagreement |
|---|---|
| `nil_error_not_ack` | the loop's `err` hides the named result: total failure returns nil, and the callers' error branches are dead |
| `vote_keeps_last` | `highestVotingPower` is never assigned: the last height with power wins |
| `unfiltered_bundles` | the filtered list of bundles is not the one that is sent |
| `shared_err` | the ticker overwrites the `err` run checks after `node.New` |

How far three of them reach is proved, so that a reader knows what rests on them:

* `nil_error_not_ack`: a nil error without an acknowledgement means that all
  MaxRetries + 1 broadcasts were made (`NoEarlyGiveUp`).
* `unfiltered_bundles`: it takes reputers who disagree, or a bundle that disagrees with
  itself; a payload whose bundles report one height, in the nonce and beside it, has
  that height for its nonce (`UnanimityIsSafe`).
* `shared_err`: it takes a start without the chain and a ticker that tries again. With a
  client, or no ticker, when the node is built, run decides by the error of `node.New`
  (`SettledStartIsSound`, an implication between two temporal formulas: the hypothesis
  is about every state of the run in which the node is about to be built).

For the fourth, `vote_keeps_last`, `PowerDecides` is what remains true: the winner has
power if any height has. That it then has the highest if it is the only one is
arithmetic on sums, whose type is an induction over data and not proved.

Others were met while modelling. The models have the code's behaviour, and no run
is spent on them because one step shows each:

* `appchain.go` 454: a failed parameter query alone makes the vote unweighted
  (`EndOfStakePages`), though the log says the stakes could not be read.
* `appchain.go` 613: the pointers down to the bundle are tested (569, 573), the two
  below it, to its nonce, are not: a kept bundle without one ends the process after the
  vote (`FilterPanics`). No text claims otherwise.
* `appchain.go` 355: the worker's nonce is set before the bundle is checked, so a
  payload without a bundle can be sent (`ParsedOutput`, and `PayloadDue` in the
  pipeline); 367: the topic is not
  checked without an inference (`Usable`).
* `appchain.go` 281: the stake follows a registration that never executed, is
  repeated after a lost acknowledgement, and is applied per topic while
  `README.md` 93 calls it cross-topic (`RegisterReturns`, `ExecuteAddStake`).
* `appchain.go` 300: a crash between registration and stake (`RegisterReturns`) leaves
  the topic registered and without stake for good, since the next run finds it
  registered and does nothing; `flags.go` 65 says the stake is used upon registering.
* `keys/main.go` 101, 108: a crash between the identity file and the private key on a
  first start (`FillFile`, then `CheckIdentity`) makes every later start say "Node
  restored from backup" (`run.sh` 51) and fail for want of a key.
* `main.go` 786: "If we receive a second interrupt signal, exit immediately.": after
  `done` the first interrupt already does it, and after `failed` nobody listens for
  one (`Forces`).
* `main.go` 490: the "clean shutdown" closes the databases while the node's loop still
  uses them (`NodeUsesClosedDatabase`).
* `README.md` 53 and 75 start a worker with `--topic=1`, while the head sends requests
  for topic 1 to `allora-topic-1-worker` (`buildb7sTopic`).
* `main.go` 661: a broken connection is not reconnected (`NeedsReconnect`), against
  `flags.go` 64; 99: `SubmitTx` is set again without an address (`SubmitTxSet`).
* `main.go` 244: the public key is read before the signing error (`SignFails`); 475: a
  reputer's response is counted as a worker's (`Sign`).
* `execute.go` 72: a commit is counted without a payload (`SendModeData`).

## 7. Not modelled

* *b7s, libp2p, the consensus, the chain, the keyring*: not in this repository; they
  are the environment, as far as the code sees them.
* *The HTTP answer of the head*: the conversion of what the cluster returned.
* *Flags, roles, addresses*: stateless parsing; the values are CONSTANTS and the
  configuration variables of the models.
* *Logging, metrics export, encoding*: pure output. The counters themselves are state.

Modelled, but excused by the properties because nothing in the repository promises
otherwise: a second close of `done` or `failed` and the use of a closed database, which
may end the process in a panic (`ExitCodeTellsWhy` names both), and an interrupt after
`failed`, which nobody takes (`InterruptEndsProcess` leaves that path out).

## 8. Plan

1. Done: every component with state of its own is modelled, and every safety property
   and every refinement a run checks is proved.
2. Next: a system of several processes, one leader and the workers it leads, in which
   the crash of the leader's process (`LeaderPipeline`), its restart (`NodeLifecycle`)
   and its registration (`ChainRegistration`) meet.
3. Next: `LeaderPipeline` with `LeaderSubmission` in the place of its `SendModeData`, so
   that what the chain executes is traced back to the outputs the leader heard.
