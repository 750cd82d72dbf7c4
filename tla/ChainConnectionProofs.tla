----------------------- MODULE ChainConnectionProofs -----------------------
(* Proofs about ChainConnection for every set of key configurations, roles *)
(* and worker modes, with and without a reconnection interval, and about   *)
(* NodeLifecycle for any number of interrupts, by way of a refinement: the *)
(* life cycle does nothing to the connection that ChainConnection does not *)
(* do.                                                                     *)
EXTENDS NodeLifecycle, TLAPS

(* The ticker is started when run has connected, and goes on to connect    *)
(* only while there is no client.                                          *)
OneConnectsAtATime ==
  /\ main \in {"connect", "setExecutor"} => ticker = "off"
  /\ main = "connect" => appchain = None
  /\ ticker = "connect" => appchain = None

(* The executor has no client but run's.                                   *)
ExecutorFollows ==
  /\ main \in {"connect", "setExecutor"} => executorChain = None
  /\ executorChain # None => executorChain = appchain

(* The ticker loses a client for the executor only to an err of node.New,  *)
(* with which run ends.                                                    *)
OnlyNodeErrHidesClient ==
  /\ ticker = "checkErr" /\ appchain # None /\ err # "nil" =>
       main \in {"checkErr", "failed"}
  /\ ticker \in {"off", "wait", "connect"} /\ executorChain # appchain =>
       \/ main \in {"connect", "setExecutor"}
       \/ main \in {"checkErr", "failed"} /\ err # "nil"

RequestHasClient == request = "sign" => executorChain # None

IInv ==
  /\ TypeOK
  /\ OneConnectsAtATime
  /\ ExecutorFollows
  /\ OnlyNodeErrHidesClient
  /\ RequestHasClient

-----------------------------------------------------------------------------
LEMMA ConnectReturns ==
  /\ connectToAlloraBlockchain \in Clients \cup {None}
  /\ NewAppChainErr \in {"nil", "error"}
  /\ connectToAlloraBlockchain # None => NewAppChainErr = "nil"
<1>1. NewAppChain # None =>
        /\ SubmitTxSet(NewAppChain) \in Clients
        /\ link # "down"
  BY DEF NewAppChain, SubmitTxSet, Clients
<1> QED BY <1>1 DEF connectToAlloraBlockchain, NewAppChainErr

LEMMA InitIInv == Init => IInv
  BY ConnectionAssumption
     DEF Init, IInv, TypeOK, OneConnectsAtATime, ExecutorFollows, OnlyNodeErrHidesClient,
         RequestHasClient

LEMMA NextIInv == IInv /\ [Next]_vars => IInv'
<1> SUFFICES ASSUME IInv, [Next]_vars PROVE IInv'
  OBVIOUS
<1> USE ConnectReturns DEF IInv, TypeOK, OneConnectsAtATime, ExecutorFollows,
        OnlyNodeErrHidesClient, RequestHasClient, config
<1>1. CASE MainConnects
  BY <1>1 DEF MainConnects, Connect
<1>2. CASE MainSetsExecutor
  BY <1>2 DEF MainSetsExecutor
<1>3. CASE NodeNew
  BY <1>3 DEF NodeNew
<1>4. CASE MainChecksErr
  BY <1>4 DEF MainChecksErr
<1>5. CASE Tick
  <2>1. appchain = None
    BY <1>5 DEF Tick, NeedsReconnect, Clients
  <2> QED BY <1>5, <2>1 DEF Tick
<1>6. CASE TickerConnects
  BY <1>6 DEF TickerConnects, Connect
<1>7. CASE TickerChecksErr
  BY <1>7 DEF TickerChecksErr
<1>8. CASE TickerSetsExecutor
  BY <1>8 DEF TickerSetsExecutor, ExecutorChainNext
<1>9. CASE RequestFindsClient
  BY <1>9 DEF RequestFindsClient
<1>10. CASE RequestSigns
  BY <1>10 DEF RequestSigns
<1>11. CASE LinkChanges
  BY <1>11 DEF LinkChanges
<1>12. CASE ProcessEnds("exited") \/ ProcessEnds("crashed")
  BY <1>12 DEF ProcessEnds
<1>13. CASE UNCHANGED vars
  BY <1>13 DEF vars
<1> QED
  BY <1>1, <1>2, <1>3, <1>4, <1>5, <1>6, <1>7, <1>8, <1>9, <1>10, <1>11, <1>12, <1>13
     DEF Next, RunSteps, TickerSteps, Ended

-----------------------------------------------------------------------------
(* The invariant holds in every reachable state.                           *)
THEOREM Invariance == Spec => []IInv
  BY InitIInv, NextIInv, PTL DEF Spec

(* Every variable keeps its type; a client in use always has SubmitTx set. *)
THEOREM TypeCorrect == Spec => []TypeOK
<1>1. IInv => TypeOK
  BY DEF IInv
<1> QED BY <1>1, Invariance, PTL

(* A running node signs with the client it submits with.                   *)
THEOREM ExecutorAndNodeShareClient == Spec => []ExecutorHasClient
<1>1. IInv => ExecutorHasClient
  BY DEF IInv, OnlyNodeErrHidesClient, ExecutorHasClient, NodeRuns
<1> QED BY <1>1, Invariance, PTL

(* No reconnection replaces or removes a client.                           *)
THEOREM ClientIsNeverLost == Spec => ClientKept
<1> DEFINE Kept == /\ appchain # None => appchain' = appchain
                   /\ executorChain # None => executorChain' = executorChain
<1>1. IInv /\ [Next]_vars => [Kept]_vars
  <2> SUFFICES ASSUME IInv, Next PROVE Kept
    BY DEF vars
  <2> USE DEF IInv, OneConnectsAtATime, ExecutorFollows, config
  <2>1. CASE MainConnects \/ TickerConnects
    BY <2>1 DEF MainConnects, TickerConnects, Connect
  <2>2. CASE MainSetsExecutor \/ TickerSetsExecutor
    BY <2>2 DEF MainSetsExecutor, TickerSetsExecutor, ExecutorChainNext
  <2>3. CASE appchain' = appchain /\ executorChain' = executorChain
    BY <2>3
  <2> QED
    BY <2>1, <2>2, <2>3 DEF Next, RunSteps, TickerSteps, NodeNew, MainChecksErr, Tick,
      TickerChecksErr, RequestFindsClient, RequestSigns, LinkChanges, ProcessEnds, Ended, vars
<1> QED BY <1>1, Invariance, PTL DEF Spec, ClientKept

(* Only a reconnection can take err from run between node.New and the      *)
(* check: with a client, or without a ticker, run goes by node.New.        *)
THEOREM SettledStartIsSound == Spec => SettledStartDecides
<1> DEFINE Settled == appchain # None \/ ticker = "off"
           Checked ==
             /\ main = "checkErr" => Settled /\ (err = "nil" <=> nodeBuilt)
             /\ NodeCheckDecides
<1>1. Init => Checked
  BY DEF Init, NodeCheckDecides
<1>2. IInv /\ SettledBeforeNode /\ Checked /\ [Next]_vars => Checked'
  <2> SUFFICES ASSUME IInv, SettledBeforeNode, Checked, [Next]_vars PROVE Checked'
    OBVIOUS
  <2> USE DEF IInv, TypeOK, OneConnectsAtATime, NodeCheckDecides
  <2>1. CASE NodeNew
    BY <2>1 DEF NodeNew, SettledBeforeNode
  <2>2. CASE MainChecksErr
    BY <2>2 DEF MainChecksErr
  <2>3. CASE MainConnects
    BY <2>3 DEF MainConnects, Connect
  <2>4. CASE TickerConnects
    BY <2>4 DEF TickerConnects, Connect
  <2>5. CASE MainSetsExecutor
    BY <2>5 DEF MainSetsExecutor
  <2>6. CASE Tick \/ TickerChecksErr \/ TickerSetsExecutor
    BY <2>6 DEF Tick, TickerChecksErr, TickerSetsExecutor
  <2>7. CASE \/ RequestFindsClient \/ RequestSigns \/ LinkChanges
             \/ ProcessEnds("exited") \/ ProcessEnds("crashed") \/ UNCHANGED vars
    BY <2>7 DEF RequestFindsClient, RequestSigns, LinkChanges, ProcessEnds, vars
  <2> QED BY <2>1, <2>2, <2>3, <2>4, <2>5, <2>6, <2>7
          DEF Next, RunSteps, TickerSteps, Ended
<1>3. Checked => NodeCheckDecides
  OBVIOUS
<1> QED BY <1>1, <1>2, <1>3, Invariance, PTL DEF Spec, SettledStartDecides

-----------------------------------------------------------------------------
(* The life cycle.                                                         *)

LEMMA LifecycleInitMaps == LifecycleInit => Init
  BY DEF LifecycleInit

LEMMA LifecycleStepMaps == [LifecycleNext]_lifecycleVars => [Next]_vars
<1> SUFFICES ASSUME LifecycleNext, vars' # vars PROVE Next
  BY DEF lifecycleVars
<1>1. CASE RunConnects \/ OthersGoOn
  BY <1>1 DEF RunConnects, OthersGoOn, Next
<1>2. CASE NodeDone \/ NodeFails \/ APIFails \/ NodeUsesClosedDatabase \/ ForceExit \/ Exit
  BY <1>2 DEF NodeDone, NodeFails, APIFails, NodeUsesClosedDatabase, ForceExit, Exit, Close, Next
<1>3. CASE Open \/ StartNode \/ StartAPI \/ Interrupt \/ Select \/ RunDeferred
  BY <1>3 DEF Open, StartNode, StartAPI, Interrupt, Select, RunDeferred
<1>4. CASE LifecycleEnded
  BY <1>4 DEF LifecycleEnded, lifecycleVars
<1> QED
  BY <1>1, <1>2, <1>3, <1>4 DEF LifecycleNext

(* Whatever run, its signals and its deferred calls do, the connection is  *)
(* used as ChainConnection says: all that is proved of it holds in a       *)
(* process that starts, shuts down and ends this way.                      *)
THEOREM LifecycleImplementsConnection == LifecycleSpec => Spec
  BY LifecycleInitMaps, LifecycleStepMaps, PTL DEF LifecycleSpec, Spec

-----------------------------------------------------------------------------
(* Where the goroutines are, and who has closed which channel.             *)
ClosersInv ==
  /\ phase \in {"opening", "connecting", "starting"} => nodeLoop = "off"
  /\ phase \in {"opening", "connecting", "starting", "startingAPI"} => api = "off"
  /\ done => nodeLoop = "ended"
  /\ failed => nodeLoop = "ended" \/ api = "ended"
  /\ done => ~failed \/ api = "ended"

(* An interrupt is in the channel, was taken by run, or was dropped.       *)
SignalInv ==
  /\ sig => interrupts >= 1
  /\ selected = "sig" => interrupts >= 1
  /\ sig /\ selected = "sig" => interrupts >= 2
  /\ selected = "done" => done
  /\ selected = "failed" => failed
  /\ selected # "none" => phase = "closing"

CodeInv == Running <=> code = -1

LInv ==
  /\ IInv
  /\ LifecycleTypeOK
  /\ ClosersInv
  /\ SignalInv
  /\ CodeInv
  /\ ExitCodeTellsWhy

LEMMA ResourcesOfRole == AllOpened \in {4, 5}
  BY DEF AllOpened, Resources

LEMMA LifecycleInitLInv == LifecycleInit => LInv
<1> SUFFICES ASSUME LifecycleInit PROVE LInv
  OBVIOUS
<1> USE DEF LifecycleInit
<1>1. IInv /\ TypeOK /\ process = "running"
  BY InitIInv DEF IInv, Init
<1>2. LifecycleTypeOK
  <2>1. needLimiter \in BOOLEAN /\ done \in BOOLEAN /\ failed \in BOOLEAN /\ sig \in BOOLEAN
    BY Zenon
  <2>2. opened \in 0..AllOpened /\ interrupts \in 0..MaxInterrupts /\ code \in -1..2
    BY ResourcesOfRole, LifecycleAssumption
  <2> QED
    BY <1>1, <2>1, <2>2 DEF LifecycleTypeOK
<1>3. ClosersInv /\ SignalInv
  BY DEF ClosersInv, SignalInv
<1>4. CodeInv /\ ExitCodeTellsWhy
  BY <1>1 DEF CodeInv, Running, ExitCodeTellsWhy
<1> QED
  BY <1>1, <1>2, <1>3, <1>4 DEF LInv

(* Only an unknown worker mode makes a connection attempt end the process. *)
LEMMA ConnectionSteps ==
  ASSUME IInv, RunSteps \/ TickerSteps \/ RequestFindsClient \/ RequestSigns \/ LinkChanges
  PROVE  /\ Running
         /\ role' = role /\ workerMode' = workerMode
         /\ process' = "exited" => workerMode \notin {"worker", "reputer"}
         /\ process' = "crashed" => ~nodeBuilt'
         /\ nodeBuilt' = nodeBuilt \/ main = "nodeNew"
<1> USE DEF Running, config, IInv, TypeOK, RequestHasClient
<1>1. CASE MainConnects \/ TickerConnects
  BY <1>1 DEF MainConnects, TickerConnects, Connect, RegistrationEndsProcess
<1>2. CASE MainSetsExecutor \/ NodeNew \/ MainChecksErr
  BY <1>2 DEF MainSetsExecutor, NodeNew, MainChecksErr
<1>3. CASE Tick \/ TickerChecksErr \/ TickerSetsExecutor
  BY <1>3 DEF Tick, TickerChecksErr, TickerSetsExecutor
<1>4. CASE RequestFindsClient \/ RequestSigns
  BY <1>4 DEF RequestFindsClient, RequestSigns, NodeRuns
<1>5. CASE LinkChanges
  BY <1>5 DEF LinkChanges
<1> QED
  BY <1>1, <1>2, <1>3, <1>4, <1>5 DEF RunSteps, TickerSteps

LEMMA ProcessEndsAs ==
  ASSUME NEW how, ProcessEnds(how)
  PROVE  /\ Running /\ process' = how
         /\ role' = role /\ workerMode' = workerMode /\ nodeBuilt' = nodeBuilt
  BY DEF ProcessEnds, config, Running

LEMMA LifecycleNextLInv == LInv /\ [LifecycleNext]_lifecycleVars => LInv'
<1> SUFFICES ASSUME LInv, [LifecycleNext]_lifecycleVars PROVE LInv'
  OBVIOUS
<1>i. IInv'
  BY LifecycleStepMaps, NextIInv DEF LInv
<1>t. TypeOK'
  BY <1>i DEF IInv
<1>r. AllOpened \in {4, 5}
  BY ResourcesOfRole
<1> USE <1>i, <1>t, <1>r, LifecycleAssumption
    DEF LInv, LifecycleTypeOK, ClosersInv, SignalInv, CodeInv, goroutines, signals
<1> DEFINE SameConfig == role' = role /\ needLimiter' = needLimiter
<1>a. SameConfig => AllOpened' = AllOpened
  BY DEF AllOpened, Resources
<1>v. UNCHANGED vars =>
        /\ process' = process /\ role' = role /\ workerMode' = workerMode
        /\ nodeBuilt' = nodeBuilt
  BY DEF vars, config
<1> USE DEF Running, ExitCodeTellsWhy, HasStarted, DatabaseClosed
<1>1. CASE Open
  BY <1>1, <1>a, <1>v DEF Open
<1>2. CASE RunConnects
  <2>1. /\ Running
        /\ SameConfig /\ workerMode' = workerMode
        /\ process' = "exited" => workerMode \notin {"worker", "reputer"}
        /\ process' = "crashed" => ~nodeBuilt'
    BY <1>2, ConnectionSteps DEF RunConnects
  <2>2. phase' \in {"closing", "starting", "connecting"}
    BY <1>2 DEF RunConnects
  <2>3. /\ process' = "running" => code' = code
        /\ process' = "exited" => code' = 1
        /\ process' = "crashed" => code' = 2
    BY <1>2 DEF RunConnects, CodeOf
  <2>4. process' \in {"running", "exited", "crashed"}
    BY DEF TypeOK
  <2> QED
    BY <1>2, <1>a, <2>1, <2>2, <2>3, <2>4 DEF RunConnects
<1>3. CASE StartNode
  BY <1>3, <1>a, <1>v DEF StartNode
<1>4. CASE StartAPI
  BY <1>4, <1>a, <1>v DEF StartAPI
<1>5. CASE OthersGoOn
  <2>1. /\ Running
        /\ SameConfig /\ workerMode' = workerMode
        /\ process' = "exited" => workerMode \notin {"worker", "reputer"}
        /\ process' = "crashed" => ~nodeBuilt'
    BY <1>5, ConnectionSteps DEF OthersGoOn
  <2>2. /\ process' = "running" => code' = code
        /\ process' = "exited" => code' = 1
        /\ process' = "crashed" => code' = 2
    BY <1>5 DEF OthersGoOn, CodeOf
  <2>3. process' \in {"running", "exited", "crashed"}
    BY DEF TypeOK
  <2> QED
    BY <1>5, <1>a, <2>1, <2>2, <2>3 DEF OthersGoOn
<1>6. CASE NodeDone
  <2>1. ~done
    BY <1>6 DEF NodeDone
  <2>2. UNCHANGED <<vars, code>>
    BY <1>6, <2>1 DEF NodeDone, Close
  <2> QED
    BY <1>6, <1>a, <1>v, <2>1, <2>2 DEF NodeDone
<1>14. CASE NodeFails
  <2>1. CASE failed
    <3>1. ProcessEnds("crashed") /\ code' = 2
      BY <1>14, <2>1 DEF NodeFails, Close
    <3> QED
      BY <1>14, <1>a, <2>1, <3>1, ProcessEndsAs DEF NodeFails
  <2>2. CASE ~failed
    <3>1. UNCHANGED <<vars, code>>
      BY <1>14, <2>2 DEF NodeFails, Close
    <3> QED
      BY <1>14, <1>a, <1>v, <2>2, <3>1 DEF NodeFails
  <2> QED BY <2>1, <2>2
<1>15. CASE APIFails
  <2>1. CASE failed
    <3>1. ProcessEnds("crashed") /\ code' = 2
      BY <1>15, <2>1 DEF APIFails, Close
    <3> QED
      BY <1>15, <1>a, <2>1, <3>1, ProcessEndsAs DEF APIFails
  <2>2. CASE ~failed
    <3>1. UNCHANGED <<vars, code>>
      BY <1>15, <2>2 DEF APIFails, Close
    <3> QED
      BY <1>15, <1>a, <1>v, <2>2, <3>1 DEF APIFails
  <2> QED BY <2>1, <2>2
<1>7. CASE NodeUsesClosedDatabase
  BY <1>7, <1>a, ProcessEndsAs DEF NodeUsesClosedDatabase
<1>8. CASE Interrupt
  BY <1>8, <1>a, <1>v DEF Interrupt
<1>9. CASE Select
  <2>1. /\ Running /\ code' = -1 /\ process' = "running" /\ selected = "none"
        /\ phase' = "closing" /\ SameConfig /\ AllOpened' = AllOpened
        /\ UNCHANGED <<opened, goroutines, interrupts>>
    BY <1>9, <1>a, <1>v DEF Select
  <2>2. CASE sig /\ sig' = FALSE /\ selected' = "sig"
    <3>1. sig' \in BOOLEAN /\ ~sig' /\ interrupts >= 1
      BY <2>2
    <3> QED
      BY <2>1, <2>2, <3>1
  <2>3. CASE done /\ selected' = "done" /\ UNCHANGED sig
    BY <2>1, <2>3
  <2>4. CASE failed /\ selected' = "failed" /\ UNCHANGED sig
    BY <2>1, <2>4
  <2> QED
    BY <1>9, <2>2, <2>3, <2>4 DEF Select
<1>10. CASE ForceExit
  <2>1. /\ process' = "exited" /\ code' = 1
        /\ SameConfig /\ AllOpened' = AllOpened /\ workerMode' = workerMode
        /\ UNCHANGED <<phase, opened, goroutines, interrupts, selected>>
        /\ sig' = FALSE
    BY <1>10, <1>a, ProcessEndsAs DEF ForceExit
  <2>2. interrupts > (IF selected = "done" THEN 0 ELSE 1)
    BY <1>10 DEF ForceExit, Forces
  <2>3. ExitCodeTellsWhy'
    BY <2>1, <2>2
  <2>4. sig' \in BOOLEAN /\ ~sig'
    BY <2>1
  <2> QED
    BY <2>1, <2>3, <2>4
<1>11. CASE RunDeferred
  BY <1>11, <1>a, <1>v DEF RunDeferred
<1>12. CASE Exit
  BY <1>12, <1>a, ProcessEndsAs DEF Exit
<1>13. CASE UNCHANGED lifecycleVars
  BY <1>13, <1>a, <1>v DEF lifecycleVars, lifecycle
<1> QED
  BY <1>1, <1>2, <1>3, <1>4, <1>5, <1>6, <1>7, <1>8, <1>9, <1>10, <1>11, <1>12, <1>13, <1>14,
     <1>15
     DEF LifecycleNext, LifecycleEnded

(* The invariant of the life cycle holds in every reachable state.         *)
THEOREM LifecycleInvariance == LifecycleSpec => []LInv
  BY LifecycleInitLInv, LifecycleNextLInv, PTL DEF LifecycleSpec

(* Every variable of the process keeps its type.                           *)
THEOREM LifecycleTypeCorrect == LifecycleSpec => []LifecycleTypeOK
<1>1. LInv => LifecycleTypeOK
  BY DEF LInv
<1> QED BY <1>1, LifecycleInvariance, PTL

(* The process ends with 0, 1 or a panic only for the reasons              *)
(* ExitCodeTellsWhy names, however its goroutines interleave.              *)
THEOREM ExitCodeIsRight == LifecycleSpec => []ExitCodeTellsWhy
<1>1. LInv => ExitCodeTellsWhy
  BY DEF LInv
<1> QED BY <1>1, LifecycleInvariance, PTL

(* What is proved of the connection holds in the process as a whole:       *)
(* executor and run share a client, and no client is lost, also while the  *)
(* process starts and shuts down.                                          *)
THEOREM ProcessKeepsItsClient == LifecycleSpec => []ExecutorHasClient /\ ClientKept
  BY LifecycleImplementsConnection, ExecutorAndNodeShareClient, ClientIsNeverLost, PTL
=============================================================================
