--------------------------- MODULE NodeLifecycle ---------------------------
(***************************************************************************)
(* The life of the process (cmd/node/main.go run): it opens its databases, *)
(* host and limiter, connects (ChainConnection.tla), starts the node's     *)
(* loop and, on a head, the API, waits for an interrupt or for one of them *)
(* to end, and undoes what it opened in the reverse order.  The goroutines *)
(* are not waited for: they go on while run undoes what they use.          *)
(*                                                                         *)
(* External: who sends interrupts, node.Run, the API's server, the         *)
(* databases, which fail when they are used after they were closed, and    *)
(* the deferred calls, none of which need ever return.                     *)
(***************************************************************************)
EXTENDS Integers, Sequences, ChainConnection

CONSTANT MaxInterrupts  \* interrupts in one run

ASSUME LifecycleAssumption == MaxInterrupts \in Nat

VARIABLES
  phase,       \* of run: "opening", "connecting", "starting", "startingAPI",
               \* "select", "closing"
  needLimiter, \* configuration
  opened,      \* how many of Resources are open, their closing deferred
  nodeLoop,    \* the goroutine of the node: "off", "running", "ended"
  api,         \* the goroutine of the API
  done, failed, \* whether the channels are closed
  sig,         \* the channel of interrupts, which holds one
  interrupts,
  selected,    \* what run's select has taken: "none", "sig", "done", "failed"
  code         \* exit code: -1 while running, 2 for a panic

goroutines == <<nodeLoop, api, done, failed>>
signals == <<sig, interrupts>>
lifecycle ==
  <<phase, needLimiter, opened, goroutines, signals, selected, code>>
lifecycleVars == <<vars, lifecycle>>

(* In the order of their defer statements; the last one is rcancel.        *)
Resources ==
  <<"pdb", "host">> \o (IF role = "worker" /\ needLimiter THEN <<"limiter">> ELSE <<>>)
    \o <<"fdb", "context">>
AllOpened == Len(Resources)

LifecycleInit ==
  /\ Init
  /\ phase = "opening"
  /\ needLimiter \in BOOLEAN
  /\ opened = 0
  /\ nodeLoop = "off" /\ api = "off" /\ done = FALSE /\ failed = FALSE
  /\ sig = FALSE /\ interrupts = 0
  /\ selected = "none"
  /\ code = -1

Running == process = "running"

-----------------------------------------------------------------------------
(* The start.  A step that fails, one that opens a resource or another one *)
(* between them, makes run return.                                         *)
Open ==
  /\ Running /\ phase = "opening"
  /\ \/ /\ opened < AllOpened - 1
        /\ opened' = opened + 1 /\ UNCHANGED phase
     \/ /\ opened = AllOpened - 1
        /\ phase' = "connecting" /\ UNCHANGED opened
     \/ phase' = "closing" /\ UNCHANGED opened
  /\ UNCHANGED <<vars, needLimiter, goroutines, signals, selected, code>>

CodeOf(ended) ==
  CASE ended = "exited" -> 1 [] ended = "crashed" -> 2 [] OTHER -> code

RunConnects ==
  /\ phase = "connecting"
  /\ RunSteps
  /\ phase' = CASE main' = "failed" -> "closing"
                [] main' = "running" -> "starting"
                [] OTHER -> "connecting"
  /\ code' = CodeOf(process')
  /\ UNCHANGED <<needLimiter, opened, goroutines, signals, selected>>

StartNode ==
  /\ Running /\ phase = "starting"
  /\ opened' = AllOpened
  /\ nodeLoop' = "running"
  /\ phase' = IF role = "head" THEN "startingAPI" ELSE "select"
  /\ UNCHANGED <<vars, needLimiter, api, done, failed, signals, selected, code>>

(* Without an address for the API run returns, its node already running.   *)
StartAPI ==
  /\ Running /\ phase = "startingAPI"
  /\ \/ api' = "running" /\ phase' = "select"
     \/ phase' = "closing" /\ UNCHANGED api
  /\ UNCHANGED <<vars, needLimiter, opened, nodeLoop, done, failed, signals, selected, code>>

-----------------------------------------------------------------------------
(* The other threads.  The ticker and requests go on as long as the        *)
(* process does.                                                           *)
OthersGoOn ==
  /\ TickerSteps \/ RequestFindsClient \/ RequestSigns \/ LinkChanges
  /\ code' = CodeOf(process')
  /\ UNCHANGED <<phase, needLimiter, opened, goroutines, signals, selected>>

(* Closing a channel that is closed panics.                                *)
Close(channel) ==
  IF channel THEN ProcessEnds("crashed") /\ code' = 2
  ELSE UNCHANGED <<vars, code>>

NodeDone ==
  /\ Running /\ nodeLoop = "running"
  /\ nodeLoop' = "ended"
  /\ done' = TRUE /\ Close(done)
  /\ UNCHANGED <<phase, needLimiter, opened, api, failed, signals, selected>>

NodeFails ==
  /\ Running /\ nodeLoop = "running"
  /\ nodeLoop' = "ended"
  /\ failed' = TRUE /\ Close(failed)
  /\ UNCHANGED <<phase, needLimiter, opened, api, done, signals, selected>>

(* Nobody shuts the server down, so it ends with an error or not at all.   *)
APIFails ==
  /\ Running /\ api = "running"
  /\ api' = "ended"
  /\ failed' = TRUE /\ Close(failed)
  /\ UNCHANGED <<phase, needLimiter, opened, nodeLoop, done, signals, selected>>

(* The node's loop may come to use a database that run has closed.         *)
DatabaseClosed == phase = "closing" /\ opened < AllOpened - 1

NodeUsesClosedDatabase ==
  /\ Running /\ nodeLoop = "running" /\ DatabaseClosed
  /\ ProcessEnds("crashed") /\ code' = 2
  /\ UNCHANGED <<phase, needLimiter, opened, goroutines, signals, selected>>

(* signal.Notify comes first in run, and drops what the channel cannot     *)
(* hold.                                                                   *)
Interrupt ==
  /\ Running
  /\ interrupts < MaxInterrupts
  /\ interrupts' = interrupts + 1
  /\ sig' = TRUE
  /\ UNCHANGED <<vars, phase, needLimiter, opened, goroutines, selected, code>>

-----------------------------------------------------------------------------
(* run waits, takes any of what is there, and returns.                     *)
Select ==
  /\ Running /\ phase = "select"
  /\ \/ sig /\ sig' = FALSE /\ selected' = "sig"
     \/ done /\ selected' = "done" /\ UNCHANGED sig
     \/ failed /\ selected' = "failed" /\ UNCHANGED sig
  /\ phase' = "closing"
  /\ UNCHANGED <<vars, needLimiter, opened, goroutines, interrupts, code>>

(* The goroutine that waits for one more interrupt.                        *)
ForcesFromStart == phase # "opening"
ForcesWhenClosed == selected \in {"sig", "done"} /\ opened = 0
Forces == selected \in {"sig", "done"}

ForceExit ==
  /\ Running
  /\ Forces /\ sig
  /\ sig' = FALSE
  /\ ProcessEnds("exited") /\ code' = 1
  /\ UNCHANGED <<phase, needLimiter, opened, goroutines, interrupts, selected>>

RunDeferred ==
  /\ Running /\ phase = "closing"
  /\ opened > 0
  /\ opened' = opened - 1
  /\ UNCHANGED <<vars, phase, needLimiter, goroutines, signals, selected, code>>

Exit ==
  /\ phase = "closing" /\ opened = 0
  /\ ProcessEnds("exited")
  /\ code' = IF selected \in {"sig", "done"} THEN 0 ELSE 1
  /\ UNCHANGED <<phase, needLimiter, opened, goroutines, signals, selected>>

LifecycleEnded == ~Running /\ UNCHANGED lifecycleVars

LifecycleNext ==
  \/ Open \/ RunConnects \/ StartNode \/ StartAPI
  \/ OthersGoOn \/ NodeDone \/ NodeFails \/ APIFails \/ NodeUsesClosedDatabase
  \/ Interrupt \/ Select \/ ForceExit
  \/ RunDeferred \/ Exit
  \/ LifecycleEnded

(* The Go scheduler runs a goroutine that can run, the ticker ticks, and   *)
(* the calls of the start, connection attempts among them, come to an end. *)
(* The deferred calls, requests, interrupts and the link owe nothing.      *)
Fairness ==
  /\ WF_lifecycleVars(Open \/ RunConnects \/ StartNode \/ StartAPI \/ Select)
  /\ WF_lifecycleVars(TickerSteps /\ OthersGoOn)
  /\ WF_lifecycleVars(ForceExit)

LifecycleSpec == LifecycleInit /\ [][LifecycleNext]_lifecycleVars
LifecycleFairSpec == LifecycleSpec /\ Fairness

-----------------------------------------------------------------------------
LifecycleTypeOK ==
  /\ TypeOK
  /\ phase \in {"opening", "connecting", "starting", "startingAPI", "select", "closing"}
  /\ needLimiter \in BOOLEAN
  /\ opened \in 0..AllOpened
  /\ nodeLoop \in {"off", "running", "ended"} /\ api \in {"off", "running", "ended"}
  /\ done \in BOOLEAN /\ failed \in BOOLEAN /\ sig \in BOOLEAN
  /\ interrupts \in 0..MaxInterrupts
  /\ selected \in {"none", "sig", "done", "failed"}
  /\ code \in -1..2

HasStarted == phase = "select" \/ selected # "none"

(* The exit code tells why the process ended, whichever threads raced.     *)
(* Success: it was interrupted or its node was done, and all was undone.   *)
(* Failure after the start: the node or the API failed, or another         *)
(* interrupt came during the shutdown, or the worker mode is none.         *)
(* Panic: node and API both failed, or something was used after it was     *)
(* closed; but never because a request lost its client, and, unless err    *)
(* was overwritten, never for want of a node.                              *)
ExitCodeTellsWhy ==
  /\ code = 0 => opened = 0 /\ (interrupts > 0 \/ done)
  /\ code = 1 /\ HasStarted /\ workerMode \in {"worker", "reputer"} =>
       \/ failed
       \/ interrupts > (IF selected = "done" THEN 0 ELSE 1)
  /\ code = 2 => \/ nodeLoop = "ended" /\ api = "ended" /\ failed
                 \/ DatabaseClosed
                 \/ ~nodeBuilt

(* An interrupt, at any time from the first line of run on, ends the wait  *)
(* of run, or the process; and one more, once the shutdown of a node that  *)
(* had not failed began, ends the process even if a deferred call never    *)
(* returns.                                                                *)
InterruptEndsProcess ==
  /\ sig ~> (phase = "closing" \/ ~Running)
  /\ selected \in {"sig", "done"} /\ sig ~> ~Running
=============================================================================
