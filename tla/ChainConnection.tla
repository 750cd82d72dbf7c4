-------------------------- MODULE ChainConnection --------------------------
(***************************************************************************)
(* How a node gets, keeps and uses its connection to the chain             *)
(* (cmd/node/main.go run, cmd/node/appchain.go NewAppChain).  Three        *)
(* threads share the variables appchain, err and alloraExecutor.appChain   *)
(* of run without a lock:                                                  *)
(*   - run itself, which connects once if it is a worker, then creates the *)
(*     node and checks the err of that;                                    *)
(*   - the reconnection ticker, which connects when there is no client;    *)
(*   - a request in AlloraExecutor.ExecuteFunction, which tests the        *)
(*     executor's client for nil and uses it later.                        *)
(* A fourth, the response callback of LeaderPipeline.tla, reads appchain   *)
(* once, as an argument.  How run goes on and how the process ends is the  *)
(* subject of NodeLifecycle.tla.                                           *)
(*                                                                         *)
(* External: the chain's RPC node (link), the keyring (account), node.New. *)
(***************************************************************************)
EXTENDS Naturals

CONSTANTS
  None,               \* the nil client
  Accounts,           \* what the key configuration may be
  Roles,              \* configured roles: "worker", "head"
  WorkerModes,        \* configured worker modes
  ReconnectSeconds

ASSUME ConnectionAssumption ==
  /\ Accounts \subseteq {"usable", "noAddress", "unconfigured"}
  /\ Roles \subseteq {"worker", "head"}
  /\ ReconnectSeconds \in Nat
  /\ None \notin [address : {"known", "missing"}, SubmitTx : BOOLEAN]

(* A client as connectToAlloraBlockchain returns it.                       *)
Clients == [address : {"known", "missing"}, SubmitTx : {TRUE}]
Links == {"up", "nameless", "down"}

VARIABLES
  process,        \* "running", "exited" or "crashed"
  main,           \* where run is
  ticker,         \* where the reconnection goroutine is
  request,        \* where a request in ExecuteFunction is
  appchain,       \* run's client
  err,            \* run's err, captured by the ticker's closure
  executorChain,  \* alloraExecutor.appChain
  nodeBuilt,      \* whether node.New returned a node
  link,           \* external: "nameless" is a node that tells no chain id
  account,        \* external: what the keyring makes of the key options
  role, workerMode

config == <<account, role, workerMode>>
vars == <<process, main, ticker, request, appchain, err, executorChain,
          nodeBuilt, link, config>>

Init ==
  /\ process = "running"
  /\ role \in Roles
  /\ main = IF role = "worker" THEN "connect" ELSE "nodeNew"
  /\ ticker = "off"
  /\ request = "idle"
  /\ appchain = None
  /\ err = "nil"
  /\ executorChain = None
  /\ nodeBuilt = FALSE
  /\ link \in Links
  /\ account \in Accounts
  /\ workerMode \in WorkerModes

-----------------------------------------------------------------------------
(* NewAppChain.  A client needs the chain's node.  An account that yields  *)
(* no address leaves SubmitTx false but yields a client; no key, or no     *)
(* chain id, yields neither a client nor an error.                         *)
NewAppChain ==
  IF link = "down" \/ account = "unconfigured" \/ link = "nameless" THEN None
  ELSE [address |-> IF account = "usable" THEN "known" ELSE "missing",
        SubmitTx |-> account = "usable"]
NewAppChainErr == IF link = "down" THEN "error" ELSE "nil"

(* registerWithBlockchain, called with a new client, ends the process for  *)
(* a worker mode it does not know.                                         *)
RegistrationEndsProcess ==
  NewAppChain # None /\ workerMode \notin {"worker", "reputer"}

(* connectToAlloraBlockchain sets SubmitTx, whatever NewAppChain said.     *)
SubmitTxAsFound(client) == client
SubmitTxSet(client) == [client EXCEPT !.SubmitTx = TRUE]
connectToAlloraBlockchain ==
  IF NewAppChain = None THEN None ELSE SubmitTxSet(NewAppChain)

Connect(returns) ==
  IF RegistrationEndsProcess
  THEN /\ process' = "exited"
       /\ UNCHANGED <<main, ticker, appchain, err>>
  ELSE /\ returns
       /\ appchain' = connectToAlloraBlockchain
       /\ err' = NewAppChainErr
       /\ UNCHANGED process

(* run *)
MainConnects ==
  /\ process = "running" /\ main = "connect"
  /\ Connect(main' = "setExecutor" /\ UNCHANGED ticker)
  /\ UNCHANGED <<request, executorChain, nodeBuilt, link, config>>

MainSetsExecutor ==
  /\ process = "running" /\ main = "setExecutor"
  /\ executorChain' = appchain
  /\ ticker' = IF ReconnectSeconds > 0 THEN "wait" ELSE "off"
  /\ main' = "nodeNew"
  /\ UNCHANGED <<process, request, appchain, err, nodeBuilt, link, config>>

NodeNew ==
  /\ process = "running" /\ main = "nodeNew"
  /\ nodeBuilt' \in BOOLEAN
  /\ err' = IF nodeBuilt' THEN "nil" ELSE "error"
  /\ main' = "checkErr"
  /\ UNCHANGED <<process, ticker, request, appchain, executorChain, link, config>>

(* The node's main loop runs on the node there is, also when there is none. *)
MainChecksErr ==
  /\ process = "running" /\ main = "checkErr"
  /\ IF err # "nil" THEN main' = "failed" /\ UNCHANGED process
     ELSE /\ main' = "running"
          /\ process' = IF nodeBuilt THEN "running" ELSE "crashed"
  /\ UNCHANGED <<ticker, request, appchain, err, executorChain, nodeBuilt, link, config>>

-----------------------------------------------------------------------------
(* The reconnection goroutine.  A tick that finds a client does nothing.   *)
NeedsReconnectWithClient == appchain # None /\ ~appchain.SubmitTx
NeedsReconnect == IF appchain = None THEN TRUE ELSE ~appchain.SubmitTx

Tick ==
  /\ process = "running" /\ ticker = "wait"
  /\ NeedsReconnect
  /\ ticker' = "connect"
  /\ UNCHANGED <<process, main, request, appchain, err, executorChain, nodeBuilt, link, config>>

TickerConnects ==
  /\ process = "running" /\ ticker = "connect"
  /\ Connect(ticker' = "checkErr" /\ UNCHANGED main)
  /\ UNCHANGED <<request, executorChain, nodeBuilt, link, config>>

TickerChecksErr ==
  /\ process = "running" /\ ticker = "checkErr"
  /\ ticker' = IF err # "nil" THEN "wait" ELSE "setExecutor"
  /\ UNCHANGED <<process, main, request, appchain, err, executorChain, nodeBuilt, link, config>>

ExecutorChainKept == executorChain
ExecutorChainNext == appchain

TickerSetsExecutor ==
  /\ process = "running" /\ ticker = "setExecutor"
  /\ executorChain' = ExecutorChainNext
  /\ ticker' = "wait"
  /\ UNCHANGED <<process, main, request, appchain, err, nodeBuilt, link, config>>

-----------------------------------------------------------------------------
NodeRuns == process = "running" /\ main = "running"

(* ExecuteFunction tests its client for nil and returns the result         *)
(* unsigned when it is; otherwise it reads the client again to sign.       *)
RequestFindsClient ==
  /\ NodeRuns /\ request = "idle"
  /\ executorChain # None
  /\ request' = "sign"
  /\ UNCHANGED <<process, main, ticker, appchain, err, executorChain, nodeBuilt, link, config>>

RequestSigns ==
  /\ NodeRuns /\ request = "sign"
  /\ request' = "idle"
  /\ process' = IF executorChain = None THEN "crashed" ELSE "running"
  /\ UNCHANGED <<main, ticker, appchain, err, executorChain, nodeBuilt, link, config>>

LinkChanges ==
  /\ process = "running"
  /\ link' \in Links \ {link}
  /\ UNCHANGED <<process, main, ticker, request, appchain, err, executorChain,
                 nodeBuilt, config>>

(* The process ends, at once or after the deferred calls of run, during    *)
(* which the other threads go on.                                          *)
ProcessEnds(how) ==
  /\ process = "running"
  /\ process' = how
  /\ UNCHANGED <<main, ticker, request, appchain, err, executorChain, nodeBuilt,
                 link, config>>

Ended == process # "running" /\ UNCHANGED vars

RunSteps == MainConnects \/ MainSetsExecutor \/ NodeNew \/ MainChecksErr
TickerSteps == Tick \/ TickerConnects \/ TickerChecksErr \/ TickerSetsExecutor

Next ==
  \/ RunSteps \/ TickerSteps
  \/ RequestFindsClient \/ RequestSigns
  \/ LinkChanges
  \/ ProcessEnds("exited") \/ ProcessEnds("crashed") \/ Ended

Spec == Init /\ [][Next]_vars

-----------------------------------------------------------------------------
TypeOK ==
  /\ process \in {"running", "exited", "crashed"}
  /\ main \in {"connect", "setExecutor", "nodeNew", "checkErr", "running", "failed"}
  /\ ticker \in {"off", "wait", "connect", "checkErr", "setExecutor"}
  /\ request \in {"idle", "sign"}
  /\ appchain \in Clients \cup {None}
  /\ err \in {"nil", "error"}
  /\ executorChain \in Clients \cup {None}
  /\ nodeBuilt \in BOOLEAN
  /\ link \in Links
  /\ account \in Accounts
  /\ role \in Roles
  /\ workerMode \in WorkerModes

(* A client once found is there to stay, in run and in the executor: no    *)
(* later attempt, however it ends and whatever becomes of the link, puts   *)
(* nil in its place.                                                       *)
ClientKept ==
  [][/\ appchain # None => appchain' = appchain
     /\ executorChain # None => executorChain' = executorChain]_vars

(* Results are signed by the client they are submitted with: unless the    *)
(* ticker is about to copy it, the executor of a running node has run's    *)
(* client, even though the err that decides on the copy is shared with     *)
(* node.New.                                                               *)
ExecutorHasClient ==
  NodeRuns /\ ticker \in {"off", "wait", "connect"} => executorChain = appchain

(* A node that could not connect when it started gets its client once the  *)
(* chain stays up, if it has a key and its ticker was started; also while  *)
(* it is shutting down, unless that is because there is no node.           *)
ReconnectsAfterFailedStart ==
  <>[](link = "up") /\ <>(ticker # "off") /\ account # "unconfigured"
    => <>(process # "running" \/ main = "failed" \/ executorChain # None)

-----------------------------------------------------------------------------
(* What the code and its documentation say and the code does not do.       *)

(* main.go:695 reports "could not create node": run returns failure there  *)
(* only when node.New failed, and runs on only when it did not.            *)
NodeCheckDecides ==
  /\ main = "failed" => ~nodeBuilt
  /\ main = "running" => nodeBuilt

(* How far that reaches: it takes a start without the chain and a ticker   *)
(* that tries again.  A run that has its client, or no ticker, when it     *)
(* builds its node decides by the error of node.New.                       *)
SettledBeforeNode == main = "nodeNew" => appchain # None \/ ticker = "off"
SettledStartDecides == []SettledBeforeNode => []NodeCheckDecides
=============================================================================
