---------------------------- MODULE NodeLifecycle ---------------------------
(***************************************************************************)
(* Start and Close of a node (node/node.go) with the two lifecycles that   *)
(* eth.New registers: the Ethereum service and, after it, the confidential *)
(* engine with its Redis transport and storage backend (suave/cstore).     *)
(*                                                                         *)
(* startStopLock lets one Start or Close run at a time; its steps are the  *)
(* values of phase.  Meanwhile RPC requests run, from before the first     *)
(* lifecycle is started until after the last one is stopped; so do the     *)
(* goroutines of the engine: those that publish, the message loop, the     *)
(* receiver of its subscription, and the one that closes Pebble.           *)
(*                                                                         *)
(* A panic of an RPC method is recovered by the rpc package; a panic of    *)
(* any other goroutine ends the process (crashed).                         *)
(***************************************************************************)
EXTENDS Naturals, FiniteSets

CONSTANTS
    Request,    \* confidential requests sent to the node
    Backends,   \* the storage backends to consider
    ChanSize    \* capacity of the channel of Subscribe

VARIABLES
    state,      \* n.state
    phase,      \* what the holder of startStopLock does, "free" without one
    rpc,        \* BOOLEAN, the RPC endpoints are open
    p2p,        \* BOOLEAN, the p2p server runs
    running,    \* the lifecycles that are started
    databases,  \* BOOLEAN, the databases of the node are open
    closes,     \* how many times n.stop was closed
    crashed

VARIABLES
    backend,    \* the kind of storage, chosen once
    storage,    \* "open", "stopped" (Pebble is still to be closed), "closed"
    ctx,        \* e.ctx: "none", "live" or "done"
    client,     \* the transport's client: "nil", "open" or "closed"
    loop,       \* where ProcessMessages is
    receiver,   \* the goroutine of Subscribe
    chan,       \* messages in its channel
    req         \* [Request -> Stages], where each request is

nodeVars == <<state, phase, rpc, p2p, running, databases, closes>>
engineVars == <<backend, storage, ctx, client>>
loopVars == <<loop, receiver, chan>>
vars == <<nodeVars, crashed, engineVars, loopVars, req>>

Eth == 1
Engine == 2
Lifecycles == {Eth, Engine}
Stages == {"new", "running", "publishing", "done"}

ASSUME LifecycleConstants ==
    /\ Backends \subseteq {"local", "redis", "pebble"}
    /\ ChanSize \in Nat \ {0}

Flags ==
    /\ rpc \in BOOLEAN /\ p2p \in BOOLEAN
    /\ databases \in BOOLEAN /\ crashed \in BOOLEAN

TypeOK ==
    /\ state \in {"initializing", "running", "closed"}
    /\ phase \in {"free", "start", "stop", "stopTransport", "stopStorage"}
    /\ Flags
    /\ running \subseteq Lifecycles
    /\ closes \in 0..1
    /\ backend \in Backends
    /\ storage \in {"open", "stopped", "closed"}
    /\ ctx \in {"none", "live", "done"}
    /\ client \in {"nil", "open", "closed"}
    /\ loop \in {"none", "subscribe", "select", "handle", "handleZero", "gone"}
    /\ receiver \in {"none", "run", "gone"}
    /\ chan \in 0..ChanSize
    /\ req \in [Request -> Stages]

\* The node is constructed; the backend was started by its constructor.
Init ==
    /\ state = "initializing" /\ phase = "free"
    /\ rpc = FALSE /\ p2p = FALSE /\ running = {}
    /\ databases = TRUE /\ closes = 0 /\ crashed = FALSE
    /\ backend \in Backends /\ storage = "open"
    /\ ctx = "none" /\ client = "nil"
    /\ loop = "none" /\ receiver = "none" /\ chan = 0
    /\ req = [r \in Request |-> "new"]
-----------------------------------------------------------------------------
(***************************************************************************)
(* The node.                                                               *)
(***************************************************************************)

doClose ==
    /\ state' = "closed"
    /\ databases' = FALSE
    /\ closes' = closes + 1
    /\ phase' = "free"

\* Start opens the endpoints, which may fail, and goes on to the lifecycles.
Start ==
    /\ phase = "free" /\ state = "initializing"
    /\ \/ /\ state' = "running" /\ phase' = "start"
          /\ rpc' = TRUE /\ p2p' = TRUE
          /\ UNCHANGED <<databases, closes>>
       \/ doClose /\ UNCHANGED <<rpc, p2p>>
    /\ UNCHANGED <<running, crashed, engineVars, loopVars, req>>

\* The lifecycle to be started next, and the one to be stopped next.
NextUp == CHOOSE s \in Lifecycles \ running : \A t \in Lifecycles \ running : s <= t
NextDown == CHOOSE s \in running : \A t \in running : s >= t

StartEth ==
    /\ phase = "start" /\ NextUp = Eth
    /\ running' = running \union {Eth}
    /\ UNCHANGED <<state, phase, rpc, p2p, databases, closes, crashed, engineVars, loopVars, req>>

\* Mutant: the error of connectRedis is dropped.
StartEngineUnconnected ==
    /\ phase = "start" /\ NextUp = Engine
    /\ running' = running \union {Engine}
    /\ phase' = "free"
    /\ client' \in {"nil", "open"}
    /\ ctx' = "live"
    /\ loop' = "subscribe"
    /\ UNCHANGED <<state, rpc, p2p, databases, closes, crashed, backend, storage, receiver, chan, req>>

\* The engine connects its transport and starts ProcessMessages; Start returns.
StartEngine ==
    /\ phase = "start" /\ NextUp = Engine
    /\ running' = running \union {Engine}
    /\ phase' = "free"
    /\ client' = "open"
    /\ ctx' = "live"
    /\ loop' = "subscribe"
    /\ UNCHANGED <<state, rpc, p2p, databases, closes, crashed, backend, storage, receiver, chan, req>>

\* Mutant: the endpoints and the lifecycles that were started go on.
StartFailsRunning ==
    /\ phase = "start"
    /\ doClose
    /\ UNCHANGED <<rpc, p2p, running, crashed, engineVars, loopVars, req>>

\* A lifecycle does not start: what was started is stopped.
StartFails ==
    /\ phase = "start"
    /\ phase' = "stop"
    /\ rpc' = FALSE
    /\ UNCHANGED <<state, p2p, running, databases, closes, crashed, engineVars, loopVars, req>>

\* Close of a node that was never started, and of one that runs.  A closed node
\* only answers ErrNodeStopped.
Close ==
    /\ phase = "free"
    /\ \/ state = "initializing" /\ doClose /\ UNCHANGED rpc
       \/ /\ state = "running"
          /\ phase' = "stop" /\ rpc' = FALSE
          /\ UNCHANGED <<state, databases, closes>>
    /\ UNCHANGED <<p2p, running, crashed, engineVars, loopVars, req>>

\* Mutant: the lifecycles are stopped in the order of their start.
StopEthFirst ==
    /\ phase = "stop" /\ Eth \in running
    /\ running' = running \ {Eth}
    /\ UNCHANGED <<state, phase, rpc, p2p, databases, closes, crashed, engineVars, loopVars, req>>

StopEth ==
    /\ phase = "stop" /\ running # {} /\ NextDown = Eth
    /\ running' = running \ {Eth}
    /\ UNCHANGED <<state, phase, rpc, p2p, databases, closes, crashed, engineVars, loopVars, req>>

\* All lifecycles are stopped: the p2p server stops and the databases close.
StopRest ==
    /\ phase = "stop" /\ running = {}
    /\ p2p' = FALSE
    /\ doClose
    /\ UNCHANGED <<rpc, running, crashed, engineVars, loopVars, req>>
-----------------------------------------------------------------------------
(***************************************************************************)
(* Stop of the engine, one step per call it makes.                         *)
(***************************************************************************)

\* Mutant: the context is not cancelled.
StopEngineUncancelled ==
    /\ phase = "stop" /\ running # {} /\ NextDown = Engine
    /\ phase' = "stopTransport"
    /\ UNCHANGED <<state, rpc, p2p, running, databases, closes, crashed, engineVars, loopVars, req>>

StopEngine ==
    /\ phase = "stop" /\ running # {} /\ NextDown = Engine
    /\ ctx' = "done"
    /\ phase' = "stopTransport"
    /\ UNCHANGED <<state, rpc, p2p, running, databases, closes, crashed,
                   backend, storage, client, loopVars, req>>

\* The context of the transport is cancelled with its client.
StopTransport ==
    /\ phase = "stopTransport"
    /\ client' = "closed"
    /\ phase' = "stopStorage"
    /\ UNCHANGED <<state, rpc, p2p, running, databases, closes, crashed,
                   backend, storage, ctx, loopVars, req>>

\* The in-memory backend has nothing to stop, Pebble only asks a goroutine to
\* close the database.  Stop returns without waiting for any goroutine.
StopStorage ==
    /\ phase = "stopStorage"
    /\ storage' = CASE backend = "local" -> "open"
                    [] backend = "redis" -> "closed"
                    [] backend = "pebble" -> "stopped"
    /\ running' = running \ {Engine}
    /\ phase' = "stop"
    /\ UNCHANGED <<state, rpc, p2p, databases, closes, crashed,
                   backend, ctx, client, loopVars, req>>

ClosePebble ==
    /\ storage = "stopped"
    /\ storage' = "closed"
    /\ UNCHANGED <<nodeVars, crashed, backend, ctx, client, loopVars, req>>

\* A closed Redis client returns an error, a closed Pebble database panics.
StoragePanics == storage = "closed" /\ backend = "pebble"
-----------------------------------------------------------------------------
(***************************************************************************)
(* The goroutines of the engine.                                           *)
(***************************************************************************)

\* ProcessMessages subscribes, possibly after Stop.
Subscribe ==
    /\ loop = "subscribe"
    /\ IF client = "nil"
       THEN crashed' = TRUE /\ UNCHANGED <<loop, receiver>>
       ELSE loop' = "select" /\ receiver' = "run" /\ UNCHANGED crashed
    /\ UNCHANGED <<nodeVars, engineVars, chan, req>>

\* A message from the topic, dropped when the channel is full.
Receive ==
    /\ receiver = "run" /\ client = "open"
    /\ chan < ChanSize
    /\ chan' = chan + 1
    /\ UNCHANGED <<nodeVars, crashed, engineVars, loop, receiver, req>>

\* Its context is done: the transport was stopped, or ProcessMessages returned.
\* It closes the channel.
ReceiverReturns ==
    /\ receiver = "run"
    /\ client = "closed" \/ loop = "gone"
    /\ receiver' = "gone"
    /\ UNCHANGED <<nodeVars, crashed, engineVars, loop, chan, req>>

\* The select of ProcessMessages.  What is in the channel is still received
\* after it was closed, and after that zero messages, without end.
SelectDone ==
    /\ loop = "select" /\ ctx = "done"
    /\ loop' = "gone"
    /\ UNCHANGED <<nodeVars, crashed, engineVars, receiver, chan, req>>

SelectMessage ==
    /\ loop = "select"
    /\ \/ chan > 0 /\ chan' = chan - 1 /\ loop' = "handle"
       \/ chan = 0 /\ receiver = "gone" /\ loop' = "handleZero" /\ UNCHANGED chan
    /\ UNCHANGED <<nodeVars, crashed, engineVars, receiver, req>>

\* NewMessage refuses a zero message, which has no signature, and stores the
\* writes of another one.
NewMessage ==
    /\ loop \in {"handle", "handleZero"}
    /\ IF loop = "handle" /\ StoragePanics
       THEN crashed' = TRUE /\ UNCHANGED loop
       ELSE loop' = "select" /\ UNCHANGED crashed
    /\ UNCHANGED <<nodeVars, engineVars, receiver, chan, req>>
-----------------------------------------------------------------------------
(***************************************************************************)
(* Requests.                                                               *)
(***************************************************************************)

\* Requests are accepted while the endpoints are open.  Closing them waits for
\* five seconds, not for the requests.
Accept(r) ==
    /\ rpc /\ req[r] = "new"
    /\ req' = [req EXCEPT ![r] = "running"]
    /\ UNCHANGED <<nodeVars, crashed, engineVars, loopVars>>

\* Finalize stores and starts the goroutine that publishes, or the request ends
\* with an error (a panic included).
Finalize(r) ==
    /\ req[r] = "running"
    /\ \/ storage # "closed" /\ req' = [req EXCEPT ![r] = "publishing"]
       \/ req' = [req EXCEPT ![r] = "done"]
    /\ UNCHANGED <<nodeVars, crashed, engineVars, loopVars>>

Publish(r) ==
    /\ req[r] = "publishing"
    /\ req' = [req EXCEPT ![r] = "done"]
    /\ crashed' = (client = "nil")
    /\ UNCHANGED <<nodeVars, engineVars, loopVars>>

StartOrClose ==
    \/ Start \/ StartEth \/ StartEngine \/ StartFails
    \/ Close \/ StopEth \/ StopEngine \/ StopTransport \/ StopStorage \/ StopRest

ProcessMessages == Subscribe \/ SelectDone \/ SelectMessage \/ NewMessage

Next ==
    /\ ~crashed
    /\ \/ StartOrClose
       \/ ProcessMessages \/ Receive \/ ReceiverReturns \/ ClosePebble
       \/ \E r \in Request : Accept(r) \/ Finalize(r) \/ Publish(r)

Spec == Init /\ [][Next]_vars

\* Goroutines are scheduled, and a select with several ready cases takes each of
\* them again and again, as it chooses at random.
Goroutines ==
    /\ WF_vars(~crashed /\ ProcessMessages)
    /\ SF_vars(~crashed /\ SelectDone)
    /\ WF_vars(~crashed /\ ReceiverReturns)
    /\ WF_vars(~crashed /\ ClosePebble)
    /\ WF_vars(~crashed /\ phase # "free" /\ StartOrClose)

FairSpec == Spec /\ Goroutines
-----------------------------------------------------------------------------
(***************************************************************************)
(* Properties.                                                             *)
(***************************************************************************)

\* A closed node has given everything back, once, also when a lifecycle did not
\* start: endpoints, lifecycles, p2p server, databases, the engine's context and
\* transport, and the storage of an engine that was started.
ClosedIsStopped ==
    state = "closed" =>
        /\ ~rpc /\ ~p2p /\ running = {} /\ ~databases /\ closes = 1
        /\ ctx # "live" /\ client # "open"
        /\ ctx = "done" /\ backend # "local" => storage # "open"

\* A lifecycle is stopped before those it was started after, and the databases
\* stay open until all are stopped.
StopsInReverse ==
    [][/\ \A s \in running \ running' : \A t \in running' : t < s
       /\ databases' # databases => running = {}]_vars

\* While the engine runs, neither requests nor messages bring the node down.
\* Before, a request that finishes early finds no client to publish with; after,
\* a message that is still handled finds its database closed.
NoCrashWhileRunning == [][crashed' # crashed => Engine \notin running]_vars

\* After a node is closed, the loop and the receiver of its engine return, although
\* their channel then delivers zero messages without end, and although Stop may
\* come before they have subscribed.
LoopsReturn ==
    state = "closed" ~> (loop \in {"none", "gone"} /\ receiver # "run") \/ crashed

\* When Stop has returned, the goroutines of the engine are gone
\* (node/lifecycle.go on Stop: "terminates all goroutines belonging to the
\* service, blocking until they are all terminated").
StopWaits ==
    ctx = "done" /\ Engine \notin running => loop = "gone" /\ receiver # "run"
=============================================================================
