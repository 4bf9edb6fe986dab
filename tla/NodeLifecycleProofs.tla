-------------------------- MODULE NodeLifecycleProofs -------------------------
(***************************************************************************)
(* Proofs about NodeLifecycle, for any set of requests, of backends and    *)
(* any capacity of the channel.                                            *)
(***************************************************************************)
EXTENDS NodeLifecycle, TLAPS

\* What a step of Start and Close relies on from the steps before it: which part
\* of the node is up in each state and phase, and how far the engine is then.
Progress ==
    /\ phase # "free" => state = "running"
    /\ state = "initializing" => ~rpc /\ ~p2p /\ running = {}
    /\ state # "closed" => databases /\ closes = 0
    /\ state = "initializing" \/ phase = "start" =>
            Engine \notin running /\ ctx = "none" /\ client = "nil" /\ storage = "open"
    /\ phase \in {"stop", "stopTransport", "stopStorage"} => ~rpc
    /\ phase \in {"stopTransport", "stopStorage"} => Engine \in running /\ ctx = "done"
    /\ Engine \in running => storage = "open" /\ client # "nil"
    /\ Engine \notin running =>
            /\ ctx # "live" /\ client # "open"
            /\ ctx = "done" /\ backend # "local" => storage # "open"
    /\ phase = "stopStorage" => client = "closed"
    /\ loop = "subscribe" => client # "nil"

IInv == TypeOK /\ Progress /\ ClosedIsStopped
-----------------------------------------------------------------------------
\* The lifecycle that is stopped next runs, and was started last.
LEMMA NextDownIsLast ==
    ASSUME running \subseteq Lifecycles, running # {}
    PROVE  /\ NextDown \in running
           /\ \A t \in running : NextDown >= t
<1>1. \E s \in running : \A t \in running : s >= t
  <2>1. CASE Engine \in running
    BY <2>1 DEF Lifecycles, Eth, Engine
  <2>2. CASE Engine \notin running
    <3>1. running = {Eth}
      BY <2>2 DEF Lifecycles
    <3> QED
      BY <3>1 DEF Eth
  <2> QED
    BY <2>1, <2>2
<1> QED
  BY <1>1 DEF NextDown

\* The invariant holds of a node that was just constructed.
LEMMA InitInv == Init => IInv
<1>1. Init => Flags
  BY Zenon DEF Init, Flags
<1> QED
  BY <1>1, LifecycleConstants
   DEF Init, IInv, TypeOK, Progress, ClosedIsStopped, Lifecycles, Stages, Eth, Engine
-----------------------------------------------------------------------------
\* Flags stay flags.
LEMMA FlagsInv ==
    ASSUME Flags, Next
    PROVE  Flags'
<1> USE DEF Flags, nodeVars, engineVars, loopVars
<1>1. CASE StartOrClose
  BY <1>1, Zenon DEF StartOrClose, Start, StartEth, StartEngine, StartFails, Close, StopEth,
                     StopEngine, StopTransport, StopStorage, StopRest, doClose
<1>2. CASE ProcessMessages
  BY <1>2, Zenon DEF ProcessMessages, Subscribe, SelectDone, SelectMessage, NewMessage
<1>3. CASE Receive \/ ReceiverReturns \/ ClosePebble
  BY <1>3, Zenon DEF Receive, ReceiverReturns, ClosePebble
<1>4. CASE \E r \in Request : Accept(r) \/ Finalize(r) \/ Publish(r)
  BY <1>4, Zenon DEF Accept, Finalize, Publish
<1> QED
  BY <1>1, <1>2, <1>3, <1>4 DEF Next

\* Start and Close keep it.
LEMMA StartOrCloseInv ==
    ASSUME IInv, Flags', StartOrClose
    PROVE  IInv'
<1> USE LifecycleConstants
<1> USE DEF IInv, TypeOK, Progress, ClosedIsStopped, Lifecycles, Eth, Engine,
            engineVars, loopVars
<1>1. CASE Start
  <2>1. CASE state' = "running"
    BY <1>1, <2>1 DEF Start, doClose
  <2>2. CASE doClose
    BY <1>1, <2>2 DEF Start, doClose
  <2> QED
    BY <1>1, <2>1, <2>2, Zenon DEF Start
<1>2. CASE StartEth
  BY <1>2 DEF StartEth
<1>3. CASE StartEngine
  BY <1>3 DEF StartEngine
<1>4. CASE StartFails
  BY <1>4 DEF StartFails
<1>5. CASE Close
  BY <1>5 DEF Close, doClose
<1>6. CASE StopEth
  BY <1>6 DEF StopEth
<1>7. CASE StopEngine
  <2>1. NextDown \in running
    BY <1>7, NextDownIsLast DEF StopEngine
  <2> QED
    BY <1>7, <2>1 DEF StopEngine
<1>8. CASE StopTransport
  BY <1>8 DEF StopTransport
<1>9. CASE StopStorage
  BY <1>9 DEF StopStorage
<1>10. CASE StopRest
  BY <1>10 DEF StopRest, doClose
<1> QED
  BY <1>1, <1>2, <1>3, <1>4, <1>5, <1>6, <1>7, <1>8, <1>9, <1>10 DEF StartOrClose

\* So do the goroutines of the engine, and requests.
LEMMA GoroutinesInv ==
    ASSUME IInv, Flags',
           \/ ProcessMessages \/ Receive \/ ReceiverReturns \/ ClosePebble
           \/ \E r \in Request : Accept(r) \/ Finalize(r) \/ Publish(r)
    PROVE  IInv'
<1> USE LifecycleConstants
<1> USE DEF IInv, TypeOK, Progress, ClosedIsStopped, Lifecycles, Eth, Engine,
            nodeVars, engineVars, loopVars
<1>1. CASE Subscribe
  BY <1>1 DEF Subscribe
<1>2. CASE SelectDone
  BY <1>2 DEF SelectDone
<1>3. CASE SelectMessage
  BY <1>3 DEF SelectMessage
<1>4. CASE NewMessage
  BY <1>4 DEF NewMessage
<1>5. CASE Receive
  BY <1>5 DEF Receive
<1>6. CASE ReceiverReturns
  BY <1>6 DEF ReceiverReturns
<1>7. CASE ClosePebble
  BY <1>7 DEF ClosePebble
<1>8. ASSUME NEW r \in Request, Accept(r) \/ Finalize(r) \/ Publish(r)
      PROVE  IInv'
  <2>1. req' \in [Request -> Stages]
    BY <1>8 DEF Accept, Finalize, Publish, Stages
  <2>2. UNCHANGED <<nodeVars, engineVars, loopVars>>
    BY <1>8 DEF Accept, Finalize, Publish
  <2> QED
    BY <2>1, <2>2
<1> QED
  BY <1>1, <1>2, <1>3, <1>4, <1>5, <1>6, <1>7, <1>8 DEF ProcessMessages

\* The invariant holds throughout.
LEMMA Invariance == Spec => []IInv
<1>1. ASSUME IInv, [Next]_vars PROVE IInv'
  <2>1. CASE UNCHANGED vars
    BY <1>1, <2>1 DEF IInv, TypeOK, Flags, Progress, ClosedIsStopped, vars, nodeVars, engineVars, loopVars
  <2>2. CASE Next
    BY <1>1, <2>2, FlagsInv, StartOrCloseInv, GoroutinesInv DEF Next, IInv, TypeOK
  <2> QED
    BY <1>1, <2>1, <2>2
<1> QED
  BY <1>1, InitInv, PTL DEF Spec
-----------------------------------------------------------------------------
\* A closed node (doClose in node.go) has given everything back exactly once,
\* whichever lifecycle failed to start and whatever ran meanwhile.
THEOREM ClosedStopped == Spec => [](TypeOK /\ ClosedIsStopped)
<1>1. IInv => TypeOK /\ ClosedIsStopped
  BY DEF IInv
<1> QED
  BY <1>1, Invariance, PTL

\* stopServices stops lifecycles in the reverse order of their start, and the
\* databases are closed when all are stopped.
THEOREM StoppedInReverse == Spec => StopsInReverse
<1>1. ASSUME IInv, [Next]_vars
      PROVE  [/\ \A s \in running \ running' : \A t \in running' : t < s
              /\ databases' # databases => running = {}]_vars
  <2>1. CASE running' = running /\ databases' = databases
    BY <2>1
  <2>2. CASE StartOrClose
    <3> USE DEF engineVars, loopVars, Eth, Engine, Lifecycles
    <3>1. CASE Start \/ Close \/ StopRest
      BY <1>1, <3>1 DEF Start, Close, StopRest, doClose, IInv, Progress
    <3>2. CASE StartEth \/ StartEngine \/ StartFails \/ StopEngine \/ StopTransport
      BY <3>2 DEF StartEth, StartEngine, StartFails, StopEngine, StopTransport
    <3>3. CASE StopEth
      <4>1. \A t \in running : NextDown >= t
        BY <1>1, <3>3, NextDownIsLast DEF IInv, TypeOK, StopEth
      <4> QED
        BY <1>1, <3>3, <4>1 DEF IInv, TypeOK, StopEth
    <3>4. CASE StopStorage
      BY <1>1, <3>4 DEF IInv, TypeOK, StopStorage
    <3> QED
      BY <2>2, <3>1, <3>2, <3>3, <3>4 DEF StartOrClose
  <2> QED
    BY <1>1, <2>1, <2>2
       DEF Next, ProcessMessages, Subscribe, SelectDone, SelectMessage, NewMessage, Receive,
           ReceiverReturns, ClosePebble, Accept, Finalize, Publish, vars, nodeVars
<1> QED
  BY <1>1, Invariance, PTL DEF Spec, StopsInReverse

\* The goroutines that publish and that handle messages meet neither a missing
\* client nor a closed database before the engine is stopped.
THEOREM EngineKeepsNodeUp == Spec => NoCrashWhileRunning
<1>1. ASSUME IInv, [Next]_vars
      PROVE  [crashed' # crashed => Engine \notin running]_vars
  <2> USE DEF IInv, TypeOK, Flags, Progress
  <2>1. CASE crashed' = crashed
    BY <2>1
  <2>2. CASE Subscribe
    BY <1>1, <2>2 DEF Subscribe
  <2>3. CASE NewMessage
    BY <1>1, <2>3 DEF NewMessage, StoragePanics
  <2>4. ASSUME NEW r \in Request, Publish(r), ~crashed
        PROVE  crashed' # crashed => Engine \notin running
    BY <1>1, <2>4 DEF Publish
  <2>5. CASE StartOrClose
    BY <2>1, <2>5 DEF StartOrClose, Start, StartEth, StartEngine, StartFails, Close, StopEth,
                      StopEngine, StopTransport, StopStorage, StopRest
  <2> QED
    BY <1>1, <2>1, <2>2, <2>3, <2>4, <2>5
       DEF Next, ProcessMessages, SelectDone, SelectMessage, Receive, ReceiverReturns,
           ClosePebble, Accept, Finalize, vars
<1> QED
  BY <1>1, Invariance, PTL DEF Spec, NoCrashWhileRunning
-----------------------------------------------------------------------------
(***************************************************************************)
(* What the parts stand on, and how they end.                              *)
(***************************************************************************)

\* The engine runs on top of the Ethereum service, both on the p2p server and the
\* databases; the goroutines of the engine have a context and a client, and the
\* loop subscribes once.
Grounded ==
    /\ Engine \in running => Eth \in running
    /\ running # {} => p2p /\ databases
    /\ loop # "none" \/ receiver # "none" => ctx # "none" /\ client # "nil"
    /\ loop \in {"none", "subscribe"} => receiver = "none"

\* The lifecycle that is started next was not started, and comes first among those.
LEMMA NextUpIsFirst ==
    ASSUME running \subseteq Lifecycles, Eth \notin running
    PROVE  NextUp = Eth
<1>1. Eth \in Lifecycles \ running /\ \A t \in Lifecycles \ running : Eth <= t
  BY DEF Lifecycles, Eth, Engine
<1>2. \A s \in Lifecycles \ running : (\A t \in Lifecycles \ running : s <= t) => s = Eth
  BY <1>1 DEF Lifecycles, Eth, Engine
<1> QED
  BY <1>1, <1>2, Zenon DEF NextUp

\* While it runs, the node has its p2p server.
Served == state = "running" => p2p

\* Start and Close keep this.
LEMMA GroundedByStart ==
    ASSUME IInv, Served, Grounded, StartOrClose
    PROVE  Served' /\ Grounded'
<1> USE DEF Served, Grounded, engineVars, loopVars
<1>t. /\ running \subseteq Lifecycles /\ p2p \in BOOLEAN
      /\ phase # "free" => state = "running"
      /\ state = "initializing" => running = {}
      /\ state # "closed" => databases
      /\ state = "closed" => running = {}
      /\ phase = "start" => ctx = "none"
  BY Zenon DEF IInv, TypeOK, Flags, Progress, ClosedIsStopped
<1>1. CASE Start
  BY <1>1, <1>t, Zenon DEF Start, doClose
<1>2. CASE StartEth
  BY <1>2, <1>t, Zenon DEF StartEth
<1>3. CASE StartEngine
  <2>1. Eth \in running
    BY <1>3, <1>t, NextUpIsFirst DEF StartEngine, Eth, Engine
  <2> QED
    BY <1>3, <1>t, <2>1 DEF StartEngine
<1>4. CASE StartFails
  BY <1>4, <1>t, Zenon DEF StartFails
<1>5. CASE Close
  BY <1>5, <1>t, Zenon DEF Close, doClose
<1>6. CASE StopEth
  <2>1. Engine \notin running
    BY <1>6, <1>t, NextDownIsLast DEF StopEth, Eth, Engine
  <2> QED
    BY <1>6, <1>t, <2>1, Zenon DEF StopEth
<1>7. CASE StopEngine
  BY <1>7, <1>t DEF StopEngine
<1>8. CASE StopTransport
  BY <1>8, <1>t DEF StopTransport
<1>9. CASE StopStorage
  <2>1. Engine \notin running'
    BY <1>9, Zenon DEF StopStorage
  <2> QED
    BY <1>9, <1>t, <2>1, Zenon DEF StopStorage
<1>10. CASE StopRest
  BY <1>10, <1>t, Zenon DEF StopRest, doClose
<1> QED
  BY <1>1, <1>2, <1>3, <1>4, <1>5, <1>6, <1>7, <1>8, <1>9, <1>10, Zenon DEF StartOrClose

\* It holds throughout.
LEMMA GroundedHolds == Spec => [](IInv /\ Grounded)
<1>1. Init => Served /\ Grounded
  BY DEF Init, Served, Grounded
<1>2. ASSUME IInv, Served, Grounded, [Next]_vars PROVE Served' /\ Grounded'
  <2> USE DEF Served, Grounded
  <2>1. CASE UNCHANGED vars
    BY <1>2, <2>1, Zenon DEF vars, nodeVars, engineVars, loopVars
  <2>2. CASE ProcessMessages \/ Receive \/ ReceiverReturns
    <3>1. UNCHANGED <<nodeVars, engineVars>> /\ (loop # "none" \/ receiver # "none")
      BY <2>2 DEF ProcessMessages, Subscribe, SelectDone, SelectMessage, NewMessage, Receive,
                  ReceiverReturns
    <3>2. loop' \in {"none", "subscribe"} => loop' = loop /\ receiver' = receiver
      BY <1>2, <2>2 DEF ProcessMessages, Subscribe, SelectDone, SelectMessage, NewMessage, Receive,
                  ReceiverReturns
    <3> QED
      BY <1>2, <3>1, <3>2, Zenon DEF nodeVars, engineVars
  <2>3. CASE ClosePebble
    BY <1>2, <2>3, Zenon DEF ClosePebble, nodeVars, loopVars
  <2>4. ASSUME NEW r \in Request, Accept(r) \/ Finalize(r) \/ Publish(r)
        PROVE  Served' /\ Grounded'
    BY <1>2, <2>4, Zenon DEF Accept, Finalize, Publish, nodeVars, engineVars, loopVars
  <2> HIDE DEF Served, Grounded
  <2> QED
    BY <1>2, <2>1, <2>2, <2>3, <2>4, GroundedByStart, Zenon DEF Next
<1> QED
  BY <1>1, <1>2, Invariance, PTL DEF Spec

\* While the engine runs so does the Ethereum service below it, and while either
\* of them runs, so does the p2p server and the databases are open: in the middle
\* of Start and Close, and when a lifecycle fails to start.
THEOREM RunsOnWhatItNeeds ==
    Spec => []/\ Engine \in running => Eth \in running
              /\ running # {} => p2p /\ databases
<1>1. Grounded => /\ Engine \in running => Eth \in running
                  /\ running # {} => p2p /\ databases
  BY Zenon DEF Grounded
<1> QED
  BY <1>1, GroundedHolds, PTL

\* When a node is closed, the message loop and the receiver of its engine, wherever
\* they are, have their way out: the context the loop selects on is done, and the
\* client whose context the receiver waits for is closed.  (LoopsReturn adds that
\* they take it.)
THEOREM ClosedLeavesWayOut ==
    Spec => [](state = "closed" => /\ loop # "none" => ctx = "done"
                                   /\ receiver # "none" => client = "closed")
<1>1. IInv /\ Grounded => (state = "closed" => /\ loop # "none" => ctx = "done"
                                               /\ receiver # "none" => client = "closed")
  BY DEF IInv, TypeOK, ClosedIsStopped, Grounded
<1> QED
  BY <1>1, GroundedHolds, PTL

\* What a step of a closed node leaves as it is: the node itself, the context and
\* the client of its engine, the requests that were not accepted, and goroutines
\* that have returned.  The channel is only emptied.
OnlyDrains ==
    /\ UNCHANGED <<state, phase, rpc, p2p, running, databases, closes, ctx, client>>
    /\ \A r \in Request : req[r] = "new" => req'[r] = "new"
    /\ loop = "none" => loop' = "none"
    /\ loop = "gone" => loop' = "gone"
    /\ receiver = "gone" => receiver' = "gone"
    /\ chan' <= chan

\* A closed node stays closed, and what is left of its engine only drains: no
\* message is received, no request accepted and no goroutine comes back.  A message
\* loop that has not subscribed yet still does so; ClosedLeavesWayOut is about the
\* receiver it then starts, too.
THEOREM ClosedForGood == Spec => [][state = "closed" => OnlyDrains]_vars
<1>1. ASSUME IInv, Grounded, Next, state = "closed" PROVE OnlyDrains
  <2>t. /\ phase = "free" /\ ~rpc /\ client # "open" /\ chan \in Nat
        /\ req \in [Request -> Stages]
        /\ loop \in {"none", "subscribe"} => receiver = "none"
    BY <1>1 DEF IInv, TypeOK, Progress, ClosedIsStopped, Grounded
  <2> USE DEF OnlyDrains, nodeVars, engineVars, loopVars
  <2>1. ~StartOrClose
    BY <1>1, <2>t DEF StartOrClose, Start, StartEth, StartEngine, StartFails, Close, StopEth,
                      StopEngine, StopTransport, StopStorage, StopRest
  <2>2. CASE ProcessMessages
    <3>1. CASE Subscribe
      BY <2>t, <3>1 DEF Subscribe
    <3>2. CASE SelectDone
      BY <2>t, <3>2 DEF SelectDone
    <3>3. CASE SelectMessage
      BY <2>t, <3>3 DEF SelectMessage
    <3>4. CASE NewMessage
      BY <2>t, <3>4 DEF NewMessage
    <3> QED
      BY <2>2, <3>1, <3>2, <3>3, <3>4, Zenon DEF ProcessMessages
  <2>3. CASE Receive \/ ReceiverReturns \/ ClosePebble
    BY <2>t, <2>3 DEF Receive, ReceiverReturns, ClosePebble
  <2>4. ASSUME NEW r \in Request, Accept(r) \/ Finalize(r) \/ Publish(r)
        PROVE  OnlyDrains
    BY <2>t, <2>4 DEF Accept, Finalize, Publish
  <2> QED
    BY <1>1, <2>1, <2>2, <2>3, <2>4, Zenon DEF Next
<1> QED
  BY <1>1, GroundedHolds, PTL DEF Spec
=============================================================================
