----------------------------- MODULE EthBackend -----------------------------
(***************************************************************************)
(* Concurrent confidential requests that have blocks built by a remote     *)
(* Ethereum node (suave/backends/eth_backends.go and                       *)
(* eth_backend_server.go).                                                 *)
(*                                                                         *)
(* RemoteEthBackend keeps one RPC client for all requests.  call dials it  *)
(* when the pointer is nil and drops it when a call fails, whatever the    *)
(* reason: a server that refuses a bundle, the deadline of simulateBundle, *)
(* a connection that broke.  None of this is locked ("should lock"), and   *)
(* the pointer is read again at each use, so every access is a step.       *)
(*                                                                         *)
(* Each caller makes one call; the client that it dials is named after it. *)
(* Close does nothing to a client over HTTP; the module is about the other *)
(* transports.                                                             *)
(***************************************************************************)
EXTENDS BlockBuilder, FiniteSets

CONSTANTS
    Caller,     \* goroutines of confidential requests
    Asks        \* [Caller -> SUBSET Request], what its contract may ask for

VARIABLES
    client,     \* e.client: the caller that dialed it, or None
    dialed,     \* clients that were made
    closed,     \* clients that were closed
    pc,         \* [Caller -> Steps]
    request,    \* [Caller -> Request or None]
    used,       \* [Caller -> Caller or None], the client the call was sent on
    mine,       \* [Caller -> Caller or None], the local variable client
    result,     \* [Caller -> Results], what the call ended with
    block,      \* [Caller -> block or None]
    met         \* history: [Caller -> SUBSET Caller], who ran at the same time

callVars == <<pc, request, used, mine, result, block, met>>
vars == <<client, dialed, closed, callVars>>

Steps == {"idle", "check", "dial", "assign", "use", "wait", "read", "clear", "close", "done"}
Results == {"none", "ok", "error", "panic", "nilPrice"}

\* buildEthBlock of a bid, or simulateBundle.
Request == [op : {"build"}, bid : BidId] \union [op : {"simulate"}, bundle : Bundle]

ASSUME BackendConstants ==
    /\ \A c \in Caller : \A r \in Asks[c] : r \in Request
    /\ None \notin Caller

MaybeClient == Caller \union {None}

TypeOK ==
    /\ client \in MaybeClient
    /\ dialed \subseteq Caller /\ closed \subseteq dialed
    /\ pc \in [Caller -> Steps]
    /\ used \in [Caller -> MaybeClient]
    /\ mine \in [Caller -> MaybeClient]
    /\ result \in [Caller -> Results]
    /\ met \in [Caller -> SUBSET Caller]
    /\ \A c \in Caller :
        /\ pc[c] # "idle" => request[c] \in Asks[c]
        /\ block[c] # None => block[c].pool \in 0 .. GasLimit /\ block[c].value \in Int

Init ==
    /\ client = None
    /\ dialed = {} /\ closed = {}
    /\ pc = [c \in Caller |-> "idle"]
    /\ request = [c \in Caller |-> None]
    /\ used = [c \in Caller |-> None]
    /\ mine = [c \in Caller |-> None]
    /\ result = [c \in Caller |-> "none"]
    /\ block = [c \in Caller |-> None]
    /\ met = [c \in Caller |-> {}]
-----------------------------------------------------------------------------
Active(c) == pc[c] \notin {"idle", "done"}
GoTo(c, step) == pc' = [pc EXCEPT ![c] = step] /\ UNCHANGED result
Return(c, out) == pc' = [pc EXCEPT ![c] = "done"] /\ result' = [result EXCEPT ![c] = out]

\* What is sent to the server.
Bundles(r) == IF r.op = "build" THEN mergedBundles(r.bid) ELSE <<r.bundle>>

\* buildEthBlock or simulateBundle up to the call.
Begin(c, r) ==
    /\ pc[c] = "idle"
    /\ request' = [request EXCEPT ![c] = r]
    /\ IF r.op = "build" /\ ~CanMerge(r.bid)
       THEN Return(c, "error") /\ UNCHANGED met
       ELSE /\ GoTo(c, "check")
            /\ met' = [d \in Caller |->
                        IF d = c THEN {e \in Caller : Active(e)}
                        ELSE IF Active(d) THEN met[d] \union {c} ELSE met[d]]
    /\ UNCHANGED <<client, dialed, closed, used, mine, block>>
-----------------------------------------------------------------------------
(***************************************************************************)
(* RemoteEthBackend.call.                                                  *)
(***************************************************************************)

Check(c) ==
    /\ pc[c] = "check"
    /\ GoTo(c, IF client = None THEN "dial" ELSE "use")
    /\ UNCHANGED <<client, dialed, closed, request, used, mine, block, met>>

Dial(c) ==
    /\ pc[c] = "dial"
    /\ dialed' = dialed \union {c}
    /\ GoTo(c, "assign")
    /\ UNCHANGED <<client, closed, request, used, mine, block, met>>

DialFails(c) ==
    /\ pc[c] = "dial"
    /\ Return(c, "error")
    /\ UNCHANGED <<client, dialed, closed, request, used, mine, block, met>>

Assign(c) ==
    /\ pc[c] = "assign"
    /\ client' = c
    /\ GoTo(c, "use")
    /\ UNCHANGED <<dialed, closed, request, used, mine, block, met>>

\* CallContext on e.client, which may be nil again.
Use(c) ==
    /\ pc[c] = "use"
    /\ IF client = None
       THEN Return(c, "panic") /\ UNCHANGED used
       ELSE GoTo(c, "wait") /\ used' = [used EXCEPT ![c] = client]
    /\ UNCHANGED <<client, dialed, closed, request, mine, block, met>>

\* EthBackendServer: the block that answers the request.
Serve(r) ==
    IF r.op = "build" THEN buildBlockFromBundles(Bundles(r))
    ELSE buildBlockFromTxs(r.bundle.txs)

\* simulateBundle divides by the gas used, and has no price for a block that
\* used none.
Outcome(r, b) == IF r.op = "simulate" /\ b.txs = <<>> THEN "nilPrice" ELSE "ok"

\* Mutant: the client serves one call only.
AnswerOnce(c) ==
    /\ pc[c] = "wait"
    /\ used[c] \notin closed
    /\ LET b == Serve(request[c])
       IN  /\ b.ok
           /\ block' = [block EXCEPT ![c] = b]
           /\ Return(c, Outcome(request[c], b))
    /\ client' = None
    /\ UNCHANGED <<dialed, closed, request, used, mine, met>>

Answer(c) ==
    /\ pc[c] = "wait"
    /\ used[c] \notin closed
    /\ LET b == Serve(request[c])
       IN  /\ b.ok
           /\ block' = [block EXCEPT ![c] = b]
           /\ Return(c, Outcome(request[c], b))
    /\ UNCHANGED <<client, dialed, closed, request, used, mine, met>>

\* The builder returns an error, and the server passes it on.
AnswerError(c) ==
    /\ pc[c] = "wait"
    /\ used[c] \notin closed
    /\ LET b == Serve(request[c])
       IN  /\ ~b.ok
           /\ block' = [block EXCEPT ![c] = b]
    /\ GoTo(c, "read")
    /\ UNCHANGED <<client, dialed, closed, request, used, mine, met>>

\* Mutant: a call that was not answered leaves the client in place.
FailReturns(c) ==
    /\ pc[c] = "wait"
    /\ Return(c, "error")
    /\ UNCHANGED <<client, dialed, closed, request, used, mine, block, met>>

\* The connection breaks, the deadline passes, or another call closed the
\* client.
Fail(c) ==
    /\ pc[c] = "wait"
    /\ GoTo(c, "read")
    /\ UNCHANGED <<client, dialed, closed, request, used, mine, block, met>>

Read(c) ==
    /\ pc[c] = "read"
    /\ mine' = [mine EXCEPT ![c] = client]
    /\ GoTo(c, "clear")
    /\ UNCHANGED <<client, dialed, closed, request, used, block, met>>

\* Mutant: the pointer is not reset.
ClearForgotten(c) ==
    /\ pc[c] = "clear"
    /\ GoTo(c, "close")
    /\ UNCHANGED <<client, dialed, closed, request, used, mine, block, met>>

Clear(c) ==
    /\ pc[c] = "clear"
    /\ client' = None
    /\ GoTo(c, "close")
    /\ UNCHANGED <<dialed, closed, request, used, mine, block, met>>

\* Mutant: the client is dropped and not closed.
CloseSkipped(c) ==
    /\ pc[c] = "close"
    /\ Return(c, "error")
    /\ UNCHANGED <<client, dialed, closed, request, used, mine, block, met>>

\* client.Close(), which may be called on nil or a second time.
Close(c) ==
    /\ pc[c] = "close"
    /\ IF mine[c] = None
       THEN Return(c, "panic") /\ UNCHANGED closed
       ELSE Return(c, "error") /\ closed' = closed \union {mine[c]}
    /\ UNCHANGED <<client, dialed, request, used, mine, block, met>>

Next ==
    \E c \in Caller :
        \/ \E r \in Asks[c] : Begin(c, r)
        \/ Check(c) \/ Dial(c) \/ DialFails(c) \/ Assign(c) \/ Use(c)
        \/ Answer(c) \/ AnswerError(c) \/ Fail(c)
        \/ Read(c) \/ Clear(c) \/ Close(c)

Spec == Init /\ [][Next]_vars
-----------------------------------------------------------------------------
(***************************************************************************)
(* Properties of the shared client.                                        *)
(***************************************************************************)

\* However calls interleave, the shared pointer never leads to a client that
\* was closed: call resets it before it closes the client, and a client is put
\* there only once.
PublishedIsOpen == client # None => client \in dialed \ closed

\* A call that was sent and failed has taken the client it was sent on out of
\* use, also when another call replaced it meanwhile: the next call dials.
DropsFailed ==
    \A c \in Caller :
        result[c] \in {"error", "panic"} /\ used[c] # None => client # used[c]

\* c has failed and has reset the pointer.
HasCleared(c) ==
    pc[c] = "close" \/ (used[c] # None /\ result[c] \in {"error", "panic"})

\* The nil pointer is met only by a call that another one, running at the same
\* time, failed under: one call after the other never meets it.
PanicNeedsFailure ==
    \A c \in Caller : result[c] = "panic" => \E d \in met[c] \ {c} : HasCleared(d)

\* Whether c still has, or will set, a pointer to client x.
Holds(c, x) ==
    \/ pc[c] = "assign" /\ c = x
    \/ pc[c] \in {"clear", "close"} /\ mine[c] = x

\* A connection that nothing leads to any more, and that will never be closed,
\* was dialed by a call that overlapped another one.
LeakNeedsOverlap ==
    \A x \in dialed \ closed :
        client # x /\ (\A c \in Caller : ~Holds(c, x)) => met[x] # {}
-----------------------------------------------------------------------------
(***************************************************************************)
(* Properties of the blocks.                                               *)
(***************************************************************************)

BuiltFor(c) == pc[c] # "idle" /\ request[c].op = "build" /\ block[c] # None

\* A block that is returned holds all bundles, each in one piece and in order,
\* followed by its refund, and the payment to the proposer at the end.  The one
\* way to miss the end is the gas: then the block stops where less than a
\* transfer's gas is left ("failing bundles will cause the block to not be
\* built").
BlockIsWhole ==
    \A c \in Caller : BuiltFor(c) /\ block[c].ok =>
        LET order == BlockOrder(Bundles(request[c]))
        IN  \/ Order(block[c]) = order
            \/ /\ \E n \in 0 .. Len(order) - 1 : Order(block[c]) = SubSeq(order, 1, n)
               /\ block[c].pool < TxGas

\* Refunds and the proposer's payment are always covered by what the bundles
\* paid: a build fails because of a bundle's transactions or for gas only.
PaymentsFunded ==
    \A c \in Caller :
        BuiltFor(c) /\ ~block[c].ok => Refusable(BlockOrder(Bundles(request[c])))

\* The value that a whole block reports is what its last transaction pays the
\* proposer, and of all that the bundles paid only the gas that this payment
\* did not use stays with the throwaway account.
ValueIsPaid ==
    \A c \in Caller :
        BuiltFor(c) /\ block[c].ok /\ Order(block[c]) = BlockOrder(Bundles(request[c])) =>
            /\ block[c].value = block[c].txs[Len(block[c].txs)].amount
            /\ Earned(block[c]) = Paid(block[c])
                    + Payments(block[c]) * TxGas * BaseFee + (PaymentGas - TxGas) * BaseFee
=============================================================================
