------------------------- MODULE TransactionalStore -------------------------
(***************************************************************************)
(* The confidential store as one execution node offers it to concurrently  *)
(* running confidential requests: a TransactionalStore per request         *)
(* (suave/cstore/transactional_store.go) over one ConfidentialStoreEngine  *)
(* (suave/cstore/engine.go) over one storage backend (module LocalStore).  *)
(*                                                                         *)
(* A request works on its pending bids and writes, invisible to others,    *)
(* until the node calls Finalize.  Finalize is not atomic: it makes one    *)
(* backend call after the other, each under the backend's own lock, and    *)
(* the Finalize of another request may run in between.  It stops at the    *)
(* first error and does not undo what it did.                              *)
(***************************************************************************)
EXTENDS LocalStore, Naturals

CONSTANTS
    Address,            \* callers: contracts and precompiles
    AllowedPeekerAny,   \* the wildcard entry of an AllowedPeekers list
    AllowedPeekers,     \* [BidId -> SUBSET (Address \union {AllowedPeekerAny})]
    Signed,             \* the requests that carry their sender's signature
    MaxWrites           \* bound: writes of one request

VARIABLES
    phase,          \* [Tx -> Phases], where each request is
    pendingBids,    \* [Tx -> SUBSET BidId], created by the request
    pendingWrites,  \* [Tx -> Seq(StoreWrite)], in order of Store calls
    toInit,         \* [Tx -> SUBSET BidId], bids Finalize has not initialized
    applied,        \* [Tx -> Nat], writes Finalize has handed to the backend
    published       \* requests whose DAMessage was handed to the transport

txVars == <<phase, pendingBids, pendingWrites, toInit, applied, published>>
vars == <<storeVars, txVars>>

Phases == {"open", "discarded", "finalizing", "failed", "unsigned", "done"}

\* A StoreWrite without its Bid's contents, which the id determines.
StoreWrite == [bid : BidId, caller : Address, key : Key, value : Value]

ASSUME TxConstants ==
    /\ AllowedPeekers \in [BidId -> SUBSET (Address \union {AllowedPeekerAny})]
    /\ AllowedPeekerAny \notin Address
    /\ Signed \subseteq Tx
    /\ MaxWrites \in Nat

TypeOK ==
    /\ StoreTypeOK
    /\ phase \in [Tx -> Phases]
    /\ pendingBids \in [Tx -> SUBSET BidId]
    /\ pendingWrites \in [Tx -> Seq(StoreWrite)]
    /\ toInit \in [Tx -> SUBSET BidId]
    /\ applied \in [Tx -> Nat]
    /\ \A t \in Tx : applied[t] <= Len(pendingWrites[t])
    /\ published \in SUBSET Tx

Init ==
    /\ StoreInit
    /\ phase = [t \in Tx |-> "open"]
    /\ pendingBids = [t \in Tx |-> {}]
    /\ pendingWrites = [t \in Tx |-> <<>>]
    /\ toInit = [t \in Tx |-> {}]
    /\ applied = [t \in Tx |-> 0]
    /\ published = {}
-----------------------------------------------------------------------------
(***************************************************************************)
(* What a running request sees.                                            *)
(***************************************************************************)

MayPeek(b, c) == c \in AllowedPeekers[b] \/ AllowedPeekerAny \in AllowedPeekers[b]

\* The creator recorded in the bid that a lookup by id returns, None if it
\* returns an error.
FetchBidById(t, b) == IF b \in pendingBids[t] THEN t ELSE bids[b]

\* Mutant: the pending bids of the request are left out of the listing.
FetchStoredOnly(t, i) == FetchFromStore(i)

FetchBidsByProtocolAndBlock(t, i) ==
    FetchFromStore(i) \union {b \in pendingBids[t] : IndexKey[b] = i}

\* ConfidentialStoreEngine.Retrieve, None for each of its errors.
EngineRetrieve(b, c, k) ==
    IF Present(b) /\ MayPeek(b, c) THEN dataMap[b][k] ELSE None

\* The positions of the request's own writes of a key.
OwnWrites(t, b, k) ==
    {p \in DOMAIN pendingWrites[t] :
        pendingWrites[t][p].bid = b /\ pendingWrites[t][p].key = k}

\* TransactionalStore.Retrieve: its loop returns at the first pending write of
\* the key.
Retrieve(t, b, c, k) ==
    IF FetchBidById(t, b) = None \/ ~MayPeek(b, c) THEN None
    ELSE IF OwnWrites(t, b, k) = {} THEN EngineRetrieve(b, c, k)
    ELSE LET first == CHOOSE p \in OwnWrites(t, b, k) :
                        \A q \in OwnWrites(t, b, k) : p <= q
         IN  pendingWrites[t][first].value
-----------------------------------------------------------------------------
(***************************************************************************)
(* What a running request does.                                            *)
(***************************************************************************)

\* TransactionalStore.InitializeBid.  An id the request already created is an
\* error; an id that the engine already stores is not looked for.
InitializeBid(t, b) ==
    /\ phase[t] = "open"
    /\ b \notin pendingBids[t]
    /\ pendingBids' = [pendingBids EXCEPT ![t] = @ \union {b}]
    /\ UNCHANGED <<storeVars, phase, pendingWrites, toInit, applied, published>>

\* Mutant: Store without its AllowedPeekers check.
StoreUnchecked(t, b, c, k, v) ==
    /\ phase[t] = "open"
    /\ Len(pendingWrites[t]) < MaxWrites
    /\ FetchBidById(t, b) # None
    /\ pendingWrites' = [pendingWrites EXCEPT ![t] =
            Append(@, [bid |-> b, caller |-> c, key |-> k, value |-> v])]
    /\ UNCHANGED <<storeVars, phase, pendingBids, toInit, applied, published>>

\* TransactionalStore.Store.
Store(t, b, c, k, v) ==
    /\ phase[t] = "open"
    /\ Len(pendingWrites[t]) < MaxWrites
    /\ FetchBidById(t, b) # None
    /\ MayPeek(b, c)
    /\ pendingWrites' = [pendingWrites EXCEPT ![t] =
            Append(@, [bid |-> b, caller |-> c, key |-> k, value |-> v])]
    /\ UNCHANGED <<storeVars, phase, pendingBids, toInit, applied, published>>

\* The execution fails and runMEVM returns no finalize function.
Discard(t) ==
    /\ phase[t] = "open"
    /\ phase' = [phase EXCEPT ![t] = "discarded"]
    /\ UNCHANGED <<storeVars, pendingBids, pendingWrites, toInit, applied, published>>
-----------------------------------------------------------------------------
(***************************************************************************)
(* Finalize, one backend call per step.                                    *)
(***************************************************************************)

Finalize(t) ==
    /\ phase[t] = "open"
    /\ phase' = [phase EXCEPT ![t] = "finalizing"]
    /\ toInit' = [toInit EXCEPT ![t] = pendingBids[t]]
    /\ UNCHANGED <<storeVars, pendingBids, pendingWrites, applied, published>>

\* One turn of the loop over newBids, whose order Go leaves open.
FinalizeBid(t, b) ==
    /\ phase[t] = "finalizing"
    /\ b \in toInit[t]
    /\ InitializeBidInStore(b, t)
    /\ toInit' = [toInit EXCEPT ![t] = @ \ {b}]
    /\ UNCHANGED <<phase, pendingBids, pendingWrites, applied, published>>

FinalizeBidPresent(t, b) ==
    /\ phase[t] = "finalizing"
    /\ b \in toInit[t]
    /\ Present(b)
    /\ phase' = [phase EXCEPT ![t] = "failed"]
    /\ UNCHANGED <<storeVars, pendingBids, pendingWrites, toInit, applied, published>>

\* Mutant: the two loops of Finalize may run in either order.
FinalizeWriteEarly(t) ==
    /\ phase[t] = "finalizing"
    /\ applied[t] < Len(pendingWrites[t])
    /\ LET sw == pendingWrites[t][applied[t] + 1]
       IN  StoreInStore(sw.bid, sw.key, sw.value)
    /\ applied' = [applied EXCEPT ![t] = @ + 1]
    /\ UNCHANGED <<phase, pendingBids, pendingWrites, toInit, published>>

\* Mutant: the writes are applied from the last to the first.
FinalizeWriteReversed(t) ==
    /\ phase[t] = "finalizing"
    /\ toInit[t] = {}
    /\ applied[t] < Len(pendingWrites[t])
    /\ LET sw == pendingWrites[t][Len(pendingWrites[t]) - applied[t]]
       IN  StoreInStore(sw.bid, sw.key, sw.value)
    /\ applied' = [applied EXCEPT ![t] = @ + 1]
    /\ UNCHANGED <<phase, pendingBids, pendingWrites, toInit, published>>

\* One turn of the loop over stores, after the loop over newBids.
FinalizeWrite(t) ==
    /\ phase[t] = "finalizing"
    /\ toInit[t] = {}
    /\ applied[t] < Len(pendingWrites[t])
    /\ LET sw == pendingWrites[t][applied[t] + 1]
       IN  StoreInStore(sw.bid, sw.key, sw.value)
    /\ applied' = [applied EXCEPT ![t] = @ + 1]
    /\ UNCHANGED <<phase, pendingBids, pendingWrites, toInit, published>>

\* Mutant: a failing Finalize removes the bids the request meant to create.
FinalizeFailsDeinitialize(t) ==
    /\ phase[t] = "finalizing"
    /\ toInit[t] # {} \/ applied[t] < Len(pendingWrites[t]) \/ t \in Signed
    /\ phase' = [phase EXCEPT ![t] = "failed"]
    /\ bids' = [b \in BidId |-> IF b \in pendingBids[t] THEN None ELSE bids[b]]
    /\ UNCHANGED <<dataMap, index, pendingBids, pendingWrites, toInit, applied, published>>

\* A backend call of either loop returns an error or, after the loops, the
\* wallet does not sign the message of a signed request.
FinalizeFails(t) ==
    /\ phase[t] = "finalizing"
    /\ toInit[t] # {} \/ applied[t] < Len(pendingWrites[t]) \/ t \in Signed
    /\ phase' = [phase EXCEPT ![t] = "failed"]
    /\ UNCHANGED <<storeVars, pendingBids, pendingWrites, toInit, applied, published>>

\* Mutant: the message goes out before the signature is looked at.
FinalizePublishUnsigned(t) ==
    /\ phase[t] = "finalizing"
    /\ toInit[t] = {}
    /\ applied[t] = Len(pendingWrites[t])
    /\ phase' = [phase EXCEPT ![t] = IF t \in Signed THEN "done" ELSE "unsigned"]
    /\ published' = published \union {t}
    /\ UNCHANGED <<storeVars, pendingBids, pendingWrites, toInit, applied>>

\* After the loops: an unsigned request ends in ErrUnsignedFinalize, a signed
\* one is signed by the node and published.
FinalizePublish(t) ==
    /\ phase[t] = "finalizing"
    /\ toInit[t] = {}
    /\ applied[t] = Len(pendingWrites[t])
    /\ phase' = [phase EXCEPT ![t] = IF t \in Signed THEN "done" ELSE "unsigned"]
    /\ published' = IF t \in Signed THEN published \union {t} ELSE published
    /\ UNCHANGED <<storeVars, pendingBids, pendingWrites, toInit, applied>>

\* What the goroutine that runs Finalize does by itself.
FinalizeStep(t) ==
    \/ \E b \in BidId : FinalizeBid(t, b) \/ FinalizeBidPresent(t, b)
    \/ FinalizeWrite(t)
    \/ FinalizePublish(t)

Next ==
    \E t \in Tx :
        \/ \E b \in BidId : InitializeBid(t, b)
        \/ \E b \in BidId, c \in Address, k \in Key, v \in Value : Store(t, b, c, k, v)
        \/ Discard(t)
        \/ Finalize(t)
        \/ FinalizeStep(t)
        \/ FinalizeFails(t)

Spec == Init /\ [][Next]_vars
-----------------------------------------------------------------------------
(***************************************************************************)
(* Properties.                                                             *)
(***************************************************************************)

\* The writes of t on (b, k) that reached the backend.
AppliedWrites(t, b, k) == {p \in OwnWrites(t, b, k) : p <= applied[t]}

\* Every stored value was written by a request that reached Finalize, as one
\* of its pending writes, on behalf of a caller the bid allows: nothing of a
\* running or failed execution leaks, and no path avoids the peeker check.
StoredByPeeker ==
    \A b \in BidId, k \in Key :
        dataMap[b][k] # None =>
            \E t \in Tx : \E p \in AppliedWrites(t, b, k) :
                /\ phase[t] \notin {"open", "discarded"}
                /\ pendingWrites[t][p].value = dataMap[b][k]
                /\ MayPeek(b, pendingWrites[t][p].caller)

\* When one request only wrote a key, the store holds that request's latest
\* applied write: Finalize keeps the order of the Store calls.
SoleWriterWins ==
    \A t \in Tx, b \in BidId, k \in Key :
        /\ AppliedWrites(t, b, k) # {}
        /\ \A u \in Tx \ {t} : AppliedWrites(u, b, k) = {}
        => \E p \in AppliedWrites(t, b, k) :
                /\ \A q \in AppliedWrites(t, b, k) : q <= p
                /\ dataMap[b][k] = pendingWrites[t][p].value

\* Listing bids and looking them up by id give a request the same bids, at
\* every point of its own and of other requests' Finalize.
ListingMatchesLookup ==
    \A t \in Tx, i \in IndexKeys :
        FetchBidsByProtocolAndBlock(t, i)
            = {b \in BidId : IndexKey[b] = i /\ FetchBidById(t, b) # None}

\* A message goes out only for a signed request, once the node itself holds
\* every bid the request created, as created by it, and a value for every key
\* it wrote.
PublishedIsComplete ==
    \A t \in published :
        /\ t \in Signed
        /\ \A b \in pendingBids[t] : bids[b] = t
        /\ \A p \in DOMAIN pendingWrites[t] :
            dataMap[pendingWrites[t][p].bid][pendingWrites[t][p].key] # None

\* A stored bid is never replaced or removed, and a key never loses its value,
\* whatever requests run and however their Finalize ends.
StoreOnlyGrows ==
    [][/\ \A b \in BidId : Present(b) => bids'[b] = bids[b]
       /\ \A b \in BidId, k \in Key :
            dataMap[b][k] # None => dataMap'[b][k] # None]_vars

\* What a request reads under a key it wrote is what its Finalize will leave
\* there: the value it stored last (README.md: Store "stores a given value
\* under a specified key").
ReadsOwnLatestWrite ==
    \A t \in Tx, b \in BidId, c \in Address, k \in Key :
        /\ phase[t] = "open"
        /\ OwnWrites(t, b, k) # {}
        /\ MayPeek(b, c)
        => \E p \in OwnWrites(t, b, k) :
                /\ \A q \in OwnWrites(t, b, k) : q <= p
                /\ Retrieve(t, b, c, k) = pendingWrites[t][p].value
=============================================================================
