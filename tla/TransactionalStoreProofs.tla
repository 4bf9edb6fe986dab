---------------------- MODULE TransactionalStoreProofs ----------------------
(***************************************************************************)
(* Proofs about module TransactionalStore, for every set of requests,      *)
(* bids, keys and values and every bound on the number of writes.          *)
(***************************************************************************)
EXTENDS TransactionalStore, TLAPS

\* A pending write passed the peeker check, and its bid is one the request
\* created or one the store holds.
PendingWritesAllowed ==
    \A t \in Tx : \A p \in DOMAIN pendingWrites[t] :
        LET sw == pendingWrites[t][p]
        IN  /\ MayPeek(sw.bid, sw.caller)
            /\ sw.bid \in pendingBids[t] \/ Present(sw.bid)

\* How far Finalize is.
Progress ==
    \A t \in Tx :
        /\ toInit[t] \subseteq pendingBids[t]
        /\ phase[t] \in {"open", "discarded"} => applied[t] = 0
        /\ applied[t] > 0 => toInit[t] = {}
        /\ phase[t] \notin {"open", "discarded"} =>
            \A b \in pendingBids[t] \ toInit[t] : bids[b] = t
        /\ phase[t] = "done" =>
            t \in Signed /\ toInit[t] = {} /\ applied[t] = Len(pendingWrites[t])
        /\ t \in published => phase[t] = "done"

\* A write that was applied left a value.
AppliedLeavesValue ==
    \A t \in Tx, b \in BidId, k \in Key :
        AppliedWrites(t, b, k) # {} => dataMap[b][k] # None

IInv ==
    /\ TypeOK
    /\ IndexIsExact
    /\ PendingWritesAllowed
    /\ Progress
    /\ AppliedLeavesValue
    /\ DataHasBid
    /\ StoredByPeeker
    /\ SoleWriterWins
-----------------------------------------------------------------------------
(***************************************************************************)
(* Type correctness.                                                       *)
(***************************************************************************)

\* Appending to the pending writes, or to the index, gives the old sequence
\* one position more.
LEMMA AppendFacts ==
    ASSUME NEW S, NEW s \in Seq(S), NEW e \in S
    PROVE  /\ Append(s, e) \in Seq(S)
           /\ Len(Append(s, e)) = Len(s) + 1
           /\ DOMAIN Append(s, e) = DOMAIN s \union {Len(s) + 1}
           /\ Append(s, e)[Len(s) + 1] = e
           /\ \A p \in DOMAIN s : Append(s, e)[p] = s[p]
  OBVIOUS

\* A node starts with an empty store and requests that did nothing yet.
LEMMA InitTypeOK == Init => TypeOK
  BY StoreConstants, TxConstants
  DEF Init, StoreInit, TypeOK, StoreTypeOK, Phases

\* No operation of a request and no backend call of Finalize breaks a type.
LEMMA NextTypeOK == TypeOK /\ [Next]_vars => TypeOK'
  <1> SUFFICES ASSUME TypeOK, [Next]_vars PROVE TypeOK'
    OBVIOUS
  <1> USE StoreConstants, TxConstants DEF TypeOK, StoreTypeOK, Phases, storeVars
  <1>1. ASSUME NEW t \in Tx, NEW b \in BidId, InitializeBid(t, b)
        PROVE  TypeOK'
    BY <1>1 DEF InitializeBid
  <1>2. ASSUME NEW t \in Tx, NEW b \in BidId, NEW c \in Address, NEW k \in Key,
               NEW v \in Value, Store(t, b, c, k, v)
        PROVE  TypeOK'
    <2> DEFINE sw == [bid |-> b, caller |-> c, key |-> k, value |-> v]
    <2>1. sw \in StoreWrite
      BY DEF StoreWrite
    <2>2. /\ Append(pendingWrites[t], sw) \in Seq(StoreWrite)
          /\ Len(Append(pendingWrites[t], sw)) = Len(pendingWrites[t]) + 1
      BY <2>1, AppendFacts
    <2>3. \A u \in Tx : applied[u] <= Len(pendingWrites'[u])
      BY <1>2, <2>2 DEF Store
    <2>4. QED
      BY <1>2, <2>2, <2>3 DEF Store
  <1>3. ASSUME NEW t \in Tx, Discard(t)
        PROVE  TypeOK'
    BY <1>3 DEF Discard
  <1>4. ASSUME NEW t \in Tx, Finalize(t)
        PROVE  TypeOK'
    BY <1>4 DEF Finalize
  <1>5. ASSUME NEW t \in Tx, NEW b \in BidId, FinalizeBid(t, b)
        PROVE  TypeOK'
    <2>1. Append(index[IndexKey[b]], b) \in Seq(BidId)
      BY AppendFacts
    <2>2. QED
      BY <1>5, <2>1 DEF FinalizeBid, InitializeBidInStore
  <1>6. ASSUME NEW t \in Tx, NEW b \in BidId, FinalizeBidPresent(t, b)
        PROVE  TypeOK'
    BY <1>6, Zenon DEF FinalizeBidPresent
  <1>7. ASSUME NEW t \in Tx, FinalizeWrite(t)
        PROVE  TypeOK'
    <2>1. pendingWrites[t][applied[t] + 1] \in StoreWrite
      BY <1>7 DEF FinalizeWrite
    <2>2. dataMap' \in [BidId -> [Key -> Value \union {None}]]
      BY <1>7, <2>1 DEF FinalizeWrite, StoreInStore, StoreWrite
    <2>3. QED
      BY <1>7, <2>2 DEF FinalizeWrite, StoreInStore
  <1>8. ASSUME NEW t \in Tx, FinalizeFails(t)
        PROVE  TypeOK'
    BY <1>8 DEF FinalizeFails
  <1>9. ASSUME NEW t \in Tx, FinalizePublish(t)
        PROVE  TypeOK'
    BY <1>9 DEF FinalizePublish
  <1>10. CASE UNCHANGED vars
    BY <1>10 DEF vars, txVars
  <1>11. QED
    BY <1>1, <1>2, <1>3, <1>4, <1>5, <1>6, <1>7, <1>8, <1>9, <1>10, Zenon
    DEF Next, FinalizeStep

\* Every variable of the transactional store, the engine and the backend keeps
\* its type, and Finalize never counts more writes than the request made.
THEOREM TypeCorrect == Spec => []TypeOK
  BY InitTypeOK, NextTypeOK, PTL DEF Spec
-----------------------------------------------------------------------------
(***************************************************************************)
(* How a step changes the store and the applied writes.                    *)
(***************************************************************************)

\* Only the two loops of Finalize touch the backend.
LEMMA StoreFrame ==
    ASSUME [Next]_vars
    PROVE  \/ UNCHANGED storeVars
           \/ \E t \in Tx, b \in BidId : FinalizeBid(t, b)
           \/ \E t \in Tx : FinalizeWrite(t)
  <1> USE DEF storeVars
  <1>1. CASE UNCHANGED vars
    BY <1>1 DEF vars
  <1>2. CASE Next
    BY <1>2, ZenonT(40)
    DEF Next, FinalizeStep, InitializeBid, Store, Discard, Finalize,
        FinalizeBidPresent, FinalizeFails, FinalizePublish
  <1>3. QED
    BY <1>1, <1>2

\* A stored bid keeps its creator.
LEMMA BidsStay ==
    ASSUME TypeOK, [Next]_vars, NEW b \in BidId, Present(b)
    PROVE  bids'[b] = bids[b]
  <1>1. CASE UNCHANGED storeVars
    BY <1>1 DEF storeVars
  <1>2. ASSUME NEW t \in Tx, NEW d \in BidId, FinalizeBid(t, d)
        PROVE  bids'[b] = bids[b]
    BY <1>2 DEF FinalizeBid, InitializeBidInStore, Present, TypeOK, StoreTypeOK
  <1>3. ASSUME NEW t \in Tx, FinalizeWrite(t)
        PROVE  bids'[b] = bids[b]
    BY <1>3 DEF FinalizeWrite, StoreInStore
  <1>4. QED
    BY <1>1, <1>2, <1>3, StoreFrame

\* A request that is not open keeps its pending bids and writes; an open one
\* may gain some at the end.
LEMMA PendingFrame ==
    ASSUME TypeOK, [Next]_vars, NEW t \in Tx
    PROVE  /\ pendingBids[t] \subseteq pendingBids'[t]
           /\ DOMAIN pendingWrites[t] \subseteq DOMAIN pendingWrites'[t]
           /\ \A p \in DOMAIN pendingWrites[t] :
                pendingWrites'[t][p] = pendingWrites[t][p]
           /\ \A p \in DOMAIN pendingWrites'[t] \ DOMAIN pendingWrites[t] :
                p > Len(pendingWrites[t])
  <1>1. CASE UNCHANGED vars
    BY <1>1 DEF vars, txVars
  <1>2. ASSUME NEW u \in Tx, NEW b \in BidId, InitializeBid(u, b)
        PROVE  /\ pendingBids[t] \subseteq pendingBids'[t]
               /\ pendingWrites' = pendingWrites
    BY <1>2 DEF InitializeBid, TypeOK
  <1>3. ASSUME NEW u \in Tx, NEW b \in BidId, NEW c \in Address, NEW k \in Key,
               NEW v \in Value, Store(u, b, c, k, v)
        PROVE  /\ pendingBids' = pendingBids
               /\ DOMAIN pendingWrites[t] \subseteq DOMAIN pendingWrites'[t]
               /\ \A p \in DOMAIN pendingWrites[t] :
                    pendingWrites'[t][p] = pendingWrites[t][p]
               /\ \A p \in DOMAIN pendingWrites'[t] \ DOMAIN pendingWrites[t] :
                    p > Len(pendingWrites[t])
    <2> DEFINE sw == [bid |-> b, caller |-> c, key |-> k, value |-> v]
    <2>1. sw \in StoreWrite
      BY DEF StoreWrite
    <2>2. pendingWrites'[t] = IF t = u THEN Append(pendingWrites[t], sw)
                                       ELSE pendingWrites[t]
      BY <1>3 DEF Store, TypeOK
    <2>3. pendingWrites[t] \in Seq(StoreWrite)
      BY DEF TypeOK
    <2>4. QED
      BY <1>3, <2>1, <2>2, <2>3, AppendFacts DEF Store
  <1>4. ASSUME NEW u \in Tx,
               \/ Discard(u) \/ Finalize(u) \/ FinalizeFails(u)
               \/ FinalizeWrite(u) \/ FinalizePublish(u)
               \/ \E b \in BidId : FinalizeBid(u, b) \/ FinalizeBidPresent(u, b)
        PROVE  pendingBids' = pendingBids /\ pendingWrites' = pendingWrites
    BY <1>4
    DEF Discard, Finalize, FinalizeFails, FinalizeWrite, FinalizePublish,
        FinalizeBid, FinalizeBidPresent
  <1>5. QED
    BY <1>1, <1>2, <1>3, <1>4 DEF Next, FinalizeStep

\* Only FinalizeWrite applies a write, and it applies one.
LEMMA AppliedFrame ==
    ASSUME TypeOK, [Next]_vars, ~\E u \in Tx : FinalizeWrite(u),
           NEW t \in Tx, NEW b \in BidId, NEW k \in Key
    PROVE  /\ AppliedWrites(t, b, k)' = AppliedWrites(t, b, k)
           /\ \A p \in AppliedWrites(t, b, k) :
                pendingWrites'[t][p] = pendingWrites[t][p]
  <1>1. applied' = applied
    BY ZenonT(40) DEF Next, FinalizeStep, vars, txVars, InitializeBid, Store, Discard,
           Finalize, FinalizeFails, FinalizePublish, FinalizeBid,
           FinalizeBidPresent
  <1>2. applied[t] <= Len(pendingWrites[t]) /\ applied[t] \in Nat
    BY DEF TypeOK
  <1>3. pendingWrites[t] \in Seq(StoreWrite)
    BY DEF TypeOK
  <1>4. \A p \in DOMAIN pendingWrites'[t] :
            p \notin DOMAIN pendingWrites[t] => ~(p <= applied[t])
    <2>1. /\ TypeOK'
      BY NextTypeOK
    <2>2. pendingWrites'[t] \in Seq(StoreWrite)
      BY <2>1 DEF TypeOK
    <2>3. QED
      BY <1>2, <1>3, <2>2, PendingFrame
  <1>5. QED
    BY <1>1, <1>4, PendingFrame DEF AppliedWrites, OwnWrites

\* FinalizeWrite applies the next pending write: that position joins the
\* applied writes of its key, and its value becomes the stored one.
LEMMA AppliedStep ==
    ASSUME TypeOK, NEW t \in Tx, FinalizeWrite(t), NEW u \in Tx,
           NEW b \in BidId, NEW k \in Key
    PROVE  LET n == applied[t] + 1
               sw == pendingWrites[t][n]
           IN  /\ sw \in StoreWrite
               /\ n \in DOMAIN pendingWrites[t]
               /\ pendingWrites' = pendingWrites
               /\ AppliedWrites(u, b, k)' =
                    IF u = t /\ b = sw.bid /\ k = sw.key
                    THEN AppliedWrites(u, b, k) \union {n}
                    ELSE AppliedWrites(u, b, k)
               /\ dataMap'[b][k] = IF b = sw.bid /\ k = sw.key THEN sw.value
                                   ELSE dataMap[b][k]
  <1> DEFINE n == applied[t] + 1
             sw == pendingWrites[t][n]
  <1>1. pendingWrites[t] \in Seq(StoreWrite) /\ applied[t] \in Nat /\ applied \in [Tx -> Nat]
    BY DEF TypeOK
  <1>2. n \in DOMAIN pendingWrites[t] /\ sw \in StoreWrite
    BY <1>1 DEF FinalizeWrite
  <1>3. pendingWrites' = pendingWrites /\ applied' = [applied EXCEPT ![t] = n]
    BY DEF FinalizeWrite
  <1>4. dataMap'[b][k] = IF b = sw.bid /\ k = sw.key THEN sw.value
                         ELSE dataMap[b][k]
    BY <1>2 DEF FinalizeWrite, StoreInStore, TypeOK, StoreTypeOK, StoreWrite
  <1>5. OwnWrites(u, b, k)' = OwnWrites(u, b, k)
    BY <1>3 DEF OwnWrites
  <1>6. CASE u # t
    BY <1>2, <1>3, <1>4, <1>5, <1>6 DEF AppliedWrites, TypeOK
  <1>7. CASE u = t
    <2>1. applied'[u] = n
      BY <1>1, <1>3, <1>7
    <2>2. \A p \in DOMAIN pendingWrites[t] :
            p <= n <=> (p <= applied[t] \/ p = n)
      BY <1>1
    <2>3. AppliedWrites(u, b, k)' = {p \in OwnWrites(u, b, k) : p <= n}
      BY <1>5, <2>1 DEF AppliedWrites
    <2>4. n \in OwnWrites(u, b, k) <=> b = sw.bid /\ k = sw.key
      BY <1>2, <1>7 DEF OwnWrites
    <2>5. OwnWrites(u, b, k) \subseteq DOMAIN pendingWrites[t]
      BY <1>7 DEF OwnWrites
    <2>6. AppliedWrites(u, b, k)' = AppliedWrites(u, b, k)
                                \union (OwnWrites(u, b, k) \intersect {n})
      BY <1>7, <2>2, <2>3, <2>5 DEF AppliedWrites
    <2>7. QED
      BY <1>2, <1>3, <1>4, <1>7, <2>4, <2>6
  <1>8. QED
    BY <1>6, <1>7
-----------------------------------------------------------------------------
(***************************************************************************)
(* Each conjunct of the inductive invariant is preserved.                  *)
(***************************************************************************)

\* InitializeBid of the backend appends a bid that was not there.
LEMMA NextIndexIsExact ==
    ASSUME TypeOK, IndexIsExact, [Next]_vars
    PROVE  IndexIsExact'
  <1>1. CASE UNCHANGED storeVars
    BY <1>1 DEF storeVars, IndexIsExact, Present
  <1>2. ASSUME NEW t \in Tx, NEW d \in BidId, FinalizeBid(t, d)
        PROVE  IndexIsExact'
    <2>1. /\ ~Present(d)
          /\ bids' = [bids EXCEPT ![d] = t]
          /\ index' = [index EXCEPT ![IndexKey[d]] = Append(@, d)]
      BY <1>2 DEF FinalizeBid, InitializeBidInStore
    <2>2. SUFFICES ASSUME NEW i \in IndexKeys
          PROVE  /\ \A p, q \in DOMAIN index'[i] :
                        index'[i][p] = index'[i][q] => p = q
                 /\ \A b \in BidId :
                        bids'[b] # None /\ IndexKey[b] = i
                            <=> \E p \in DOMAIN index'[i] : index'[i][p] = b
      BY DEF IndexIsExact, Present
    <2>3. /\ index[i] \in Seq(BidId)
          /\ bids \in [BidId -> Tx \union {None}]
          /\ index'[i] = IF i = IndexKey[d] THEN Append(index[i], d) ELSE index[i]
      BY <2>1 DEF TypeOK, StoreTypeOK
    <2>4. \A b \in BidId : bids'[b] # None <=> b = d \/ Present(b)
      BY <2>1, <2>3, StoreConstants DEF Present
    <2>5. ~\E p \in DOMAIN index[i] : index[i][p] = d
      BY <2>1 DEF IndexIsExact
    <2>6. CASE i # IndexKey[d]
      BY <2>3, <2>4, <2>6 DEF IndexIsExact
    <2>7. CASE i = IndexKey[d]
      <3>1. /\ DOMAIN index'[i] = DOMAIN index[i] \union {Len(index[i]) + 1}
            /\ index'[i][Len(index[i]) + 1] = d
            /\ \A p \in DOMAIN index[i] : index'[i][p] = index[i][p]
        BY <2>3, <2>7, AppendFacts
      <3>2. QED
        BY <2>4, <2>5, <2>7, <3>1 DEF IndexIsExact
    <2>8. QED
      BY <2>6, <2>7
  <1>3. ASSUME NEW t \in Tx, FinalizeWrite(t)
        PROVE  IndexIsExact'
    BY <1>3 DEF FinalizeWrite, StoreInStore, IndexIsExact, Present
  <1>4. QED
    BY <1>1, <1>2, <1>3, StoreFrame

\* Store checks the peeker and the bid, and what it checked stays true.
LEMMA NextPendingWritesAllowed ==
    ASSUME TypeOK, PendingWritesAllowed, [Next]_vars
    PROVE  PendingWritesAllowed'
  <1>1. SUFFICES ASSUME NEW t \in Tx, NEW p \in DOMAIN pendingWrites'[t]
        PROVE  /\ MayPeek(pendingWrites'[t][p].bid, pendingWrites'[t][p].caller)
               /\ \/ pendingWrites'[t][p].bid \in pendingBids'[t]
                  \/ bids'[pendingWrites'[t][p].bid] # None
    BY DEF PendingWritesAllowed, MayPeek, Present
  <1>2. CASE p \in DOMAIN pendingWrites[t]
    <2>1. /\ pendingWrites'[t][p] = pendingWrites[t][p]
          /\ pendingBids[t] \subseteq pendingBids'[t]
      BY <1>2, PendingFrame
    <2>2. pendingWrites[t][p] \in StoreWrite
      <3>1. pendingWrites[t] \in Seq(StoreWrite)
        BY DEF TypeOK
      <3>2. QED
        BY <1>2, <3>1
    <2>3. Present(pendingWrites[t][p].bid) => bids'[pendingWrites[t][p].bid] # None
      BY <2>2, BidsStay DEF Present, StoreWrite
    <2>4. QED
      BY <1>2, <2>1, <2>3 DEF PendingWritesAllowed, Present
  <1>3. CASE p \notin DOMAIN pendingWrites[t]
    <2>1. PICK u \in Tx, b \in BidId, c \in Address, k \in Key, v \in Value :
              Store(u, b, c, k, v)
      <3>1. pendingWrites' # pendingWrites
        BY <1>3
      <3>2. QED
        BY <3>1 DEF Next, FinalizeStep, vars, txVars, InitializeBid, Discard,
          Finalize, FinalizeFails, FinalizePublish, FinalizeBid, FinalizeWrite,
          FinalizeBidPresent
    <2> u = t
      BY <1>3, <2>1 DEF Store, TypeOK
    <2> DEFINE sw == [bid |-> b, caller |-> c, key |-> k, value |-> v]
    <2>2. sw \in StoreWrite /\ pendingWrites[t] \in Seq(StoreWrite)
      BY ZenonT(40) DEF StoreWrite, TypeOK
    <2>3. pendingWrites'[t] = Append(pendingWrites[t], sw)
      BY <2>1 DEF Store, TypeOK
    <2>4. pendingWrites'[t][p] = sw
      BY <1>3, <2>2, <2>3, AppendFacts
    <2>5. b \in pendingBids'[t] \/ bids'[b] # None
      BY <2>1, Zenon DEF Store, FetchBidById, Present, storeVars
    <2>6. QED
      BY <2>1, <2>4, <2>5 DEF Store
  <1>4. QED
    BY <1>2, <1>3

\* The two loops of Finalize run one after the other, each to its end.
LEMMA NextProgress ==
    ASSUME TypeOK, Progress, [Next]_vars
    PROVE  Progress'
  <1> USE DEF Progress, storeVars
  <1>t. /\ phase \in [Tx -> Phases] /\ pendingBids \in [Tx -> SUBSET BidId]
        /\ toInit \in [Tx -> SUBSET BidId] /\ applied \in [Tx -> Nat]
        /\ bids \in [BidId -> Tx \union {None}]
        /\ \A t \in Tx : pendingWrites[t] \in Seq(StoreWrite)
        /\ \A t \in Tx : applied[t] <= Len(pendingWrites[t])
    BY DEF TypeOK, StoreTypeOK
  <1>1. CASE UNCHANGED vars
    BY <1>1 DEF vars, txVars
  <1>2. ASSUME NEW t \in Tx, NEW b \in BidId, InitializeBid(t, b)
        PROVE  Progress'
    BY <1>2, <1>t, Zenon DEF InitializeBid
  <1>3. ASSUME NEW t \in Tx, NEW b \in BidId, NEW c \in Address, NEW k \in Key,
               NEW v \in Value, Store(t, b, c, k, v)
        PROVE  Progress'
    <2>1. /\ phase[t] = "open"
          /\ \A u \in Tx \ {t} : pendingWrites'[u] = pendingWrites[u]
      BY <1>3 DEF Store, TypeOK
    <2>2. QED
      BY <1>3, <2>1 DEF Store
  <1>4. ASSUME NEW t \in Tx, Discard(t)
        PROVE  Progress'
    BY <1>4, <1>t DEF Discard
  <1>5. ASSUME NEW t \in Tx, Finalize(t)
        PROVE  Progress'
    BY <1>5, <1>t DEF Finalize
  <1>6. ASSUME NEW t \in Tx, NEW b \in BidId, FinalizeBid(t, b)
        PROVE  Progress'
    <2>1. /\ \A u \in Tx : phase'[u] = phase[u] /\ applied'[u] = applied[u]
          /\ \A u \in Tx : pendingBids'[u] = pendingBids[u]
          /\ pendingWrites' = pendingWrites /\ published' = published
          /\ \A u \in Tx : toInit'[u] = IF u = t THEN toInit[u] \ {b} ELSE toInit[u]
          /\ \A d \in BidId : bids'[d] = IF d = b THEN t ELSE bids[d]
          /\ bids[b] = None /\ phase[t] = "finalizing" /\ b \in toInit[t]
      BY <1>6, <1>t, ZenonT(40) DEF FinalizeBid, InitializeBidInStore, Present
    <2>2. ASSUME NEW u \in Tx, phase[u] \notin {"open", "discarded"},
                 NEW d \in pendingBids[u], d \notin toInit'[u]
          PROVE  bids'[d] = u
      <3>1. CASE d = b
        <4>1. d \in BidId /\ bids'[d] = t
          BY <2>1, <3>1
        <4>2. CASE u # t
          <5>1. d \notin toInit[u]
            BY <2>1, <2>2, <4>2, ZenonT(40)
          <5>2. bids[d] = u
            BY <2>2, <5>1
          <5>3. QED
            BY <2>1, <3>1, <5>2, StoreConstants
        <4>3. QED
          BY <4>1, <4>2
      <3>2. CASE d # b
        <4>1. d \in BidId /\ d \notin toInit[u]
          BY <1>t, <2>1, <2>2, <3>2, ZenonT(40)
        <4>2. QED
          BY <2>1, <2>2, <3>2, <4>1
      <3>3. QED
        BY <3>1, <3>2
    <2>3. ASSUME NEW u \in Tx
          PROVE  /\ toInit'[u] \subseteq pendingBids'[u]
                 /\ applied'[u] > 0 => toInit'[u] = {}
                 /\ phase'[u] = "done" => toInit'[u] = {}
      BY <2>1, ZenonT(40)
    <2>4. QED
      BY <2>1, <2>2, <2>3
  <1>7. ASSUME NEW t \in Tx, NEW b \in BidId, FinalizeBidPresent(t, b)
        PROVE  Progress'
    BY <1>7, <1>t DEF FinalizeBidPresent
  <1>8. ASSUME NEW t \in Tx, FinalizeWrite(t)
        PROVE  Progress'
    BY <1>8, <1>t DEF FinalizeWrite, StoreInStore
  <1>9. ASSUME NEW t \in Tx, FinalizePublish(t)
        PROVE  Progress'
    BY <1>9, <1>t DEF FinalizePublish
  <1>10. ASSUME NEW t \in Tx, FinalizeFails(t)
         PROVE  Progress'
    BY <1>10, <1>t DEF FinalizeFails
  <1>11. QED
    BY <1>1, <1>2, <1>3, <1>4, <1>5, <1>6, <1>7, <1>8, <1>9, <1>10, Zenon
    DEF Next, FinalizeStep

\* Steps other than FinalizeWrite leave the data alone.
LEMMA DataFrame ==
    ASSUME [Next]_vars, ~\E t \in Tx : FinalizeWrite(t)
    PROVE  dataMap' = dataMap
  BY StoreFrame DEF storeVars, FinalizeBid, InitializeBidInStore

\* A value, once written, is only overwritten by a value.
LEMMA NextAppliedLeavesValue ==
    ASSUME TypeOK, AppliedLeavesValue, [Next]_vars
    PROVE  AppliedLeavesValue'
  <1> SUFFICES ASSUME NEW u \in Tx, NEW b \in BidId, NEW k \in Key,
                      AppliedWrites(u, b, k)' # {}
               PROVE  dataMap'[b][k] # None
    BY DEF AppliedLeavesValue
  <1>1. CASE ~\E t \in Tx : FinalizeWrite(t)
    BY <1>1, AppliedFrame, DataFrame DEF AppliedLeavesValue
  <1>2. ASSUME NEW t \in Tx, FinalizeWrite(t)
        PROVE  dataMap'[b][k] # None
    <2>1. pendingWrites[t][applied[t] + 1].value # None
      BY <1>2, AppliedStep, StoreConstants DEF StoreWrite
    <2>2. QED
      BY <1>2, <2>1, AppliedStep DEF AppliedLeavesValue
  <1>3. QED
    BY <1>1, <1>2

\* The bid of the write being applied was initialized by the first loop, or
\* was there when Store looked it up.
LEMMA NextDataHasBid ==
    ASSUME TypeOK, PendingWritesAllowed, Progress, DataHasBid, [Next]_vars
    PROVE  DataHasBid'
  <1> SUFFICES ASSUME NEW b \in BidId, NEW k \in Key, dataMap'[b][k] # None
               PROVE  bids'[b] # None
    BY DEF DataHasBid, Present
  <1>1. CASE dataMap[b][k] # None
    BY <1>1, BidsStay DEF DataHasBid, Present
  <1>2. CASE dataMap[b][k] = None
    <2>1. PICK t \in Tx : FinalizeWrite(t)
      BY <1>2, DataFrame
    <2> DEFINE n == applied[t] + 1
    <2>2. /\ n \in DOMAIN pendingWrites[t]
          /\ b = pendingWrites[t][n].bid
      BY <1>2, <2>1, AppliedStep
    <2>3. phase[t] = "finalizing" /\ toInit[t] = {}
      BY <2>1, Zenon DEF FinalizeWrite
    <2>4. b \in pendingBids[t] => bids[b] = t
      BY <2>3 DEF Progress
    <2>5. Present(b)
      BY <2>2, <2>4, StoreConstants DEF PendingWritesAllowed, Present
    <2>6. QED
      BY <2>5, BidsStay DEF Present
  <1>3. QED
    BY <1>1, <1>2

\* An execution that can still be discarded has no applied writes, and one
\* that was finalized is never taken back.
LEMMA FinalizedStays ==
    ASSUME TypeOK, [Next]_vars, NEW t \in Tx, phase[t] \notin {"open", "discarded"}
    PROVE  phase'[t] \notin {"open", "discarded"}
  BY ZenonT(40) DEF TypeOK, Next, FinalizeStep, vars, txVars, InitializeBid, Store, Discard,
         Finalize, FinalizeFails, FinalizePublish, FinalizeBid, FinalizeWrite,
         FinalizeBidPresent

\* The write being applied passed the peeker check when it was made.
LEMMA NextStoredByPeeker ==
    ASSUME TypeOK, PendingWritesAllowed, StoredByPeeker, [Next]_vars
    PROVE  StoredByPeeker'
  <1> SUFFICES ASSUME NEW b \in BidId, NEW k \in Key, dataMap'[b][k] # None
               PROVE  \E t \in Tx : \E p \in AppliedWrites(t, b, k)' :
                        /\ phase'[t] \notin {"open", "discarded"}
                        /\ pendingWrites'[t][p].value = dataMap'[b][k]
                        /\ MayPeek(b, pendingWrites'[t][p].caller)
    BY DEF StoredByPeeker, MayPeek
  <1>1. ASSUME dataMap'[b][k] = dataMap[b][k],
               NEW t \in Tx, NEW p \in AppliedWrites(t, b, k),
               p \in AppliedWrites(t, b, k)',
               phase[t] \notin {"open", "discarded"},
               pendingWrites'[t][p] = pendingWrites[t][p],
               pendingWrites[t][p].value = dataMap[b][k],
               MayPeek(b, pendingWrites[t][p].caller)
        PROVE  \E u \in Tx : \E q \in AppliedWrites(u, b, k)' :
                        /\ phase'[u] \notin {"open", "discarded"}
                        /\ pendingWrites'[u][q].value = dataMap'[b][k]
                        /\ MayPeek(b, pendingWrites'[u][q].caller)
    BY <1>1, FinalizedStays
  <1>2. CASE ~\E t \in Tx : FinalizeWrite(t)
    <2>1. dataMap'[b][k] = dataMap[b][k]
      BY <1>2, DataFrame
    <2>2. PICK t \in Tx : \E p \in AppliedWrites(t, b, k) :
                /\ phase[t] \notin {"open", "discarded"}
                /\ pendingWrites[t][p].value = dataMap[b][k]
                /\ MayPeek(b, pendingWrites[t][p].caller)
      BY <2>1 DEF StoredByPeeker
    <2>3. /\ AppliedWrites(t, b, k)' = AppliedWrites(t, b, k)
          /\ \A p \in AppliedWrites(t, b, k) :
                pendingWrites'[t][p] = pendingWrites[t][p]
      BY <1>2, AppliedFrame
    <2>4. QED
      BY <1>1, <2>1, <2>2, <2>3
  <1>3. ASSUME NEW t \in Tx, FinalizeWrite(t)
        PROVE  \E u \in Tx : \E q \in AppliedWrites(u, b, k)' :
                        /\ phase'[u] \notin {"open", "discarded"}
                        /\ pendingWrites'[u][q].value = dataMap'[b][k]
                        /\ MayPeek(b, pendingWrites'[u][q].caller)
    <2> DEFINE n == applied[t] + 1
               sw == pendingWrites[t][n]
    <2>0. ASSUME NEW u \in Tx
          PROVE  /\ n \in DOMAIN pendingWrites[t]
                 /\ pendingWrites' = pendingWrites
                 /\ AppliedWrites(u, b, k)' =
                      IF u = t /\ b = sw.bid /\ k = sw.key
                      THEN AppliedWrites(u, b, k) \union {n}
                      ELSE AppliedWrites(u, b, k)
                 /\ dataMap'[b][k] = IF b = sw.bid /\ k = sw.key THEN sw.value
                                     ELSE dataMap[b][k]
      BY <1>3, AppliedStep
    <2> HIDE DEF n, sw
    <2>1. CASE b = sw.bid /\ k = sw.key
      <3>1. /\ n \in AppliedWrites(t, b, k)'
            /\ dataMap'[b][k] = sw.value
            /\ n \in DOMAIN pendingWrites[t]
            /\ pendingWrites' = pendingWrites
        BY <2>0, <2>1, ZenonT(40)
      <3>2. MayPeek(b, sw.caller)
        BY <2>1, <3>1 DEF PendingWritesAllowed, sw
      <3>3. phase'[t] \notin {"open", "discarded"}
        BY <1>3 DEF FinalizeWrite
      <3>4. QED
        BY <3>1, <3>2, <3>3 DEF sw
    <2>2. CASE ~(b = sw.bid /\ k = sw.key)
      <3>1. /\ dataMap'[b][k] = dataMap[b][k]
            /\ pendingWrites' = pendingWrites
            /\ \A u \in Tx : AppliedWrites(u, b, k)' = AppliedWrites(u, b, k)
        BY <2>0, <2>2
      <3>2. PICK u \in Tx : \E p \in AppliedWrites(u, b, k) :
                /\ phase[u] \notin {"open", "discarded"}
                /\ pendingWrites[u][p].value = dataMap[b][k]
                /\ MayPeek(b, pendingWrites[u][p].caller)
        BY <3>1, Zenon DEF StoredByPeeker
      <3>3. QED
        BY <1>1, <3>1, <3>2
    <2>3. QED
      BY <2>1, <2>2, Zenon
  <1>4. QED
    BY <1>2, <1>3

\* The write being applied comes after all applied ones of its request.
LEMMA NextSoleWriterWins ==
    ASSUME TypeOK, SoleWriterWins, [Next]_vars
    PROVE  SoleWriterWins'
  <1> SUFFICES ASSUME NEW u \in Tx, NEW b \in BidId, NEW k \in Key,
                      AppliedWrites(u, b, k)' # {},
                      \A w \in Tx \ {u} : AppliedWrites(w, b, k)' = {}
               PROVE  \E p \in AppliedWrites(u, b, k)' :
                        /\ \A q \in AppliedWrites(u, b, k)' : q <= p
                        /\ dataMap'[b][k] = pendingWrites'[u][p].value
    BY DEF SoleWriterWins
  <1>1. ASSUME dataMap'[b][k] = dataMap[b][k],
               \A w \in Tx : AppliedWrites(w, b, k)' = AppliedWrites(w, b, k),
               \A p \in AppliedWrites(u, b, k) :
                    pendingWrites'[u][p] = pendingWrites[u][p]
        PROVE  \E p \in AppliedWrites(u, b, k)' :
                        /\ \A q \in AppliedWrites(u, b, k)' : q <= p
                        /\ dataMap'[b][k] = pendingWrites'[u][p].value
    BY <1>1 DEF SoleWriterWins
  <1>2. CASE ~\E t \in Tx : FinalizeWrite(t)
    BY <1>1, <1>2, AppliedFrame, DataFrame
  <1>3. ASSUME NEW t \in Tx, FinalizeWrite(t)
        PROVE  \E p \in AppliedWrites(u, b, k)' :
                        /\ \A q \in AppliedWrites(u, b, k)' : q <= p
                        /\ dataMap'[b][k] = pendingWrites'[u][p].value
    <2> DEFINE n == applied[t] + 1
               sw == pendingWrites[t][n]
    <2>1. CASE b = sw.bid /\ k = sw.key
      <3>1. AppliedWrites(t, b, k)' = AppliedWrites(t, b, k) \union {n}
        BY <1>3, <2>1, AppliedStep
      <3>2. u = t
        BY <3>1
      <3>3. \A q \in AppliedWrites(t, b, k) : q <= n
        BY DEF AppliedWrites, OwnWrites, TypeOK
      <3>4. /\ dataMap'[b][k] = sw.value
            /\ pendingWrites' = pendingWrites
        BY <1>3, <2>1, AppliedStep
      <3>5. n <= n
        BY DEF TypeOK
      <3>6. QED
        BY <3>1, <3>2, <3>3, <3>4, <3>5, Zenon
    <2>2. CASE ~(b = sw.bid /\ k = sw.key)
      BY <1>1, <1>3, <2>2, AppliedStep
    <2>3. QED
      BY <2>1, <2>2
  <1>4. QED
    BY <1>2, <1>3
-----------------------------------------------------------------------------
(***************************************************************************)
(* The theorems.                                                           *)
(***************************************************************************)

\* The inductive invariant holds of the empty store.
LEMMA InitIInv == Init => IInv
  <1> SUFFICES ASSUME Init PROVE IInv
    OBVIOUS
  <1>1. TypeOK
    BY InitTypeOK
  <1>2. IndexIsExact
    BY DEF Init, StoreInit, IndexIsExact, Present
  <1>3. \A t \in Tx, b \in BidId, k \in Key : AppliedWrites(t, b, k) = {}
    BY DEF Init, AppliedWrites, OwnWrites
  <1>4. \A b \in BidId, k \in Key : dataMap[b][k] = None
    BY DEF Init, StoreInit
  <1>5. PendingWritesAllowed
    BY DEF Init, PendingWritesAllowed
  <1>6. Progress
    BY DEF Init, Progress
  <1>7. AppliedLeavesValue /\ DataHasBid /\ StoredByPeeker /\ SoleWriterWins
    BY <1>3, <1>4
    DEF AppliedLeavesValue, DataHasBid, StoredByPeeker, SoleWriterWins
  <1>8. QED
    BY <1>1, <1>2, <1>5, <1>6, <1>7 DEF IInv

\* Every step preserves the inductive invariant.
LEMMA NextIInv == IInv /\ [Next]_vars => IInv'
  <1> SUFFICES ASSUME IInv, [Next]_vars PROVE IInv'
    OBVIOUS
  <1> USE DEF IInv
  <1>1. TypeOK'
    BY NextTypeOK
  <1>2. IndexIsExact' /\ PendingWritesAllowed' /\ Progress'
    BY NextIndexIsExact, NextPendingWritesAllowed, NextProgress
  <1>3. AppliedLeavesValue' /\ DataHasBid'
    BY NextAppliedLeavesValue, NextDataHasBid
  <1>4. StoredByPeeker' /\ SoleWriterWins'
    BY NextStoredByPeeker, NextSoleWriterWins
  <1>5. QED
    BY <1>1, <1>2, <1>3, <1>4

\* The invariant is inductive: every state the engine and its requests reach,
\* between any two backend calls of any Finalize, satisfies it.
THEOREM Inductive == Spec => []IInv
  BY InitIInv, NextIInv, PTL DEF Spec

\* The index of the backend lists every stored bid once, and nothing else.
THEOREM IndexCorrect == Spec => []IndexIsExact
  <1>1. IInv => IndexIsExact
    BY DEF IInv
  <1>2. QED
    BY <1>1, Inductive, PTL

\* Finalize never leaves data under a bid the engine does not know, although
\* the backend's Store would accept it.
THEOREM NoOrphanData == Spec => []DataHasBid
  <1>1. IInv => DataHasBid
    BY DEF IInv
  <1>2. QED
    BY <1>1, Inductive, PTL

\* Every value in the store was written by a finalized request on behalf of an
\* allowed peeker of the bid.
THEOREM AccessControlled == Spec => []StoredByPeeker
  <1>1. IInv => StoredByPeeker
    BY DEF IInv
  <1>2. QED
    BY <1>1, Inductive, PTL

\* Of the writes of a key by one request, the last that was applied is stored.
THEOREM LastWriteStays == Spec => []SoleWriterWins
  <1>1. IInv => SoleWriterWins
    BY DEF IInv
  <1>2. QED
    BY <1>1, Inductive, PTL

\* A request sees the same bids by listing them as by looking them up.
THEOREM ListingCorrect == Spec => []ListingMatchesLookup
  <1>1. ASSUME IInv PROVE ListingMatchesLookup
    <2> SUFFICES ASSUME NEW t \in Tx, NEW i \in IndexKeys, NEW b
                 PROVE  b \in FetchBidsByProtocolAndBlock(t, i)
                        <=> /\ b \in BidId
                            /\ IndexKey[b] = i
                            /\ FetchBidById(t, b) # None
      BY DEF ListingMatchesLookup, FetchBidsByProtocolAndBlock
    <2>1. index[i] \in Seq(BidId) /\ pendingBids[t] \subseteq BidId
      BY <1>1 DEF IInv, TypeOK, StoreTypeOK
    <2>2. b \in FetchFromStore(i) <=> b \in BidId /\ Present(b) /\ IndexKey[b] = i
      BY <1>1, <2>1 DEF FetchFromStore, Range, IInv, IndexIsExact
    <2>3. QED
      BY <2>1, <2>2, StoreConstants
      DEF FetchBidsByProtocolAndBlock, FetchBidById, Present
  <1>2. QED
    BY <1>1, Inductive, PTL

\* A message leaves the node only for a signed request whose bids and writes
\* the node's own store holds.
THEOREM PublishCorrect == Spec => []PublishedIsComplete
  <1>1. ASSUME IInv PROVE PublishedIsComplete
    <2> SUFFICES ASSUME NEW t \in published
                 PROVE  /\ t \in Signed
                        /\ \A b \in pendingBids[t] : bids[b] = t
                        /\ \A p \in DOMAIN pendingWrites[t] :
                            dataMap[pendingWrites[t][p].bid]
                                   [pendingWrites[t][p].key] # None
      BY DEF PublishedIsComplete
    <2>1. t \in Tx
      BY <1>1 DEF IInv, TypeOK
    <2>2. /\ phase[t] = "done" /\ t \in Signed /\ toInit[t] = {}
          /\ applied[t] = Len(pendingWrites[t])
          /\ \A b \in pendingBids[t] : bids[b] = t
      BY <1>1, <2>1 DEF IInv, Progress
    <2>3. ASSUME NEW p \in DOMAIN pendingWrites[t]
          PROVE  dataMap[pendingWrites[t][p].bid][pendingWrites[t][p].key] # None
      <3>1. pendingWrites[t] \in Seq(StoreWrite)
        BY <1>1, <2>1 DEF IInv, TypeOK
      <3>2. pendingWrites[t][p] \in StoreWrite /\ p <= applied[t]
        BY <2>2, <2>3, <3>1
      <3>3. p \in AppliedWrites(t, pendingWrites[t][p].bid, pendingWrites[t][p].key)
        BY <2>3, <3>2 DEF AppliedWrites, OwnWrites
      <3>4. QED
        BY <1>1, <2>1, <3>2, <3>3 DEF IInv, AppliedLeavesValue, StoreWrite
    <2>4. QED
      BY <2>2, <2>3
  <1>2. QED
    BY <1>1, Inductive, PTL

\* No step of any request removes or replaces a stored bid or empties a key.
THEOREM StoreGrows == Spec => StoreOnlyGrows
  <1> DEFINE Grows ==
        /\ \A b \in BidId : Present(b) => bids'[b] = bids[b]
        /\ \A b \in BidId, k \in Key : dataMap[b][k] # None => dataMap'[b][k] # None
  <1>1. ASSUME IInv, [Next]_vars PROVE Grows
    <2>1. \A b \in BidId : Present(b) => bids'[b] = bids[b]
      BY <1>1, BidsStay DEF IInv
    <2>2. ASSUME NEW b \in BidId, NEW k \in Key, dataMap[b][k] # None
          PROVE  dataMap'[b][k] # None
      <3>1. CASE ~\E t \in Tx : FinalizeWrite(t)
        BY <1>1, <2>2, <3>1, DataFrame, Zenon
      <3>2. ASSUME NEW t \in Tx, FinalizeWrite(t)
            PROVE  dataMap'[b][k] # None
        <4>1. pendingWrites[t][applied[t] + 1].value # None
          BY <1>1, <3>2, AppliedStep, StoreConstants DEF StoreWrite, IInv
        <4>2. QED
          BY <1>1, <2>2, <3>2, <4>1, AppliedStep DEF IInv
      <3>3. QED
        BY <3>1, <3>2
    <2>3. QED
      BY <2>1, <2>2
  <1>2. QED
    BY <1>1, Inductive, PTL DEF Spec, StoreOnlyGrows
=============================================================================
