-------------------------- MODULE KVRefinementProofs --------------------------
(***************************************************************************)
(* Pebble implements the in-memory backend, apart from overlapping and     *)
(* torn updates of the index lists.                                        *)
(***************************************************************************)
EXTENDS KVRefinement, KVStoreProofs

\* The index of the in-memory backend, as Abstract has it.
AbsIndex ==
    [i \in IndexKeys |->
        IF \E c \in Tx : Indexing(c) /\ IndexKey[Bid(c)] = i
        THEN Append(index[i],
                    Bid(CHOOSE c \in Tx : Indexing(c) /\ IndexKey[Bid(c)] = i))
        ELSE index[i]]

AbsIndexValue ==
    /\ \A c \in Tx : Indexing(c) => AbsIndex[IndexKey[Bid(c)]] = Append(List(c), Bid(c))
    /\ \A i \in IndexKeys :
        (\A c \in Tx : Indexing(c) => IndexKey[Bid(c)] # i) => AbsIndex[i] = index[i]

\* When updates do not overlap, it differs from the list by the one bid whose
\* update is under way.
LEMMA AbsIndexIs == Typed /\ Exclusive => AbsIndexValue
<1> SUFFICES ASSUME Typed, Exclusive PROVE AbsIndexValue
  OBVIOUS
<1>1. ASSUME NEW c \in Tx, Indexing(c)
      PROVE  AbsIndex[IndexKey[Bid(c)]] = Append(List(c), Bid(c))
  <2>1. IndexKey[Bid(c)] \in IndexKeys
    BY <1>1, BidType DEF Indexing, Typed
  <2> DEFINE e == CHOOSE d \in Tx : Indexing(d) /\ IndexKey[Bid(d)] = IndexKey[Bid(c)]
  <2>2. e \in Tx /\ Indexing(e) /\ IndexKey[Bid(e)] = IndexKey[Bid(c)]
    BY <1>1
  <2>3. AbsIndex[IndexKey[Bid(c)]] = Append(index[IndexKey[Bid(c)]], Bid(e))
    BY <1>1, <2>1 DEF AbsIndex
  <2> HIDE DEF e
  <2>4. e = c
    BY <1>1, <2>2 DEF Exclusive, Indexing
  <2> QED
    BY <2>3, <2>4 DEF List
<1>2. ASSUME NEW i \in IndexKeys, \A c \in Tx : Indexing(c) => IndexKey[Bid(c)] # i
      PROVE  AbsIndex[i] = index[i]
  BY <1>2 DEF AbsIndex
<1> QED
  BY <1>1, <1>2 DEF AbsIndexValue

LEMMA AbsIndexIsNext == Typed' /\ Exclusive' => AbsIndexValue'
BY AbsIndexIs, PTL

\* It does not change with the steps before and after the SETs.
LEMMA SameAbsIndex ==
    ASSUME AbsIndexValue, AbsIndexValue', UNCHANGED index,
           \A d \in Tx : (Indexing(d)' <=> Indexing(d)) /\ (Indexing(d) => Bid(d)' = Bid(d))
    PROVE  AbsIndex' = AbsIndex
<1>1. ASSUME NEW i \in IndexKeys PROVE AbsIndex'[i] = AbsIndex[i]
  <2>1. CASE \A c \in Tx : Indexing(c) => IndexKey[Bid(c)] # i
    <3>1. AbsIndex[i] = index[i]
      BY <2>1 DEF AbsIndexValue
    <3>2. AbsIndex'[i] = index'[i]
      BY <2>1 DEF AbsIndexValue
    <3> QED
      BY <3>1, <3>2
  <2>2. CASE \E c \in Tx : Indexing(c) /\ IndexKey[Bid(c)] = i
    <3>1. PICK c \in Tx : Indexing(c) /\ IndexKey[Bid(c)] = i
      BY <2>2
    <3>2. AbsIndex[i] = Append(List(c), Bid(c))
      BY <3>1 DEF AbsIndexValue
    <3>3. Indexing(c)' /\ Bid(c)' = Bid(c) /\ List(c)' = List(c)
      BY <3>1 DEF List
    <3>4. AbsIndex'[i] = Append(List(c)', Bid(c)')
      BY <3>1, <3>3 DEF AbsIndexValue
    <3> QED
      BY <3>2, <3>3, <3>4
  <2> QED
    BY <2>1, <2>2
<1> QED
  BY <1>1 DEF AbsIndex

\* The steps of the in-memory backend.
AbsInitializeBid(b, t) ==
    /\ ~Present(b)
    /\ bids' = [bids EXCEPT ![b] = t]
    /\ AbsIndex' = [AbsIndex EXCEPT ![IndexKey[b]] = Append(@, b)]
    /\ UNCHANGED dataMap

AbsStore(b, k, v) ==
    /\ dataMap' = [dataMap EXCEPT ![b][k] = v]
    /\ UNCHANGED <<bids, AbsIndex>>

AbsNext ==
    \/ \E b \in BidId, t \in Tx : AbsInitializeBid(b, t)
    \/ \E b \in BidId, k \in Key, v \in Value : AbsStore(b, k, v)

\* One step of Pebble, with no overlap and nothing torn, is one of the in-memory
\* backend or none.
LEMMA StepRefines ==
    ASSUME IInv, KVNext, ~redis, torn' = {}, Exclusive, Exclusive'
    PROVE  AbsNext \/ UNCHANGED <<bids, dataMap, AbsIndex>>
<1>1. IInv' /\ Typed /\ Typed' /\ SeenIsCurrent
  BY StepInv DEF IInv, Pebble
<1>2. AbsIndexValue /\ AbsIndexValue'
  BY <1>1, AbsIndexIs, AbsIndexIsNext
<1>3. ASSUME NEW c \in Tx, GetBid(c) \/ GetBidFails(c) \/ StoreFails(c)
      PROVE  UNCHANGED <<bids, dataMap, AbsIndex>>
  <2>1. UNCHANGED storeVars /\ pc[c] = "idle"
    BY <1>3 DEF GetBid, GetBidFails, StoreFails, Starts
  <2>2. \A d \in Tx : (Indexing(d)' <=> Indexing(d)) /\ (Indexing(d) => Bid(d)' = Bid(d))
    BY <1>1, <1>3, <2>1, Zenon
       DEF GetBid, GetBidFails, StoreFails, GoTo, Return, Indexing, Bid, Typed
  <2> QED
    BY <1>2, <2>1, <2>2, SameAbsIndex DEF storeVars
<1>4. ASSUME NEW c \in Tx, NEW k \in Key, NEW v \in Value, StoreValue(c, k, v)
      PROVE  AbsNext
  <2>1. /\ dataMap' = [dataMap EXCEPT ![Bid(c)][k] = v] /\ UNCHANGED <<bids, index>>
        /\ pc[c] = "idle" /\ Bid(c) \in BidId
    BY <1>1, <1>4, BidType DEF StoreValue, StoreInStore, Starts
  <2>2. \A d \in Tx : (Indexing(d)' <=> Indexing(d)) /\ (Indexing(d) => Bid(d)' = Bid(d))
    BY <1>1, <1>4, <2>1 DEF StoreValue, Indexing, Bid, Typed
  <2>3. AbsIndex' = AbsIndex
    BY <1>2, <2>1, <2>2, SameAbsIndex
  <2> QED
    BY <2>1, <2>3, Zenon DEF AbsNext, AbsStore
<1>5. ASSUME NEW c \in Tx, SetBid(c)
      PROVE  AbsNext
  <2>1. /\ pc[c] = "setBid" /\ Bid(c) \in BidId /\ IndexKey[Bid(c)] \in IndexKeys
        /\ bids' = [bids EXCEPT ![Bid(c)] = c] /\ UNCHANGED <<dataMap, index>>
    BY <1>1, <1>5, BidType DEF SetBid, At, Typed
  <2>2. ~Present(Bid(c))
    BY <2>1 DEF Exclusive, At
  <2>3. \A d \in Tx : Bid(d)' = Bid(d) /\ (Indexing(d)' <=> Indexing(d) \/ d = c)
    BY <1>1, <1>5, <2>1 DEF SetBid, GoTo, Indexing, Bid, Typed
  <2>4. \A d \in Tx : Indexing(d) => IndexKey[Bid(d)] # IndexKey[Bid(c)]
    BY <2>1 DEF Exclusive, Indexing
  <2>5. ASSUME NEW i \in IndexKeys
        PROVE  AbsIndex'[i] = IF i = IndexKey[Bid(c)] THEN Append(AbsIndex[i], Bid(c))
                              ELSE AbsIndex[i]
    <3>1. CASE i = IndexKey[Bid(c)]
      <4>1. AbsIndex[i] = index[i]
        BY <1>2, <2>4, <3>1 DEF AbsIndexValue
      <4>2. AbsIndex'[i] = Append(List(c)', Bid(c)')
        BY <1>2, <2>3, <3>1 DEF AbsIndexValue
      <4>3. List(c)' = index[i]
        BY <2>1, <2>3, <3>1 DEF List
      <4> QED
        BY <2>3, <3>1, <4>1, <4>2, <4>3
    <3>2. CASE i # IndexKey[Bid(c)] /\ \A d \in Tx : Indexing(d) => IndexKey[Bid(d)] # i
      <4>1. AbsIndex[i] = index[i]
        BY <1>2, <3>2 DEF AbsIndexValue
      <4>2. AbsIndex'[i] = index'[i]
        BY <1>2, <2>3, <3>2 DEF AbsIndexValue
      <4> QED
        BY <2>1, <3>2, <4>1, <4>2
    <3>3. CASE i # IndexKey[Bid(c)] /\ \E d \in Tx : Indexing(d) /\ IndexKey[Bid(d)] = i
      <4>1. PICK d \in Tx : Indexing(d) /\ IndexKey[Bid(d)] = i
        BY <3>3
      <4>2. AbsIndex[i] = Append(List(d), Bid(d))
        BY <1>2, <4>1 DEF AbsIndexValue
      <4>3. AbsIndex'[i] = Append(List(d)', Bid(d)')
        BY <1>2, <2>3, <4>1 DEF AbsIndexValue
      <4>4. List(d)' = List(d)
        BY <2>1, <2>3 DEF List
      <4> QED
        BY <2>3, <3>3, <4>2, <4>3, <4>4
    <3> QED
      BY <3>1, <3>2, <3>3
  <2>6. AbsIndex' = [AbsIndex EXCEPT ![IndexKey[Bid(c)]] = Append(@, Bid(c))]
    <3>1. /\ AbsIndex = [i \in IndexKeys |-> AbsIndex[i]]
          /\ AbsIndex' = [i \in IndexKeys |-> AbsIndex'[i]]
      BY DEF AbsIndex
    <3> QED
      BY <2>1, <2>5, <3>1
  <2> QED
    BY <2>1, <2>2, <2>6, ZenonT(40) DEF AbsNext, AbsInitializeBid
<1>6. ASSUME NEW c \in Tx, SetBidFails(c) PROVE UNCHANGED <<bids, dataMap, AbsIndex>>
  <2>1. UNCHANGED <<bids, dataMap, index>> /\ pc[c] = "setBid"
    BY <1>6, Zenon DEF SetBidFails, At
  <2>2. \A d \in Tx : (Indexing(d)' <=> Indexing(d)) /\ (Indexing(d) => Bid(d)' = Bid(d))
    BY <1>1, <1>6, <2>1 DEF SetBidFails, Return, Indexing, Bid, Typed
  <2> QED
    BY <1>2, <2>1, <2>2, SameAbsIndex
<1>7. ASSUME NEW c \in Tx, GetIndex(c) PROVE UNCHANGED <<bids, dataMap, AbsIndex>>
  <2>1. UNCHANGED <<bids, dataMap, index>> /\ pc[c] = "getIndex"
    BY <1>7 DEF GetIndex, At, storeVars
  <2>2. \A d \in Tx : (Indexing(d)' <=> Indexing(d)) /\ (Indexing(d) => Bid(d)' = Bid(d))
    BY <1>1, <1>7, <2>1 DEF GetIndex, GoTo, Indexing, Bid, Typed
  <2> QED
    BY <1>2, <2>1, <2>2, SameAbsIndex
<1>8. ASSUME NEW c \in Tx PROVE ~ (GetIndexFails(c) \/ SetIndexFails(c))
  BY ZenonT(40) DEF GetIndexFails, SetIndexFails
<1>9. ASSUME NEW c \in Tx, SetIndex(c) PROVE UNCHANGED <<bids, dataMap, AbsIndex>>
  <2>1. /\ pc[c] = "setIndex" /\ IndexKey[Bid(c)] \in IndexKeys
        /\ UNCHANGED <<bids, dataMap>> /\ torn = {}
        /\ index' = [index EXCEPT ![IndexKey[Bid(c)]] = Append(seen[c], Bid(c))]
    BY <1>1, <1>9, BidType DEF SetIndex, At, Typed
  <2>2. seen[c] = List(c)
    BY <1>1, <2>1, Zenon DEF SeenIsCurrent, At
  <2>3. \A d \in Tx \ {c} : Bid(d)' = Bid(d) /\ (Indexing(d)' <=> Indexing(d))
    BY <1>1, <1>9 DEF SetIndex, Return, Indexing, Bid, Typed
  <2>4. ~ Indexing(c)' /\ Indexing(c)
    BY <1>1, <1>9, <2>1 DEF SetIndex, Return, Indexing, Typed
  <2>5. \A d \in Tx \ {c} : Indexing(d) => IndexKey[Bid(d)] # IndexKey[Bid(c)]
    BY <2>1 DEF Exclusive, Indexing
  <2>6. ASSUME NEW i \in IndexKeys PROVE AbsIndex'[i] = AbsIndex[i]
    <3>1. CASE i = IndexKey[Bid(c)]
      <4>1. AbsIndex[i] = Append(List(c), Bid(c))
        BY <1>2, <2>4, <3>1 DEF AbsIndexValue
      <4>2. AbsIndex'[i] = index'[i]
        BY <1>2, <2>3, <2>4, <2>5, <3>1 DEF AbsIndexValue
      <4>3. index'[i] = Append(seen[c], Bid(c))
        BY <1>1, <2>1, <3>1 DEF Typed, StoreTypeOK
      <4> QED
        BY <2>2, <4>1, <4>2, <4>3
    <3>2. CASE i # IndexKey[Bid(c)] /\ \A d \in Tx : Indexing(d) => IndexKey[Bid(d)] # i
      <4>1. AbsIndex[i] = index[i]
        BY <1>2, <3>2 DEF AbsIndexValue
      <4>2. AbsIndex'[i] = index'[i]
        BY <1>2, <2>3, <2>4, <3>2 DEF AbsIndexValue
      <4>3. index'[i] = index[i]
        BY <1>1, <2>1, <3>2 DEF Typed, StoreTypeOK
      <4> QED
        BY <4>1, <4>2, <4>3
    <3>3. CASE i # IndexKey[Bid(c)] /\ \E d \in Tx : Indexing(d) /\ IndexKey[Bid(d)] = i
      <4>1. PICK d \in Tx : Indexing(d) /\ IndexKey[Bid(d)] = i
        BY <3>3
      <4>2. d # c /\ Indexing(d)' /\ Bid(d)' = Bid(d)
        BY <2>3, <3>3, <4>1
      <4>3. AbsIndex[i] = Append(List(d), Bid(d))
        BY <1>2, <4>1 DEF AbsIndexValue
      <4>4. AbsIndex'[i] = Append(List(d)', Bid(d)')
        BY <1>2, <4>1, <4>2 DEF AbsIndexValue
      <4>5. List(d)' = List(d)
        BY <1>1, <2>1, <3>3, <4>1, <4>2, Zenon DEF List, Typed, StoreTypeOK
      <4> QED
        BY <4>2, <4>3, <4>4, <4>5
    <3> QED
      BY <3>1, <3>2, <3>3
  <2>7. AbsIndex' = AbsIndex
    BY <2>6 DEF AbsIndex
  <2> QED
    BY <2>1, <2>7
<1>10. CASE Crash
  <2>1. UNCHANGED <<bids, dataMap, index>> /\ \A d \in Tx : ~Indexing(d) /\ ~Indexing(d)'
    BY <1>10, ZenonT(40) DEF Crash, storeVars, Indexing
  <2> QED
    BY <1>2, <2>1, SameAbsIndex
<1>11. ~ Expire
  BY DEF Expire
<1>12. ASSUME NEW c \in Tx,
              \/ GetBid(c) \/ GetBidFails(c) \/ StoreFails(c) \/ SetBidFails(c)
              \/ GetIndex(c) \/ SetIndex(c)
       PROVE  UNCHANGED <<bids, dataMap, AbsIndex>>
  BY <1>3, <1>6, <1>7, <1>9, <1>12, Zenon
<1> QED
  BY <1>4, <1>5, <1>8, <1>10, <1>11, <1>12, ZenonT(40) DEF KVNext

\* Whenever the updates of a list do not overlap, and until one was torn by a
\* failure, an overlap or a crash, Pebble's InitializeBid and Store do in several
\* database calls what the in-memory backend's do in one step.
THEOREM PebbleRefines == KVSpec => RefinesLocalStore
<1>1. KVInit => Abstract!StoreInit
  <2> SUFFICES ASSUME KVInit PROVE Abstract!StoreInit
    OBVIOUS
  <2>1. \A c \in Tx : ~Indexing(c)
    BY DEF KVInit, Indexing
  <2> QED
    BY <2>1 DEF KVInit, StoreInit, Abstract!StoreInit
<1>2. ASSUME IInv, [KVNext]_kvVars
      PROVE  [~redis /\ torn' = {} /\ Exclusive /\ Exclusive'
                => Abstract!StoreNext]_(Abstract!storeVars)
  <2>1. CASE UNCHANGED kvVars
    BY <2>1 DEF kvVars, storeVars, clientVars, Abstract!storeVars, Indexing, Bid
  <2>2. CASE KVNext /\ ~redis /\ torn' = {} /\ Exclusive /\ Exclusive'
    BY <1>2, <2>2, StepRefines, Zenon
       DEF AbsIndex, AbsNext, AbsInitializeBid, AbsStore, Abstract!StoreNext,
           Abstract!InitializeBidInStore, Abstract!StoreInStore, Abstract!Present,
           Abstract!storeVars, Present
  <2> QED
    BY <1>2, <2>1, <2>2
<1> QED
  BY <1>1, <1>2, Invariance, PTL DEF KVSpec, RefinesLocalStore
=============================================================================
