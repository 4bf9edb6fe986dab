----------------------------- MODULE KVStoreProofs ----------------------------
(***************************************************************************)
(* Proofs about KVStore for any number of clients and any programs: which  *)
(* bids the unlocked updates of the index lists and the expiry of entries  *)
(* may lose, and that Pebble has the bids of its data.                     *)
(***************************************************************************)
EXTENDS KVStore, TLAPS

Typed ==
    /\ StoreTypeOK
    /\ todo \in [Tx -> Seq(Op)]
    /\ pc \in [Tx -> Steps]
    /\ seen \in [Tx -> Seq(BidId)]
    /\ outcome \in [Tx -> [BidId -> Outcomes]]
    /\ torn \in SUBSET (Reasons \X BidId)
    /\ \A c \in Tx : pc[c] # "idle" => todo[c] # <<>> /\ todo[c][1].op = "init"

\* Whether no overlapping update can take the bid off its list.
Safe(b) == <<"race", b>> \notin torn

List(c) == index[IndexKey[Bid(c)]]

\* A client that is to SET a list has in mind every bid that is on it, but for
\* those that went there while the client was between GET and SET.
SeenIsCurrent ==
    \A c \in Tx : At(c, "setIndex") =>
        /\ \A b \in BidId : Safe(b) => (b \in Range(seen[c]) <=> b \in Range(List(c)))
        /\ torn = {} => seen[c] = List(c)

\* A bid is SET before its list is.
BidFirst == \A c \in Tx : Indexing(c) => Present(Bid(c))

\* A bid whose client was told so is on its list, unless an overlap is to blame.
Reported ==
    \A c \in Tx, b \in BidId :
        outcome[c][b] = "ok" /\ Safe(b) => b \in Range(index[IndexKey[b]]) /\ Present(b)

Pebble == SeenIsCurrent /\ BidFirst /\ Reported

\* An entry of the database has one place among the expiries.
Aged == redis \in BOOLEAN /\ age \in Seq(Entry) /\ IsInjective(age)

\* x stands before y.
Before(s, x, y) == \E p, q \in DOMAIN s : p < q /\ s[p] = x /\ s[q] = y

\* A bid that is there is yet to expire.
Dated == \A b \in BidId : Present(b) => <<"bid", b>> \in Range(age)

\* A stored bid that no client is about to put on its list, and with nothing to
\* blame.
Settled(b) ==
    /\ Present(b)
    /\ \A r \in Reasons : <<r, b>> \notin torn
    /\ ~ \E c \in Tx : Indexing(c) /\ Bid(c) = b

\* Such a bid is on its list, it expires before the list does, and every client
\* that is to SET the list has seen it there.
Kept ==
    \A b \in BidId : Settled(b) =>
        /\ b \in Range(index[IndexKey[b]])
        /\ Before(age, <<"bid", b>>, <<"index", IndexKey[b]>>)
        /\ \A c \in Tx : At(c, "setIndex") /\ IndexKey[Bid(c)] = IndexKey[b] =>
                b \in Range(seen[c])

IInv == Typed /\ Aged /\ Dated /\ Kept /\ (~redis => Pebble)
-----------------------------------------------------------------------------
\* One more on a list.
LEMMA AppendSet ==
    ASSUME NEW S, NEW s \in Seq(S), NEW e \in S
    PROVE  Append(s, e) \in Seq(S) /\ Range(Append(s, e)) = Range(s) \union {e}
<1>1. /\ DOMAIN Append(s, e) = DOMAIN s \union {Len(s) + 1}
      /\ Append(s, e)[Len(s) + 1] = e
      /\ \A p \in DOMAIN s : Append(s, e)[p] = s[p]
  OBVIOUS
<1> QED
  BY <1>1 DEF Range

\* What a client goes on with is a program.
LEMMA RemainingType ==
    ASSUME Typed, NEW c \in Tx, todo[c] # <<>>, NEW out
    PROVE  Remaining(c, out) \in Seq(Op)
<1>1. todo[c] \in Seq(Op)
  BY DEF Typed
<1>2. Tail(todo[c]) \in Seq(Op)
  BY <1>1
<1>3. SubSeq(todo[c], 3, Len(todo[c])) \in Seq(Op)
  <2>1. CASE Len(todo[c]) < 3
    <3>1. SubSeq(todo[c], 3, Len(todo[c])) = <<>>
      BY <1>1, <2>1
    <3>2. <<>> \in Seq(Op)
      OBVIOUS
    <3> QED
      BY <3>1, <3>2, Zenon
  <2>2. CASE Len(todo[c]) >= 3
    BY <1>1, <2>2
  <2> QED
    BY <1>1, <2>1, <2>2
<1> QED
  BY <1>2, <1>3 DEF Remaining

\* The bid of the call that a client makes or is about to make.
LEMMA BidType ==
    ASSUME Typed, NEW c \in Tx, todo[c] # <<>>
    PROVE  Bid(c) \in BidId /\ IndexKey[Bid(c)] \in IndexKeys
<1>1. todo[c][1] \in Op
  BY DEF Typed
<1> QED
  BY <1>1, StoreConstants DEF Op, Bid

\* InitializeBid returns.
LEMMA ReturnTyped ==
    ASSUME Typed, NEW c \in Tx, todo[c] # <<>>, NEW out \in Outcomes, Return(c, out)
    PROVE  /\ todo' \in [Tx -> Seq(Op)]
           /\ pc' = [pc EXCEPT ![c] = "idle"]
           /\ outcome' \in [Tx -> [BidId -> Outcomes]]
           /\ \A d \in Tx : d # c => todo'[d] = todo[d]
BY RemainingType, BidType DEF Return, Typed

\* The variables keep their types.
LEMMA TypedInv ==
    ASSUME Typed, KVNext
    PROVE  Typed'
<1> USE DEF Typed, StoreTypeOK, storeVars, clientVars
<1>1. ASSUME NEW c \in Tx, GetBid(c) \/ GetBidFails(c) PROVE Typed'
  <2>1. todo[c] # <<>> /\ pc[c] = "idle" /\ todo[c][1].op = "init"
    BY <1>1 DEF GetBid, GetBidFails, Starts
  <2>2. CASE GoTo(c, "setBid")
    BY <1>1, <2>1, <2>2 DEF GetBid, GetBidFails, GoTo, Steps
  <2>3. CASE Return(c, "present")
    BY <1>1, <2>1, <2>3, ReturnTyped, Zenon DEF GetBid, GetBidFails, Steps, Outcomes
  <2> QED
    BY <1>1, <2>2, <2>3 DEF GetBid, GetBidFails
<1>2. ASSUME NEW c \in Tx, SetBid(c) \/ SetBidFails(c) PROVE Typed'
  <2>1. todo[c] # <<>> /\ pc[c] = "setBid" /\ Bid(c) \in BidId
    BY <1>2, BidType DEF SetBid, SetBidFails, At
  <2>2. bids' \in [BidId -> Tx \union {None}] /\ UNCHANGED <<dataMap, index, seen>>
    BY <1>2, <2>1, Zenon DEF SetBid, SetBidFails
  <2>3. torn' \in SUBSET (Reasons \X BidId)
    BY <1>2, <2>1 DEF SetBid, SetBidFails, Reasons
  <2>4. CASE GoTo(c, "getIndex")
    BY <2>1, <2>2, <2>3, <2>4 DEF GoTo, Steps
  <2>5. CASE Return(c, "error")
    BY <2>1, <2>2, <2>3, <2>5, ReturnTyped, Zenon DEF Steps, Outcomes
  <2> QED
    BY <1>2, <2>4, <2>5 DEF SetBid, SetBidFails
<1>3. ASSUME NEW c \in Tx, GetIndex(c) \/ GetIndexFails(c) PROVE Typed'
  <2>1. todo[c] # <<>> /\ pc[c] = "getIndex" /\ IndexKey[Bid(c)] \in IndexKeys /\ Bid(c) \in BidId
    BY <1>3, BidType DEF GetIndex, GetIndexFails, At
  <2>2. seen' \in [Tx -> Seq(BidId)] /\ UNCHANGED storeVars
    <3>1. UNCHANGED storeVars
      BY <1>3 DEF GetIndex, GetIndexFails
    <3>2. <<>> \in Seq(BidId) /\ index[IndexKey[Bid(c)]] \in Seq(BidId)
      BY <2>1
    <3>3. seen' = seen \/ \E s \in Seq(BidId) : seen' = [seen EXCEPT ![c] = s]
      BY <1>3, <3>2, Zenon DEF GetIndex, GetIndexFails
    <3> QED
      BY <3>1, <3>3, Zenon
  <2>3. torn' \in SUBSET (Reasons \X BidId)
    BY <1>3, <2>1 DEF GetIndex, GetIndexFails, Reasons, Range
  <2>4. CASE GoTo(c, "setIndex")
    BY <2>1, <2>2, <2>3, <2>4 DEF GoTo, Steps
  <2>5. CASE Return(c, "error")
    BY <2>1, <2>2, <2>3, <2>5, ReturnTyped, Zenon DEF Steps, Outcomes
  <2> QED
    BY <1>3, <2>4, <2>5 DEF GetIndex, GetIndexFails
<1>4. ASSUME NEW c \in Tx, SetIndex(c) \/ SetIndexFails(c) PROVE Typed'
  <2>1. todo[c] # <<>> /\ pc[c] = "setIndex" /\ IndexKey[Bid(c)] \in IndexKeys /\ Bid(c) \in BidId
    BY <1>4, BidType DEF SetIndex, SetIndexFails, At
  <2>2. index' \in [IndexKeys -> Seq(BidId)] /\ UNCHANGED <<bids, dataMap, seen>>
    <3>1. UNCHANGED <<bids, dataMap, seen>>
      BY <1>4 DEF SetIndex, SetIndexFails
    <3>2. Append(seen[c], Bid(c)) \in Seq(BidId)
      BY <2>1, AppendSet
    <3>3. index' = index \/ index' = [index EXCEPT ![IndexKey[Bid(c)]] = Append(seen[c], Bid(c))]
      BY <1>4 DEF SetIndex, SetIndexFails
    <3> HIDE DEF storeVars
    <3> QED
      BY <3>1, <3>2, <3>3, Zenon
  <2>3. torn' \in SUBSET (Reasons \X BidId)
    BY <1>4, <2>1 DEF SetIndex, SetIndexFails, Reasons
  <2>4. \E out \in Outcomes : Return(c, out)
    BY <1>4 DEF SetIndex, SetIndexFails, Outcomes
  <2> QED
    BY <2>1, <2>2, <2>3, <2>4, ReturnTyped, ZenonT(40) DEF Steps
<1>5. ASSUME NEW c \in Tx, NEW k \in Key, NEW v \in Value, StoreValue(c, k, v) PROVE Typed'
  BY <1>5, BidType DEF StoreValue, StoreInStore, Starts
<1>6. ASSUME NEW c \in Tx, StoreFails(c) PROVE Typed'
  BY <1>6 DEF StoreFails, Starts
<1>7. CASE Expire
  <2>1. UNCHANGED <<todo, pc, seen, outcome, torn>>
    BY <1>7 DEF Expire
  <2>2. bids' \in [BidId -> Tx \union {None}]
    BY <1>7 DEF Expire
  <2>3. dataMap' \in [BidId -> [Key -> Value \union {None}]]
    <3>1. dataMap' = dataMap \/ \E b, k : dataMap' = [dataMap EXCEPT ![b][k] = None]
      BY <1>7, Zenon DEF Expire
    <3>2. ASSUME NEW b, NEW k, dataMap' = [dataMap EXCEPT ![b] = [@ EXCEPT ![k] = None]]
          PROVE  dataMap' \in [BidId -> [Key -> Value \union {None}]]
      <4>1. ASSUME NEW x \in BidId
            PROVE  [dataMap[x] EXCEPT ![k] = None] \in [Key -> Value \union {None}]
        BY <4>1, Zenon
      <4> QED
        BY <3>2, <4>1, Zenon
    <3> QED
      BY <3>1, <3>2, Zenon
  <2>4. index' \in [IndexKeys -> Seq(BidId)]
    <3>1. <<>> \in Seq(BidId)
      OBVIOUS
    <3>2. index' = index \/ index' = [index EXCEPT ![Head(age)[2]] = <<>>]
      BY <1>7, Zenon DEF Expire
    <3> QED
      BY <3>1, <3>2, Zenon
  <2> QED
    BY <2>1, <2>2, <2>3, <2>4
<1>8. CASE Crash
  <2>1. todo' \in [Tx -> Seq(Op)] /\ pc' = [c \in Tx |-> "idle"]
    BY <1>8 DEF Crash
  <2>2. torn' \in SUBSET (Reasons \X BidId)
    BY <1>8, BidType DEF Crash, Indexing, Reasons
  <2> QED
    BY <1>8, <2>1, <2>2 DEF Crash, Steps
<1> QED
  BY <1>1, <1>2, <1>3, <1>4, <1>5, <1>6, <1>7, <1>8 DEF KVNext
-----------------------------------------------------------------------------
\* A return other than with success is no new promise.
LEMMA NoNewPromise ==
    ASSUME Typed, NEW c \in Tx, todo[c] # <<>>, NEW out \in Outcomes \ {"ok"}, Return(c, out)
    PROVE  \A d \in Tx, b \in BidId : outcome'[d][b] = "ok" => outcome[d][b] = "ok"
<1>1. Bid(c) \in BidId
  BY BidType
<1>2. outcome' = [outcome EXCEPT ![c] = [@ EXCEPT ![Bid(c)] = out]]
  BY DEF Return
<1> QED
  BY <1>1, <1>2 DEF Typed

\* A step that changes neither bids nor lists, and blames a failure for the
\* updates that it ends.
LEMMA FrameInv ==
    ASSUME IInv, ~redis, UNCHANGED <<bids, index, seen>>, torn \subseteq torn',
           \A d \in Tx : Indexing(d)' => Indexing(d) /\ pc'[d] = pc[d] /\ Bid(d)' = Bid(d),
           \A d \in Tx : Indexing(d) => Indexing(d)' \/ <<"fault", Bid(d)>> \in torn',
           \A d \in Tx, b \in BidId : outcome'[d][b] = "ok" => outcome[d][b] = "ok"
    PROVE  Pebble'
<1> USE DEF IInv, Pebble
<1>1. SeenIsCurrent'
  <2> SUFFICES ASSUME NEW c \in Tx, pc'[c] = "setIndex"
               PROVE  /\ \A b \in BidId : Safe(b)' =>
                            (b \in Range(seen'[c]) <=> b \in Range(List(c)'))
                      /\ torn' = {} => seen'[c] = List(c)'
    BY DEF SeenIsCurrent, At
  <2>1. At(c, "setIndex") /\ List(c)' = List(c)
    BY DEF Indexing, At, List
  <2>2. torn' = {} => torn = {}
    OBVIOUS
  <2>3. \A b \in BidId : Safe(b)' => Safe(b)
    BY DEF Safe
  <2> QED
    BY <2>1, <2>2, <2>3 DEF SeenIsCurrent
<1>2. BidFirst'
  BY DEF BidFirst, Present
<1>3. Reported'
  BY DEF Reported, Safe, Present
<1> QED
  BY <1>1, <1>2, <1>3

\* The steps of that kind.
LEMMA QuietStep ==
    ASSUME Typed, NEW c \in Tx,
           \/ GetBid(c) \/ GetBidFails(c) \/ (~redis /\ GetIndexFails(c)) \/ SetIndexFails(c)
           \/ StoreFails(c) \/ \E k \in Key, v \in Value : StoreValue(c, k, v)
    PROVE  /\ todo[c] # <<>> /\ UNCHANGED <<bids, index, seen>> /\ torn \subseteq torn'
           /\ \A d \in Tx : Indexing(d)' => Indexing(d) /\ pc'[d] = pc[d] /\ Bid(d)' = Bid(d)
           /\ \A d \in Tx : Indexing(d) => Indexing(d)' \/ <<"fault", Bid(d)>> \in torn'
<1> USE DEF Typed, storeVars, Starts, At
<1>1. todo[c] # <<>>
  BY Zenon DEF GetBid, GetBidFails, GetIndexFails, SetIndexFails, StoreFails, StoreValue
<1>2. UNCHANGED <<bids, index, seen>> /\ torn \subseteq torn'
  BY ZenonT(40)
     DEF GetBid, GetBidFails, GetIndexFails, SetIndexFails, StoreFails, StoreValue, StoreInStore
<1>3. \A d \in Tx \ {c} : pc'[d] = pc[d] /\ Bid(d)' = Bid(d)
  BY Zenon DEF GetBid, GetBidFails, GetIndexFails, SetIndexFails, StoreFails, StoreValue,
               Return, GoTo, Bid
<1>4. ~ Indexing(c)'
  BY Zenon DEF GetBid, GetBidFails, GetIndexFails, SetIndexFails, StoreFails, StoreValue,
               Return, GoTo, Indexing
<1>5. Indexing(c) => <<"fault", Bid(c)>> \in torn'
  BY ZenonT(40)
     DEF GetBid, GetBidFails, GetIndexFails, SetIndexFails, StoreFails, StoreValue, Indexing
<1>6. \A d \in Tx : Indexing(d)' => Indexing(d) /\ pc'[d] = pc[d] /\ Bid(d)' = Bid(d)
  BY <1>3, <1>4 DEF Indexing
<1>7. \A d \in Tx : Indexing(d) => Indexing(d)' \/ <<"fault", Bid(d)>> \in torn'
  BY <1>3, <1>5, Zenon DEF Indexing
<1> QED
  BY <1>1, <1>2, <1>6, <1>7

\* They keep what holds for Pebble.
LEMMA QuietInv ==
    ASSUME IInv, ~redis, NEW c \in Tx,
           \/ GetBid(c) \/ GetBidFails(c) \/ GetIndexFails(c) \/ SetIndexFails(c)
           \/ StoreFails(c) \/ \E k \in Key, v \in Value : StoreValue(c, k, v)
    PROVE  Pebble'
<1>1. Typed
  BY DEF IInv
<1>2. /\ todo[c] # <<>> /\ UNCHANGED <<bids, index, seen>> /\ torn \subseteq torn'
      /\ \A d \in Tx : Indexing(d)' => Indexing(d) /\ pc'[d] = pc[d] /\ Bid(d)' = Bid(d)
      /\ \A d \in Tx : Indexing(d) => Indexing(d)' \/ <<"fault", Bid(d)>> \in torn'
  BY <1>1, QuietStep
<1>3. outcome' = outcome \/ \E out \in {"present", "error"} : Return(c, out)
  BY ZenonT(40)
     DEF GetBid, GetBidFails, GetIndexFails, SetIndexFails, StoreFails, StoreValue, GoTo
<1>4. \A d \in Tx, b \in BidId : outcome'[d][b] = "ok" => outcome[d][b] = "ok"
  BY <1>1, <1>2, <1>3, NoNewPromise DEF Outcomes
<1> QED
  BY <1>2, <1>4, FrameInv

\* So does a crash.
LEMMA CrashInv ==
    ASSUME IInv, ~redis, Crash
    PROVE  Pebble'
<1>1. UNCHANGED <<bids, index, seen, outcome>> /\ torn \subseteq torn'
  BY DEF Crash, storeVars
<1>2. \A d \in Tx : ~ Indexing(d)' /\ (Indexing(d) => <<"fault", Bid(d)>> \in torn')
  BY DEF Crash, Indexing
<1> QED
  BY <1>1, <1>2, FrameInv, Zenon
-----------------------------------------------------------------------------
\* The bid is SET, and its client goes on to the list or reports a failure.
LEMMA SetBidInv ==
    ASSUME IInv, ~redis, NEW c \in Tx, SetBid(c) \/ SetBidFails(c)
    PROVE  Pebble'
<1> USE DEF IInv, Pebble
<1>1. todo[c] # <<>> /\ pc[c] = "setBid" /\ Bid(c) \in BidId
  BY BidType DEF SetBid, SetBidFails, At, Typed
<1>2. \A d \in Tx \ {c} : pc'[d] = pc[d] /\ Bid(d)' = Bid(d)
  BY DEF SetBid, SetBidFails, Return, GoTo, Bid, Typed
<1>3. UNCHANGED <<index, seen>> /\ torn \subseteq torn'
  BY DEF SetBid, SetBidFails
<1>4. \A b \in BidId : Present(b) => Present(b)'
  BY <1>1, StoreConstants DEF SetBid, SetBidFails, Present, Typed, StoreTypeOK
<1>5. pc'[c] \in {"getIndex", "idle"} /\ (pc'[c] = "getIndex" => Present(Bid(c))' /\ Bid(c)' = Bid(c))
  BY <1>1, StoreConstants
     DEF SetBid, SetBidFails, Present, Typed, StoreTypeOK, GoTo, Return, Bid
<1>6. \A d \in Tx, b \in BidId : outcome'[d][b] = "ok" => outcome[d][b] = "ok"
  <2>1. outcome' = outcome \/ Return(c, "error")
    BY DEF SetBid, SetBidFails, GoTo
  <2> QED
    BY <1>1, <2>1, NoNewPromise DEF Outcomes
<1>7. SeenIsCurrent'
  BY <1>2, <1>3, <1>5 DEF SeenIsCurrent, At, Safe, List, Bid
<1>8. BidFirst'
  <2> SUFFICES ASSUME NEW d \in Tx, Indexing(d)' PROVE Present(Bid(d))'
    BY DEF BidFirst
  <2>1. CASE d = c
    BY <1>5, <2>1 DEF Indexing
  <2>2. CASE d # c
    <3>1. Indexing(d) /\ Bid(d)' = Bid(d) /\ Bid(d) \in BidId
      BY <1>2, <2>2, BidType DEF Indexing, Typed
    <3> QED
      BY <1>4, <3>1 DEF BidFirst, Present
  <2> QED
    BY <2>1, <2>2
<1>9. Reported'
  BY <1>3, <1>4, <1>6 DEF Reported, Safe
<1> QED
  BY <1>7, <1>8, <1>9

\* A client reads the list, and has then seen all that is on it.
LEMMA GetIndexInv ==
    ASSUME IInv, ~redis, NEW c \in Tx, GetIndex(c)
    PROVE  Pebble'
<1> USE DEF IInv, Pebble, GetIndex, GoTo, storeVars
<1>1. pc[c] = "getIndex" /\ todo[c] # <<>>
  BY DEF At, Typed
<1>2. \A d \in Tx : Bid(d)' = Bid(d) /\ (Indexing(d)' <=> Indexing(d))
  BY <1>1 DEF Bid, Indexing, Typed
<1>3. \A d \in Tx : List(d)' = List(d)
  BY <1>2 DEF List
<1>4. SeenIsCurrent'
  BY <1>3 DEF SeenIsCurrent, At, Safe, List, Typed
<1>5. BidFirst'
  BY <1>2 DEF BidFirst, Present
<1>6. Reported'
  BY DEF Reported, Safe, Present
<1> QED
  BY <1>4, <1>5, <1>6

\* A client writes the list with its own bid added.  Of what was there it takes
\* away, and of what others have seen it changes, only bids marked by an overlap.
LEMMA SetIndexInv ==
    ASSUME IInv, ~redis, NEW c \in Tx, SetIndex(c)
    PROVE  Pebble'
<1> USE DEF IInv, Pebble
<1>1. todo[c] # <<>> /\ pc[c] = "setIndex" /\ Bid(c) \in BidId /\ IndexKey[Bid(c)] \in IndexKeys
  BY BidType DEF SetIndex, At, Typed
<1>2. /\ \A d \in Tx \ {c} : pc'[d] = pc[d] /\ Bid(d)' = Bid(d)
      /\ pc'[c] = "idle"
  BY DEF SetIndex, Return, Bid, Typed
<1>3. /\ UNCHANGED <<bids, seen>> /\ torn \subseteq torn'
      /\ Overlaps(c) => <<"race", Bid(c)>> \in torn'
  BY DEF SetIndex
<1>4. /\ \A i \in IndexKeys \ {IndexKey[Bid(c)]} : index'[i] = index[i]
      /\ Range(index'[IndexKey[Bid(c)]]) = Range(seen[c]) \union {Bid(c)}
  <2>1. index' = [index EXCEPT ![IndexKey[Bid(c)]] = Append(seen[c], Bid(c))]
    BY DEF SetIndex
  <2>2. Range(Append(seen[c], Bid(c))) = Range(seen[c]) \union {Bid(c)}
    <3>1. seen[c] \in Seq(BidId)
      BY Zenon DEF Typed
    <3> QED
      BY <1>1, <3>1, AppendSet
  <2> QED
    BY <1>1, <2>1, <2>2 DEF Typed, StoreTypeOK
<1>5. \A b \in BidId : Safe(b)' => Safe(b)
  BY <1>3 DEF Safe
<1>6. \A b \in BidId : Safe(b) => (b \in Range(seen[c]) <=> b \in Range(index[IndexKey[Bid(c)]]))
  BY <1>1 DEF SeenIsCurrent, At, List
<1>7. ASSUME NEW b \in BidId, Safe(b)', b \in Range(index[IndexKey[b]])
      PROVE  b \in Range(index'[IndexKey[b]])
  <2>1. IndexKey[b] \in IndexKeys
    BY StoreConstants
  <2> QED
    BY <1>4, <1>5, <1>6, <1>7, <2>1
<1>8. SeenIsCurrent'
  <2> SUFFICES ASSUME NEW d \in Tx, At(d, "setIndex")'
               PROVE  /\ \A b \in BidId : Safe(b)' =>
                            (b \in Range(seen[d]) <=> b \in Range(List(d)'))
                      /\ torn' = {} => seen[d] = List(d)'
    BY <1>3 DEF SeenIsCurrent
  <2>1. d # c /\ At(d, "setIndex") /\ Bid(d)' = Bid(d) /\ IndexKey[Bid(d)] \in IndexKeys
    BY <1>2, BidType DEF At, Typed
  <2>2. \A b \in BidId : Safe(b) => (b \in Range(seen[d]) <=> b \in Range(index[IndexKey[Bid(d)]]))
    BY <2>1 DEF SeenIsCurrent, List
  <2>3. CASE IndexKey[Bid(d)] # IndexKey[Bid(c)]
    <3>1. List(d)' = List(d)
      BY <1>4, <2>1, <2>3 DEF List
    <3>2. torn' = {} => torn = {}
      BY <1>3
    <3> QED
      BY <1>5, <2>1, <3>1, <3>2 DEF SeenIsCurrent
  <2>4. CASE IndexKey[Bid(d)] = IndexKey[Bid(c)]
    <3>1. <<"race", Bid(c)>> \in torn'
      BY <1>3, <2>1, <2>4 DEF Overlaps
    <3>2. Range(List(d)') = Range(seen[c]) \union {Bid(c)}
      BY <1>4, <2>1, <2>4 DEF List
    <3>3. \A b \in BidId : Safe(b)' => b # Bid(c)
      BY <3>1 DEF Safe
    <3> QED
      BY <1>5, <1>6, <2>2, <2>4, <3>1, <3>2, <3>3
  <2> QED
    BY <2>3, <2>4
<1>9. BidFirst'
  BY <1>2, <1>3 DEF BidFirst, Indexing, Present
<1>10. Reported'
  <2> SUFFICES ASSUME NEW d \in Tx, NEW b \in BidId, outcome'[d][b] = "ok", Safe(b)'
               PROVE  b \in Range(index'[IndexKey[b]]) /\ Present(b)'
    BY DEF Reported
  <2>1. CASE b = Bid(c)
    <3>1. Present(b)'
      BY <1>1, <1>3, <2>1 DEF BidFirst, Indexing, Present
    <3> QED
      BY <1>4, <2>1, <3>1
  <2>2. CASE b # Bid(c)
    <3>1. outcome'[d][b] = outcome[d][b]
      BY <1>1, <2>2 DEF SetIndex, Return, Typed
    <3>2. b \in Range(index[IndexKey[b]]) /\ Present(b)
      BY <1>5, <3>1 DEF Reported
    <3> QED
      BY <1>3, <1>7, <3>2, Zenon DEF Present
  <2> QED
    BY <2>1, <2>2
<1> QED
  BY <1>8, <1>9, <1>10
-----------------------------------------------------------------------------
(***************************************************************************)
(* The order of the expiries.                                              *)
(***************************************************************************)

\* What is not empty has a first element.
LEMMA HasFirst ==
    ASSUME NEW S, NEW s \in Seq(S), s # <<>>
    PROVE  1 \in DOMAIN s
OBVIOUS

\* Where the elements of a tail are in the sequence.
LEMMA TailAt ==
    ASSUME NEW S, NEW s \in Seq(S), s # <<>>, NEW i \in DOMAIN Tail(s)
    PROVE  /\ i \in Nat \ {0} /\ i + 1 \in DOMAIN s /\ Tail(s)[i] = s[i + 1]
           /\ \A j \in 1 .. (i - 1) : Tail(s)[j] = s[j + 1]
OBVIOUS

\* The place before one that is not the first.
LEMMA PlaceBefore ==
    ASSUME NEW i \in Nat \ {0}, NEW j \in 1 .. i, j # 1
    PROVE  j - 1 \in 1 .. (i - 1) /\ (j - 1) + 1 = j
OBVIOUS

\* Places one to the left.
LEMMA PlacesMove ==
    ASSUME NEW n \in Nat, NEW p \in 1 .. n, NEW q \in 1 .. n, p < q
    PROVE  p - 1 < q - 1
OBVIOUS

\* Without the element at a place.
LEMMA CutIs ==
    ASSUME NEW E, NEW s \in Seq(E), NEW p \in 1 .. Len(s),
           NEW r, r = SubSeq(s, 1, p - 1) \o SubSeq(s, p + 1, Len(s))
    PROVE  /\ r \in Seq(E) /\ Len(r) = Len(s) - 1
           /\ \A i \in 1 .. Len(s) - 1 : r[i] = IF i < p THEN s[i] ELSE s[i + 1]
<1> DEFINE u == SubSeq(s, 1, p - 1)
           v == SubSeq(s, p + 1, Len(s))
<1>0. r = u \o v
  OBVIOUS
<1>1. /\ u \in Seq(E) /\ Len(u) = p - 1
      /\ \A i \in 1 .. p - 1 : u[i] = s[i]
  OBVIOUS
<1>2. /\ v \in Seq(E) /\ Len(v) = Len(s) - p
      /\ \A i \in 1 .. Len(s) - p : v[i] = s[p + i]
  OBVIOUS
<1> HIDE DEF u, v
<1>4. /\ u \o v \in Seq(E) /\ Len(u \o v) = Len(s) - 1
      /\ \A i \in 1 .. Len(s) - 1 : (u \o v)[i] = IF i < p THEN u[i] ELSE v[i - (p - 1)]
  <2>1. /\ u \o v \in Seq(E) /\ Len(u \o v) = Len(u) + Len(v)
        /\ \A i \in 1 .. Len(u) + Len(v) :
            (u \o v)[i] = IF i <= Len(u) THEN u[i] ELSE v[i - Len(u)]
    <3>1. u \in Seq(E) /\ v \in Seq(E)
      BY <1>1, <1>2
    <3> QED
      BY <3>1
  <2>2. Len(u) + Len(v) = Len(s) - 1 /\ \A i \in Nat : i <= Len(u) <=> i < p
    BY <1>1, <1>2
  <2> QED
    BY <1>1, <2>1, <2>2
<1>5. ASSUME NEW i \in 1 .. Len(s) - 1
      PROVE  (u \o v)[i] = IF i < p THEN s[i] ELSE s[i + 1]
  <2>1. CASE i < p
    BY <1>1, <1>4, <2>1
  <2>2. CASE ~ (i < p)
    <3>1. i - (p - 1) \in 1 .. Len(s) - p /\ p + (i - (p - 1)) = i + 1
      BY <2>2
    <3> QED
      BY <1>2, <1>4, <2>2, <3>1
  <2> QED
    BY <2>1, <2>2, Zenon
<1> QED
  BY <1>0, <1>4, <1>5, Zenon

\* r is s without e: at says where its elements stand in s.
Rest(r, s, e, at) ==
    /\ at \in [1 .. Len(r) -> 1 .. Len(s)]
    /\ \A i \in 1 .. Len(r) : r[i] = s[at[i]] /\ r[i] # e
    /\ \A i, j \in 1 .. Len(r) : i < j => at[i] < at[j]
    /\ \A k \in 1 .. Len(s) : s[k] # e => \E i \in 1 .. Len(r) : at[i] = k

\* SET of an entry: it is there once, behind all others, whose order stays.
LEMMA SetOrder ==
    ASSUME NEW E, NEW s \in Seq(E), IsInjective(s), NEW e \in E
    PROVE  LET t == Append(Without(s, e), e)
           IN  /\ t \in Seq(E) /\ IsInjective(t)
               /\ \A x \in Range(s) : x \in Range(t)
               /\ e \in Range(t)
               /\ \A x \in Range(s) \ {e} : Before(t, x, e)
               /\ \A x, y : Before(s, x, y) /\ x # e /\ y # e => Before(t, x, y)
<1> DEFINE r == Without(s, e)
           n == Len(s)
<1>1. r \in Seq(E) /\ \E at : Rest(r, s, e, at)
  <2>1. CASE ~ \E i \in 1 .. n : s[i] = e
    <3>1. r = s
      BY <2>1 DEF Without, Range
    <3>2. Rest(s, s, e, [i \in 1 .. n |-> i])
      BY <2>1 DEF Rest
    <3> QED
      BY <3>1, <3>2
  <2>2. ASSUME NEW p \in 1 .. n, s[p] = e
        PROVE  r \in Seq(E) /\ \E at : Rest(r, s, e, at)
    <3>1. e \in Range(s)
      BY <2>2 DEF Range
    <3>2. (CHOOSE q \in DOMAIN s : s[q] = e) = p
      BY <2>2 DEF IsInjective
    <3>3. r = SubSeq(s, 1, p - 1) \o SubSeq(s, p + 1, n)
      BY <3>1, <3>2, Zenon DEF Without
    <3> DEFINE at == [i \in 1 .. n - 1 |-> IF i < p THEN i ELSE i + 1]
    <3>4. /\ r \in Seq(E) /\ Len(r) = n - 1 /\ n - 1 \in Nat
          /\ \A i \in 1 .. n - 1 : r[i] = IF i < p THEN s[i] ELSE s[i + 1]
      <4> HIDE DEF r
      <4>1. /\ r \in Seq(E) /\ Len(r) = n - 1
            /\ \A i \in 1 .. n - 1 : r[i] = IF i < p THEN s[i] ELSE s[i + 1]
        BY <3>3, CutIs, Zenon
      <4> QED
        BY <4>1
    <3> HIDE DEF r
    <3>5. at \in [1 .. n - 1 -> 1 .. n]
      OBVIOUS
    <3>6. \A i \in 1 .. n - 1 : r[i] = s[at[i]] /\ at[i] # p
      BY <3>4
    <3>7. \A i \in 1 .. n - 1 : r[i] # e
      BY <2>2, <3>5, <3>6 DEF IsInjective
    <3>8. \A i, j \in 1 .. n - 1 : i < j => at[i] < at[j]
      OBVIOUS
    <3>9. ASSUME NEW k \in 1 .. n, s[k] # e
          PROVE  \E i \in 1 .. n - 1 : at[i] = k
      <4>1. CASE k < p
        <5>1. k \in 1 .. n - 1 /\ at[k] = k
          BY <4>1
        <5> QED
          BY <5>1
      <4>2. CASE k > p
        <5>1. k - 1 \in 1 .. n - 1 /\ at[k - 1] = k
          BY <4>2
        <5> QED
          BY <5>1
      <4>3. k # p
        BY <2>2, <3>9
      <4> QED
        BY <4>1, <4>2, <4>3
    <3> HIDE DEF at
    <3>10. Rest(r, s, e, at)
      BY <3>4, <3>5, <3>6, <3>7, <3>8, <3>9, Zenon DEF Rest
    <3> QED
      BY <3>4, <3>10
  <2> QED
    BY <2>1, <2>2
<1>2. PICK at : Rest(r, s, e, at)
  BY <1>1
<1> DEFINE m == Len(r)
           t == Append(r, e)
<1> HIDE DEF r
<1>3. /\ t \in Seq(E) /\ m \in Nat /\ DOMAIN t = 1 .. m + 1
      /\ \A i \in 1 .. m : t[i] = r[i]
      /\ t[m + 1] = e
  BY <1>1
<1> HIDE DEF t, m
<1>4. /\ at \in [1 .. m -> 1 .. n]
      /\ \A i \in 1 .. m : t[i] = s[at[i]] /\ t[i] # e
      /\ \A i, j \in 1 .. m : i < j => at[i] < at[j]
      /\ \A k \in 1 .. n : s[k] # e => \E i \in 1 .. m : at[i] = k
  BY <1>2, <1>3 DEF Rest, m
<1>5. DOMAIN s = 1 .. n /\ n \in Nat
  OBVIOUS
<1>6. ASSUME NEW i \in 1 .. m + 1, NEW j \in 1 .. m + 1, t[i] = t[j]
      PROVE  i = j
  <2>1. CASE i = m + 1 \/ j = m + 1
    BY <1>3, <1>4, <1>6, <2>1
  <2>2. CASE i \in 1 .. m /\ j \in 1 .. m
    <3>1. at[i] = at[j]
      BY <1>4, <1>5, <1>6, <2>2 DEF IsInjective
    <3>2. at[i] \in Nat /\ at[j] \in Nat /\ ~ (i < j) /\ ~ (j < i)
      BY <1>4, <1>5, <2>2, <3>1
    <3> QED
      BY <2>2, <3>2
  <2> QED
    BY <1>3, <2>1, <2>2
<1>7. ASSUME NEW k \in 1 .. n, s[k] # e
      PROVE  \E i \in 1 .. m : at[i] = k /\ t[i] = s[k]
  BY <1>4, <1>7
<1>8. ASSUME NEW x \in Range(s) \ {e} PROVE x \in Range(t) /\ Before(t, x, e)
  <2>1. PICK k \in 1 .. n : s[k] = x
    BY <1>5 DEF Range
  <2>2. PICK i \in 1 .. m : t[i] = x
    BY <1>7, <2>1
  <2>3. i < m + 1 /\ i \in 1 .. m + 1 /\ m + 1 \in 1 .. m + 1
    BY <1>3
  <2> QED
    BY <1>3, <2>2, <2>3 DEF Range, Before
<1>9. e \in Range(t)
  <2>1. m + 1 \in 1 .. m + 1
    BY <1>3
  <2> QED
    BY <1>3, <2>1 DEF Range
<1>10. ASSUME NEW x, NEW y, Before(s, x, y), x # e, y # e
       PROVE  Before(t, x, y)
  <2>1. PICK p, q \in 1 .. n : p < q /\ s[p] = x /\ s[q] = y
    BY <1>5, <1>10 DEF Before
  <2>2. PICK i \in 1 .. m : at[i] = p /\ t[i] = x
    BY <1>7, <1>10, <2>1
  <2>3. PICK j \in 1 .. m : at[j] = q /\ t[j] = y
    BY <1>7, <1>10, <2>1
  <2>4. i < j
    <3>1. ~ (j < i) /\ i # j
      BY <1>4, <2>1, <2>2, <2>3
    <3> QED
      BY <1>3, <3>1
  <2>5. i \in DOMAIN t /\ j \in DOMAIN t
    BY <1>3
  <2> QED
    BY <2>2, <2>3, <2>4, <2>5 DEF Before
<1>11. IsInjective(t)
  BY <1>3, <1>6 DEF IsInjective
<1> QED
  BY <1>3, <1>8, <1>9, <1>10, <1>11 DEF t, r

\* The first entry expires.
LEMMA TailOrder ==
    ASSUME NEW E, NEW s \in Seq(E), IsInjective(s), s # <<>>
    PROVE  /\ Head(s) \in E /\ Tail(s) \in Seq(E) /\ IsInjective(Tail(s))
           /\ \A x \in Range(s) : x # Head(s) => x \in Range(Tail(s))
           /\ \A x, y : Before(s, x, y) =>
                y # Head(s) /\ (x # Head(s) => Before(Tail(s), x, y))
<1> DEFINE n == Len(s)
           t == Tail(s)
<1>1. /\ n \in Nat \ {0} /\ DOMAIN s = 1 .. n /\ Head(s) = s[1] /\ Head(s) \in E
      /\ t \in Seq(E) /\ DOMAIN t = 1 .. n - 1
      /\ \A i \in 1 .. n - 1 : t[i] = s[i + 1]
  OBVIOUS
<1> HIDE DEF n, t
<1>2. IsInjective(t)
  <2> SUFFICES ASSUME NEW i \in 1 .. n - 1, NEW j \in 1 .. n - 1, t[i] = t[j] PROVE i = j
    BY <1>1 DEF IsInjective
  <2>1. i + 1 \in DOMAIN s /\ j + 1 \in DOMAIN s /\ s[i + 1] = s[j + 1]
    BY <1>1
  <2>2. i + 1 = j + 1
    BY <2>1 DEF IsInjective
  <2> QED
    BY <1>1, <2>2
<1>3. ASSUME NEW k \in 1 .. n, s[k] # Head(s)
      PROVE  k - 1 \in DOMAIN t /\ t[k - 1] = s[k]
  BY <1>1, <1>3
<1>4. \A x \in Range(s) : x # Head(s) => x \in Range(t)
  BY <1>1, <1>3 DEF Range
<1>5. ASSUME NEW x, NEW y, Before(s, x, y)
      PROVE  y # Head(s) /\ (x # Head(s) => Before(t, x, y))
  <2>1. PICK p, q \in 1 .. n : p < q /\ s[p] = x /\ s[q] = y
    BY <1>1, <1>5 DEF Before
  <2>2. y # Head(s)
    <3>1. q \in DOMAIN s /\ 1 \in DOMAIN s /\ q # 1
      BY <1>1, <2>1
    <3> QED
      BY <1>1, <2>1, <3>1, Zenon DEF IsInjective
  <2>3. ASSUME x # Head(s) PROVE Before(t, x, y)
    <3>1. /\ p - 1 \in DOMAIN t /\ t[p - 1] = x /\ q - 1 \in DOMAIN t /\ t[q - 1] = y
          /\ p - 1 < q - 1
      <4>1. p - 1 < q - 1
        BY <1>1, <2>1, PlacesMove, Zenon
      <4> QED
        BY <1>3, <2>1, <2>2, <2>3, <4>1, Zenon
    <3> QED
      BY <3>1 DEF Before
  <2> QED
    BY <2>2, <2>3
<1> QED
  BY <1>1, <1>2, <1>4, <1>5 DEF t

\* Only SET and expiry change the ages.
LEMMA AgeStep ==
    ASSUME Typed, KVNext
    PROVE  UNCHANGED age \/ Expire \/ \E e \in Entry : Set(e)
<1>1. ASSUME NEW c \in Tx, todo[c] # <<>>
      PROVE  /\ <<"bid", Bid(c)>> \in Entry /\ <<"index", IndexKey[Bid(c)]>> \in Entry
             /\ \A k \in Key : <<"data", Bid(c), k>> \in Entry
  BY <1>1, BidType DEF Entry
<1>2. ASSUME NEW c \in Tx, SetBid(c) \/ SetBidFails(c) \/ SetIndex(c)
      PROVE  UNCHANGED age \/ \E e \in Entry : Set(e)
  <2>1. todo[c] # <<>>
    BY <1>2 DEF SetBid, SetBidFails, SetIndex, At, Typed
  <2> QED
    BY <1>1, <1>2, <2>1, Zenon DEF SetBid, SetBidFails, SetIndex
<1>3. ASSUME NEW c \in Tx, NEW k \in Key, NEW v \in Value, StoreValue(c, k, v)
      PROVE  \E e \in Entry : Set(e)
  BY <1>1, <1>3, Zenon DEF StoreValue, Starts
<1>4. CASE Expire \/ UNCHANGED age
  BY <1>4
<1> QED
  BY <1>2, <1>3, <1>4, Zenon
     DEF KVNext, GetBid, GetIndex, GetBidFails, GetIndexFails, SetIndexFails, StoreFails, Crash

\* SET in the terms of SetOrder.
LEMMA SetAges ==
    ASSUME Aged, NEW e \in Entry, Set(e)
    PROVE  /\ age' \in Seq(Entry) /\ IsInjective(age')
           /\ \A x \in Range(age) : x \in Range(age')
           /\ e \in Range(age')
           /\ \A x \in Range(age) \ {e} : Before(age', x, e)
           /\ \A x, y : Before(age, x, y) /\ x # e /\ y # e => Before(age', x, y)
BY SetOrder DEF Aged, Set

\* Each entry keeps its one place.
LEMMA AgedInv ==
    ASSUME Typed, Aged, KVNext
    PROVE  Aged'
<1>1. redis' \in BOOLEAN
  BY DEF Aged, KVNext
<1>2. CASE UNCHANGED age
  BY <1>1, <1>2 DEF Aged
<1>3. CASE Expire
  BY <1>1, <1>3, TailOrder DEF Aged, Expire
<1>4. ASSUME NEW e \in Entry, Set(e) PROVE Aged'
  BY <1>1, <1>4, SetAges, Zenon DEF Aged
<1> QED
  BY <1>2, <1>3, <1>4, AgeStep

\* What expires is taken from the database.
LEMMA ExpireStep ==
    ASSUME Typed, Aged, Expire
    PROVE  /\ age # <<>> /\ age' = Tail(age) /\ UNCHANGED <<todo, pc, seen, outcome, torn>>
           /\ \A b \in BidId : Present(b)' => Present(b) /\ <<"bid", b>> # Head(age)
           /\ \A i \in IndexKeys : <<"index", i>> # Head(age) => index'[i] = index[i]
<1> DEFINE e == Head(age)
<1>1. age # <<>> /\ age' = Tail(age) /\ UNCHANGED <<todo, pc, seen, outcome, torn>>
  BY DEF Expire, clientVars
<1>2. e \in Entry
  BY <1>1, TailOrder DEF Aged
<1>3. \/ e[1] = "bid" /\ bids' = [bids EXCEPT ![e[2]] = None] /\ index' = index
      \/ e[1] = "data" /\ bids' = bids /\ index' = index
      \/ e[1] = "index" /\ bids' = bids /\ index' = [index EXCEPT ![e[2]] = <<>>]
  BY DEF Expire
<1> HIDE DEF e
<1>4. ASSUME NEW b \in BidId, Present(b)' PROVE Present(b) /\ <<"bid", b>> # e
  BY <1>3, <1>4 DEF Present, Typed, StoreTypeOK
<1>5. ASSUME NEW i \in IndexKeys, <<"index", i>> # e PROVE index'[i] = index[i]
  BY <1>2, <1>3, <1>5 DEF Entry, Typed, StoreTypeOK
<1> QED
  BY <1>1, <1>4, <1>5 DEF e

\* A bid is stored and taken away together with its entry.
LEMMA DatedInv ==
    ASSUME Typed, Aged, Dated, KVNext
    PROVE  Dated'
<1> SUFFICES ASSUME NEW b \in BidId, Present(b)'
             PROVE  <<"bid", b>> \in Range(age')
  BY DEF Dated
<1>1. CASE Expire
  <2>1. Present(b) /\ <<"bid", b>> # Head(age) /\ age # <<>> /\ age' = Tail(age)
    BY <1>1, ExpireStep
  <2> QED
    BY <2>1, TailOrder DEF Aged, Dated
<1>2. ASSUME NEW c \in Tx, SetBid(c) \/ SetBidFails(c)
      PROVE  <<"bid", b>> \in Range(age')
  <2>1. todo[c] # <<>>
    BY <1>2 DEF SetBid, SetBidFails, At, Typed
  <2>2. <<"bid", Bid(c)>> \in Entry
    BY <2>1, BidType DEF Entry
  <2>3. CASE UNCHANGED <<bids, age>>
    BY <2>3 DEF Dated, Present
  <2>4. CASE bids' = [bids EXCEPT ![Bid(c)] = c] /\ Set(<<"bid", Bid(c)>>)
    <3>1. b # Bid(c) => Present(b)
      BY <2>4 DEF Present, Typed, StoreTypeOK
    <3> QED
      BY <2>2, <2>4, <3>1, SetAges DEF Dated
  <2> QED
    BY <1>2, <2>3, <2>4, Zenon DEF SetBid, SetBidFails
<1>3. CASE bids' = bids /\ ~ Expire
  <2>1. <<"bid", b>> \in Range(age)
    BY <1>3 DEF Dated, Present
  <2>2. UNCHANGED age \/ \E e \in Entry : Set(e)
    BY <1>3, AgeStep, Zenon
  <2> QED
    BY <2>1, <2>2, SetAges
<1> QED
  BY <1>1, <1>2, <1>3, Zenon
     DEF KVNext, GetBid, GetIndex, SetIndex, GetBidFails, GetIndexFails, SetIndexFails,
         StoreValue, StoreInStore, StoreFails, Crash, storeVars
-----------------------------------------------------------------------------
(***************************************************************************)
(* Bids stay on their lists.                                               *)
(***************************************************************************)

\* A step that touches no list and unsettles nobody.
LEMMA KeptFrame ==
    ASSUME Kept, index' = index,
           \A b \in BidId : Settled(b)' =>
                /\ Settled(b)
                /\ Before(age, <<"bid", b>>, <<"index", IndexKey[b]>>) =>
                        Before(age', <<"bid", b>>, <<"index", IndexKey[b]>>),
           \A c \in Tx : At(c, "setIndex")' =>
                At(c, "setIndex") /\ Bid(c)' = Bid(c) /\ seen'[c] = seen[c]
    PROVE  Kept'
BY DEF Kept

\* Updates of lists that end without success leave a blame, so that no bid is
\* settled by them.
LEMMA NotSettledBy ==
    ASSUME torn \subseteq torn',
           \A d \in Tx : Indexing(d) =>
                (Indexing(d)' /\ Bid(d)' = Bid(d)) \/ <<"fault", Bid(d)>> \in torn',
           NEW b \in BidId, Settled(b)', Present(b)
    PROVE  Settled(b)
BY DEF Settled, Reasons

\* SET of a bid or of data does not change the order of other bids and lists.
LEMMA OrderStays ==
    ASSUME Aged, NEW e \in Entry, Set(e), NEW b \in BidId,
           e # <<"bid", b>>, e # <<"index", IndexKey[b]>>,
           Before(age, <<"bid", b>>, <<"index", IndexKey[b]>>)
    PROVE  Before(age', <<"bid", b>>, <<"index", IndexKey[b]>>)
BY SetAges, Zenon

\* Steps that change neither bids nor lists.
LEMMA QuietKept ==
    ASSUME Typed, Aged, Kept, NEW c \in Tx,
           \/ GetBid(c) \/ GetBidFails(c) \/ (~redis /\ GetIndexFails(c)) \/ SetIndexFails(c)
           \/ StoreFails(c) \/ \E k \in Key, v \in Value : StoreValue(c, k, v)
    PROVE  Kept'
<1>1. /\ todo[c] # <<>> /\ UNCHANGED <<bids, index, seen>> /\ torn \subseteq torn'
      /\ \A d \in Tx : Indexing(d)' => Indexing(d) /\ pc'[d] = pc[d] /\ Bid(d)' = Bid(d)
      /\ \A d \in Tx : Indexing(d) => Indexing(d)' \/ <<"fault", Bid(d)>> \in torn'
  BY QuietStep, Zenon
<1>2. \A b \in BidId : Settled(b)' => Settled(b)
  <2> SUFFICES ASSUME NEW b \in BidId, Settled(b)' PROVE Settled(b)
    OBVIOUS
  <2>1. Present(b)
    BY <1>1, Zenon DEF Settled, Present
  <2> QED
    BY <1>1, <2>1, NotSettledBy
<1>3. UNCHANGED age \/ \E k \in Key : Set(<<"data", Bid(c), k>>)
  BY DEF GetBid, GetBidFails, GetIndexFails, SetIndexFails, StoreFails, StoreValue
<1>4. ASSUME NEW b \in BidId, Before(age, <<"bid", b>>, <<"index", IndexKey[b]>>)
      PROVE  Before(age', <<"bid", b>>, <<"index", IndexKey[b]>>)
  <2>1. CASE UNCHANGED age
    BY <1>4, <2>1
  <2>2. ASSUME NEW k \in Key, Set(<<"data", Bid(c), k>>)
        PROVE  Before(age', <<"bid", b>>, <<"index", IndexKey[b]>>)
    <3>1. <<"data", Bid(c), k>> \in Entry
      BY <1>1, BidType DEF Entry
    <3>2. <<"data", Bid(c), k>> # <<"bid", b>> /\ <<"data", Bid(c), k>> # <<"index", IndexKey[b]>>
      OBVIOUS
    <3> QED
      BY <1>4, <2>2, <3>1, <3>2, OrderStays, Zenon
  <2> QED
    BY <1>3, <2>1, <2>2, Zenon
<1>5. \A d \in Tx : At(d, "setIndex")' =>
        At(d, "setIndex") /\ Bid(d)' = Bid(d) /\ seen'[d] = seen[d]
  BY <1>1, Zenon DEF At, Indexing
<1> QED
  BY <1>1, <1>2, <1>4, <1>5, KeptFrame, Zenon

\* The client whose bid is SET is about to put it on the list, or has failed.
LEMMA SetBidKept ==
    ASSUME Typed, Aged, Kept, NEW c \in Tx, SetBid(c) \/ SetBidFails(c)
    PROVE  Kept'
<1>1. todo[c] # <<>> /\ pc[c] = "setBid" /\ Bid(c) \in BidId
  BY BidType, Zenon DEF SetBid, SetBidFails, At, Typed
<1>2. \A d \in Tx \ {c} : pc'[d] = pc[d] /\ Bid(d)' = Bid(d)
  BY DEF SetBid, SetBidFails, Return, GoTo, Bid, Typed
<1>3. UNCHANGED <<index, seen>> /\ torn \subseteq torn'
  BY DEF SetBid, SetBidFails
<1>4. CASE UNCHANGED <<bids, age>>
  <2>1. \A b \in BidId : Settled(b)' => Settled(b)
    <3> SUFFICES ASSUME NEW b \in BidId, Settled(b)' PROVE Settled(b)
      OBVIOUS
    <3>1. Present(b)
      BY <1>4 DEF Settled, Present
    <3>2. \A d \in Tx : Indexing(d) => Indexing(d)' /\ Bid(d)' = Bid(d)
      BY <1>1, <1>2, Zenon DEF Indexing
    <3> QED
      BY <1>3, <3>1, <3>2, NotSettledBy
  <2>2. \A d \in Tx : At(d, "setIndex")' =>
          At(d, "setIndex") /\ Bid(d)' = Bid(d) /\ seen'[d] = seen[d]
    BY <1>1, <1>2, <1>3 DEF SetBid, SetBidFails, Return, GoTo, At, Typed
  <2> QED
    BY <1>3, <1>4, <2>1, <2>2, KeptFrame
<1>5. CASE bids' = [bids EXCEPT ![Bid(c)] = c] /\ Set(<<"bid", Bid(c)>>)
  <2>1. (Indexing(c)' /\ Bid(c)' = Bid(c)) \/ <<"fault", Bid(c)>> \in torn' \/ UNCHANGED <<bids, age>>
    BY <1>1 DEF SetBid, SetBidFails, GoTo, Indexing, Bid, Typed
  <2>2. CASE UNCHANGED <<bids, age>>
    BY <1>4, <2>2
  <2>3. ASSUME (Indexing(c)' /\ Bid(c)' = Bid(c)) \/ <<"fault", Bid(c)>> \in torn',
               NEW b \in BidId, Settled(b)'
        PROVE  /\ Settled(b)
               /\ Before(age, <<"bid", b>>, <<"index", IndexKey[b]>>) =>
                    Before(age', <<"bid", b>>, <<"index", IndexKey[b]>>)
    <3>1. b # Bid(c)
      BY <2>3, Zenon DEF Settled, Reasons
    <3>2. Present(b)
      BY <1>5, <2>3, <3>1, Zenon DEF Settled, Present, Typed, StoreTypeOK
    <3>3. \A d \in Tx : Indexing(d) => Indexing(d)' /\ Bid(d)' = Bid(d)
      BY <1>1, <1>2 DEF Indexing
    <3>4. Settled(b)
      BY <1>3, <2>3, <3>2, <3>3, NotSettledBy
    <3>5. <<"bid", Bid(c)>> \in Entry
      BY <1>1 DEF Entry
    <3>6. <<"bid", Bid(c)>> # <<"bid", b>> /\ <<"bid", Bid(c)>> # <<"index", IndexKey[b]>>
      BY <3>1, Zenon
    <3> QED
      BY <1>5, <3>4, <3>5, <3>6, OrderStays
  <2>4. \A d \in Tx : At(d, "setIndex")' =>
          At(d, "setIndex") /\ Bid(d)' = Bid(d) /\ seen'[d] = seen[d]
    BY <1>1, <1>2, <1>3 DEF SetBid, SetBidFails, Return, GoTo, At, Typed
  <2> QED
    BY <1>3, <2>1, <2>2, <2>3, <2>4, KeptFrame, Zenon
<1> QED
  BY <1>4, <1>5, Zenon DEF SetBid, SetBidFails

\* A client reads the list with all settled bids on it.  If Redis fails to and
\* goes on, those bids are marked.
LEMMA GetIndexKept ==
    ASSUME Typed, Kept, NEW c \in Tx, GetIndex(c) \/ (redis /\ GetIndexFails(c))
    PROVE  Kept'
<1>1. /\ pc[c] = "getIndex" /\ pc' = [pc EXCEPT ![c] = "setIndex"]
      /\ UNCHANGED <<bids, index, todo, age>> /\ torn \subseteq torn'
  BY DEF GetIndex, GetIndexFails, At, GoTo, storeVars
<1>2. \A d \in Tx : Bid(d)' = Bid(d) /\ (Indexing(d)' <=> Indexing(d))
  BY <1>1, Zenon DEF Bid, Indexing, Typed
<1> SUFFICES ASSUME NEW b \in BidId, Settled(b)'
             PROVE  /\ b \in Range(index[IndexKey[b]])
                    /\ Before(age, <<"bid", b>>, <<"index", IndexKey[b]>>)
                    /\ \A d \in Tx : At(d, "setIndex")' /\ IndexKey[Bid(d)] = IndexKey[b] =>
                            b \in Range(seen'[d])
  BY <1>1, <1>2, Zenon DEF Kept
<1>3. Settled(b)
  BY <1>1, <1>2 DEF Settled, Present
<1>4. ASSUME NEW d \in Tx, At(d, "setIndex")', IndexKey[Bid(d)] = IndexKey[b]
      PROVE  b \in Range(seen'[d])
  <2>1. CASE d # c
    <3>1. At(d, "setIndex") /\ seen'[d] = seen[d]
      BY <1>1, <1>4, <2>1 DEF GetIndex, GetIndexFails, At, Typed
    <3> QED
      BY <1>3, <1>4, <3>1, Zenon DEF Kept
  <2>2. CASE d = c
    <3>1. b \in Range(index[IndexKey[Bid(c)]])
      BY <1>3, <1>4, <2>2, Zenon DEF Kept
    <3>2. CASE GetIndex(c)
      BY <2>2, <3>1, <3>2 DEF GetIndex, Typed
    <3>3. CASE redis /\ GetIndexFails(c)
      <4>1. <<"fault", b>> \in torn'
        BY <3>1, <3>3 DEF GetIndexFails
      <4> QED
        BY <4>1, Zenon DEF Settled, Reasons
    <3> QED
      BY <3>2, <3>3
  <2> QED
    BY <2>1, <2>2
<1> QED
  BY <1>3, <1>4, Zenon DEF Kept

\* The list is SET with all settled bids and the client's own, and outlives them.
LEMMA SetIndexKept ==
    ASSUME Typed, Aged, Dated, Kept, NEW c \in Tx, SetIndex(c)
    PROVE  Kept'
<1>1. todo[c] # <<>> /\ pc[c] = "setIndex" /\ Bid(c) \in BidId /\ IndexKey[Bid(c)] \in IndexKeys
  BY BidType, Zenon DEF SetIndex, At, Typed
<1>2. /\ \A d \in Tx \ {c} : pc'[d] = pc[d] /\ Bid(d)' = Bid(d)
      /\ pc'[c] = "idle"
  BY DEF SetIndex, Return, Bid, Typed
<1>3. /\ UNCHANGED <<bids, seen>> /\ torn \subseteq torn'
      /\ Overlaps(c) => <<"race", Bid(c)>> \in torn'
  BY Zenon DEF SetIndex
<1>4. /\ \A i \in IndexKeys \ {IndexKey[Bid(c)]} : index'[i] = index[i]
      /\ Range(index'[IndexKey[Bid(c)]]) = Range(seen[c]) \union {Bid(c)}
  <2>1. index' = [index EXCEPT ![IndexKey[Bid(c)]] = Append(seen[c], Bid(c))]
    BY Zenon DEF SetIndex
  <2>2. Range(Append(seen[c], Bid(c))) = Range(seen[c]) \union {Bid(c)}
    <3>1. seen[c] \in Seq(BidId)
      BY Zenon DEF Typed
    <3> QED
      BY <1>1, <3>1, AppendSet
  <2> QED
    BY <1>1, <2>1, <2>2 DEF Typed, StoreTypeOK
<1> DEFINE e == <<"index", IndexKey[Bid(c)]>>
<1>5. e \in Entry /\ Set(e)
  BY <1>1, Zenon DEF Entry, SetIndex
<1> SUFFICES ASSUME NEW b \in BidId, Settled(b)'
             PROVE  /\ b \in Range(index'[IndexKey[b]])
                    /\ Before(age', <<"bid", b>>, <<"index", IndexKey[b]>>)
                    /\ \A d \in Tx : At(d, "setIndex")' /\ IndexKey[Bid(d)'] = IndexKey[b] =>
                            b \in Range(seen'[d])
  BY DEF Kept
<1>6. IndexKey[b] \in IndexKeys /\ <<"bid", b>> \in Range(age) /\ <<"bid", b>> # e
  BY <1>3, StoreConstants DEF Settled, Present, Dated
<1>7. ASSUME IndexKey[b] = IndexKey[Bid(c)]
      PROVE  Before(age', <<"bid", b>>, <<"index", IndexKey[b]>>)
  <2>1. Before(age', <<"bid", b>>, e)
    <3> HIDE DEF e
    <3> QED
      BY <1>5, <1>6, SetAges, Zenon
  <2> QED
    BY <1>7, <2>1
<1>8. CASE b = Bid(c)
  <2>1. ~ Overlaps(c)
    BY <1>3, <1>8 DEF Settled, Reasons
  <2>2. \A d \in Tx : At(d, "setIndex")' => IndexKey[Bid(d)'] # IndexKey[b]
    BY <1>2, <1>8, <2>1, Zenon DEF Overlaps, At
  <2> QED
    BY <1>4, <1>7, <1>8, <2>2
<1>9. CASE b # Bid(c)
  <2>1. \A d \in Tx : Indexing(d) => Bid(d) # b
    BY <1>2, <1>9 DEF Settled, Indexing
  <2>2. Settled(b)
    BY <1>3, <2>1, Zenon DEF Settled, Present
  <2>3. /\ b \in Range(index[IndexKey[b]])
        /\ Before(age, <<"bid", b>>, <<"index", IndexKey[b]>>)
        /\ \A d \in Tx : At(d, "setIndex") /\ IndexKey[Bid(d)] = IndexKey[b] =>
                b \in Range(seen[d])
    BY <2>2 DEF Kept
  <2>4. \A d \in Tx : At(d, "setIndex")' /\ IndexKey[Bid(d)'] = IndexKey[b] =>
            b \in Range(seen'[d])
    BY <1>2, <1>3, <2>3, ZenonT(40) DEF At
  <2>5. CASE IndexKey[b] = IndexKey[Bid(c)]
    BY <1>1, <1>4, <1>7, <2>3, <2>4, <2>5, Zenon DEF At
  <2>6. CASE IndexKey[b] # IndexKey[Bid(c)]
    <3>1. e # <<"index", IndexKey[b]>>
      BY <2>6, Zenon
    <3>2. Before(age', <<"bid", b>>, <<"index", IndexKey[b]>>)
      <4> HIDE DEF e
      <4> QED
        BY <1>5, <1>6, <2>3, <3>1, OrderStays, Zenon
    <3> QED
      BY <1>4, <1>6, <2>3, <2>4, <2>6, <3>2, Zenon
  <2> QED
    BY <2>5, <2>6
<1> QED
  BY <1>8, <1>9, Zenon

\* A list does not expire before the settled bids on it have.
LEMMA ExpireKept ==
    ASSUME Typed, Aged, Kept, Expire
    PROVE  Kept'
<1>1. /\ age # <<>> /\ age' = Tail(age) /\ UNCHANGED <<todo, pc, seen, outcome, torn>>
      /\ \A b \in BidId : Present(b)' => Present(b) /\ <<"bid", b>> # Head(age)
      /\ \A i \in IndexKeys : <<"index", i>> # Head(age) => index'[i] = index[i]
  BY ExpireStep, Zenon
<1>2. \A d \in Tx : Bid(d)' = Bid(d) /\ (Indexing(d)' <=> Indexing(d))
                    /\ (At(d, "setIndex")' <=> At(d, "setIndex"))
  BY <1>1, ZenonT(40) DEF Bid, Indexing, At
<1> SUFFICES ASSUME NEW b \in BidId, Settled(b)'
             PROVE  /\ b \in Range(index'[IndexKey[b]])
                    /\ Before(age', <<"bid", b>>, <<"index", IndexKey[b]>>)
                    /\ \A d \in Tx : At(d, "setIndex") /\ IndexKey[Bid(d)] = IndexKey[b] =>
                            b \in Range(seen[d])
  BY <1>1, <1>2, ZenonT(40) DEF Kept
<1>3. Settled(b) /\ <<"bid", b>> # Head(age)
  BY <1>1, <1>2, ZenonT(40) DEF Settled
<1>4. /\ b \in Range(index[IndexKey[b]])
      /\ Before(age, <<"bid", b>>, <<"index", IndexKey[b]>>)
      /\ \A d \in Tx : At(d, "setIndex") /\ IndexKey[Bid(d)] = IndexKey[b] =>
            b \in Range(seen[d])
  BY <1>3, ZenonT(40) DEF Kept
<1>5. <<"index", IndexKey[b]>> # Head(age) /\ Before(age', <<"bid", b>>, <<"index", IndexKey[b]>>)
  BY <1>1, <1>3, <1>4, TailOrder, Zenon DEF Aged
<1>6. IndexKey[b] \in IndexKeys
  BY StoreConstants
<1> QED
  BY <1>1, <1>4, <1>5, <1>6, ZenonT(40)

\* A crash marks the bids that were on their way to a list.
LEMMA CrashKept ==
    ASSUME Typed, Kept, Crash
    PROVE  Kept'
<1>1. UNCHANGED <<bids, index, seen, age>> /\ torn \subseteq torn'
  BY ZenonT(40) DEF Crash, storeVars
<1>2. \A d \in Tx : ~ Indexing(d)' /\ (Indexing(d) => <<"fault", Bid(d)>> \in torn')
  BY DEF Crash, Indexing
<1>3. \A b \in BidId : Settled(b)' => Settled(b)
  <2> SUFFICES ASSUME NEW b \in BidId, Settled(b)' PROVE Settled(b)
    OBVIOUS
  <2>1. Present(b)
    BY <1>1 DEF Settled, Present
  <2> QED
    BY <1>1, <1>2, <2>1, NotSettledBy
<1>4. \A d \in Tx : ~ At(d, "setIndex")'
  BY <1>2, Zenon DEF At, Indexing
<1> QED
  BY <1>1, <1>3, <1>4, KeptFrame, Zenon

\* Every step keeps the settled bids where they are.
LEMMA KeptInv ==
    ASSUME Typed, Aged, Dated, Kept, KVNext
    PROVE  Kept'
<1>1. redis \in BOOLEAN
  BY DEF Aged
<1> QED
  BY <1>1, QuietKept, SetBidKept, GetIndexKept, SetIndexKept, ExpireKept, CrashKept DEF KVNext
-----------------------------------------------------------------------------
\* Nothing is stored yet.
LEMMA InitInv == KVInit => IInv
<1> SUFFICES ASSUME KVInit PROVE IInv
  OBVIOUS
<1>1. Typed
  <2>1. StoreTypeOK
    BY DEF KVInit, StoreInit, StoreTypeOK
  <2>2. seen \in [Tx -> Seq(BidId)]
    BY DEF KVInit
  <2> QED
    BY <2>1, <2>2, KVConstants DEF KVInit, Typed, Steps, Outcomes
<1>2. Pebble
  BY DEF KVInit, StoreInit, Pebble, SeenIsCurrent, BidFirst, Reported, At, Indexing, Present
<1>3. Aged
  <2>1. <<>> \in Seq(Entry) /\ DOMAIN <<>> = {}
    OBVIOUS
  <2>2. IsInjective(age)
    BY <2>1, Zenon DEF KVInit, IsInjective
  <2> QED
    BY <2>1, <2>2, KVConstants DEF KVInit, Aged
<1>4. Dated /\ Kept
  BY DEF KVInit, StoreInit, Dated, Kept, Settled, Present
<1> QED
  BY <1>1, <1>2, <1>3, <1>4 DEF IInv

\* The invariant is kept by every step.
LEMMA StepInv ==
    ASSUME IInv, KVNext
    PROVE  IInv'
<1>1. Typed'
  BY TypedInv DEF IInv
<1>2. ASSUME ~redis PROVE Pebble'
  <2>1. ~ Expire
    BY <1>2 DEF Expire
  <2> QED
    BY <1>2, <2>1, QuietInv, CrashInv, SetBidInv, GetIndexInv, SetIndexInv DEF KVNext
<1>3. redis' = redis
  BY DEF KVNext
<1>4. Aged' /\ Dated' /\ Kept'
  BY AgedInv, DatedInv, KeptInv DEF IInv
<1> QED
  BY <1>1, <1>2, <1>3, <1>4 DEF IInv

\* It holds throughout.
LEMMA Invariance == KVSpec => []IInv
<1>1. ASSUME IInv, UNCHANGED kvVars PROVE IInv'
  BY <1>1, ZenonT(40)
     DEF IInv, kvVars, storeVars, clientVars, Typed, StoreTypeOK, Pebble, SeenIsCurrent,
         BidFirst, Reported, At, Indexing, Present, Safe, List, Bid, Aged, Dated, Kept, Settled
<1> QED
  BY <1>1, InitInv, StepInv, PTL DEF KVSpec

\* The types of KVStore, with one place among the expiries for each entry.
THEOREM KVTypeCorrect == KVSpec => []KVTypeOK
<1>1. IInv => KVTypeOK
  BY Zenon DEF IInv, Typed, Aged, KVTypeOK
<1> QED
  BY <1>1, Invariance, PTL

\* Neither backend loses a bid from its index list but to an overlapping update, a
\* failed call or a crash; expiry of Redis's entries takes the bid before the list.
THEOREM BidsStayListed == KVSpec => []NotLost
<1>1. IInv => NotLost
  BY Zenon DEF IInv, Kept, Settled, NotLost, Listed, FetchFromStore
<1> QED
  BY <1>1, Invariance, PTL

\* When Pebble's InitializeBid reports success, only an overlapping update takes
\* the bid off its list: failed calls and crashes do not.
THEOREM PebbleReports == KVSpec => []ReportedIsListed
<1>1. IInv => ReportedIsListed
  BY DEF IInv, Pebble, Reported, ReportedIsListed, Listed, FetchFromStore, Safe
<1> QED
  BY <1>1, Invariance, PTL
-----------------------------------------------------------------------------
(***************************************************************************)
(* Data and bids.                                                          *)
(***************************************************************************)

\* Every write in the sequence comes after the creation of its bid, or the bid
\* is there.
BidsFirst(ops) ==
    \A i \in DOMAIN ops : ops[i].op = "store" =>
        \/ Present(ops[i].bid)
        \/ \E j \in 1 .. (i - 1) : ops[j].op = "init" /\ ops[j].bid = ops[i].bid

\* What is left of a program that says what Finalize does for bids of the request
\* itself; a client that runs NewMessage has the bids of its program only.
Ordered ==
    /\ \A c \in Tx \ Receivers : BidsFirst(todo[c])
    /\ \A c \in Receivers : Range(todo[c]) \subseteq Range(Program[c])

WInv == ~redis => Ordered /\ WrittenHasBid

\* The programs of the clients other than those that run NewMessage create a bid
\* before they write to it.
InitializesFirst ==
    \A c \in Tx \ Receivers : \A i \in DOMAIN Program[c] : Program[c][i].op = "store" =>
        \E j \in 1 .. (i - 1) : Program[c][j].op = "init" /\ Program[c][j].bid = Program[c][i].bid

\* Pebble keeps a bid that it has.
LEMMA BidsStay ==
    ASSUME IInv, KVNext, ~redis, NEW b \in BidId, Present(b)
    PROVE  Present(b)'
<1>1. ASSUME NEW c \in Tx, SetBid(c) \/ SetBidFails(c) PROVE Present(b)'
  BY <1>1, StoreConstants, Zenon DEF SetBid, SetBidFails, Present, IInv, Typed, StoreTypeOK
<1>2. CASE bids' = bids
  BY <1>2 DEF Present
<1> QED
  BY <1>1, <1>2, ZenonT(40)
     DEF KVNext, GetBid, GetIndex, SetIndex, GetBidFails, GetIndexFails, SetIndexFails, StoreValue,
         StoreInStore, StoreFails, Expire, Crash, storeVars

\* After a step a client is left with what it had, with its tail, with nothing,
\* or, if it runs NewMessage, with some later part.  It drops the creation of a
\* bid only when the bid is there.
LEMMA TodoStep ==
    ASSUME IInv, KVNext, ~redis, NEW d \in Tx
    PROVE  \/ todo'[d] = todo[d] \/ todo'[d] = <<>>
           \/ /\ todo[d] # <<>> /\ todo'[d] = Tail(todo[d])
              /\ d \in Receivers \/ todo[d][1].op # "init" \/ Present(Bid(d))
           \/ d \in Receivers /\ todo'[d] = SubSeq(todo[d], 3, Len(todo[d]))
<1> USE DEF IInv, Typed
<1>1. ASSUME NEW c \in Tx, NEW out, Return(c, out), todo[c] # <<>>,
             out # "ok" \/ Present(Bid(c))
      PROVE  \/ todo'[d] = todo[d] \/ todo'[d] = <<>>
             \/ /\ todo[d] # <<>> /\ todo'[d] = Tail(todo[d])
                /\ d \in Receivers \/ todo[d][1].op # "init" \/ Present(Bid(d))
             \/ d \in Receivers /\ todo'[d] = SubSeq(todo[d], 3, Len(todo[d]))
  <2>1. todo' = [todo EXCEPT ![c] = Remaining(c, out)]
    BY <1>1, Zenon DEF Return
  <2>2. CASE d = c
    BY <1>1, <2>1, <2>2, Zenon DEF Remaining
  <2>3. CASE d # c
    BY <2>1, <2>3, Zenon
  <2> QED
    BY <2>2, <2>3, Zenon
<1>2. CASE todo'[d] = todo[d]
  BY <1>2
<1>3. ASSUME NEW c \in Tx, SetIndex(c)
      PROVE  todo[c] # <<>> /\ Return(c, "ok") /\ Present(Bid(c))
  BY <1>3, Zenon DEF SetIndex, At, Pebble, BidFirst, Indexing
<1>4. ASSUME NEW c \in Tx,
             \/ GetBid(c) \/ GetBidFails(c) \/ SetBid(c) \/ SetBidFails(c) \/ GetIndex(c)
             \/ GetIndexFails(c) \/ SetIndexFails(c)
      PROVE  todo' = todo \/ \E out \in {"present", "error"} : todo[c] # <<>> /\ Return(c, out)
  BY <1>4, ZenonT(40)
     DEF GetBid, GetBidFails, SetBid, SetBidFails, GetIndex, GetIndexFails, SetIndexFails,
         GoTo, Starts, At
<1>5. ASSUME NEW c \in Tx, NEW k \in Key, NEW v \in Value, StoreValue(c, k, v)
      PROVE  \/ todo'[d] = todo[d]
             \/ todo[d] # <<>> /\ todo'[d] = Tail(todo[d]) /\ todo[d][1].op # "init"
  BY <1>5, ZenonT(40) DEF StoreValue, Starts
<1>6. ASSUME NEW c \in Tx, StoreFails(c)
      PROVE  \/ todo'[d] = todo[d] \/ todo'[d] = <<>>
             \/ todo[d] # <<>> /\ todo'[d] = Tail(todo[d]) /\ todo[d][1].op # "init"
  BY <1>6, ZenonT(40) DEF StoreFails, Starts
<1>7. CASE Crash
  BY <1>7 DEF Crash
<1>8. ~ Expire
  BY Zenon DEF Expire
<1>9. ASSUME NEW c \in Tx,
             \/ GetBid(c) \/ GetBidFails(c) \/ SetBid(c) \/ SetBidFails(c) \/ GetIndex(c)
             \/ GetIndexFails(c) \/ SetIndexFails(c) \/ SetIndex(c)
      PROVE  todo' = todo \/ \E out : /\ Return(c, out) /\ todo[c] # <<>>
                                      /\ out # "ok" \/ Present(Bid(c))
  BY <1>3, <1>4, <1>9, ZenonT(40)
<1> HIDE DEF IInv, Typed
<1>10. CASE todo' = todo
  BY <1>10
<1> QED
  BY <1>1, <1>5, <1>6, <1>7, <1>8, <1>9, <1>10, ZenonT(40) DEF KVNext

\* What is left of a program remains in order.
LEMMA OrderedInv ==
    ASSUME IInv, KVNext, ~redis, Ordered
    PROVE  Ordered'
<1>0. \A b \in BidId : Present(b) => bids'[b] # None
  BY BidsStay, Zenon DEF Present
<1>t. \A c \in Tx : todo[c] \in Seq(Op)
  BY Zenon DEF IInv, Typed
<1>1. ASSUME NEW c \in Tx \ Receivers PROVE BidsFirst(todo[c])'
  <2>1. todo[c] \in Seq(Op) /\ BidsFirst(todo[c])
    BY <1>t, Zenon DEF Ordered
  <2>2. \A i \in DOMAIN todo[c] : Present(todo[c][i].bid) => bids'[todo[c][i].bid] # None
    <3>1. \A i \in DOMAIN todo[c] : todo[c][i] \in Op
      BY <2>1
    <3>2. \A o \in Op : o.bid \in BidId
      BY DEF Op
    <3> QED
      BY <1>0, <3>1, <3>2
  <2>3. CASE todo'[c] = todo[c]
    <3>1. \A i \in DOMAIN todo[c] : todo[c][i].op = "store" =>
            \/ bids'[todo[c][i].bid] # None
            \/ \E j \in 1 .. (i - 1) : todo[c][j].op = "init" /\ todo[c][j].bid = todo[c][i].bid
      BY <2>1, <2>2, Zenon DEF BidsFirst
    <3> QED
      BY <2>3, <3>1, Zenon DEF BidsFirst, Present
  <2>4. CASE todo'[c] = <<>>
    <3>1. DOMAIN <<>> = {}
      OBVIOUS
    <3>2. DOMAIN todo'[c] = {}
      BY <2>4, <3>1, Zenon
    <3> QED
      BY <3>2, Zenon DEF BidsFirst
  <2>5. CASE /\ todo[c] # <<>> /\ todo'[c] = Tail(todo[c])
             /\ todo[c][1].op # "init" \/ Present(Bid(c))
    <3> SUFFICES ASSUME NEW i \in DOMAIN Tail(todo[c]), Tail(todo[c])[i].op = "store"
                 PROVE  \/ bids'[Tail(todo[c])[i].bid] # None
                        \/ \E j \in 1 .. (i - 1) : /\ Tail(todo[c])[j].op = "init"
                                                   /\ Tail(todo[c])[j].bid = Tail(todo[c])[i].bid
      BY <2>5, ZenonT(40) DEF BidsFirst, Present
    <3>1. /\ i \in Nat \ {0} /\ i + 1 \in DOMAIN todo[c] /\ Tail(todo[c])[i] = todo[c][i + 1]
          /\ \A j \in 1 .. (i - 1) : Tail(todo[c])[j] = todo[c][j + 1]
          /\ 1 \in DOMAIN todo[c]
      BY <2>1, <2>5, HasFirst, TailAt, Zenon
    <3>2. ASSUME NEW j \in 1 .. i, todo[c][j].op = "init", todo[c][j].bid = todo[c][i + 1].bid
          PROVE  \/ bids'[todo[c][i + 1].bid] # None
                 \/ \E n \in 1 .. (i - 1) : /\ todo[c][n + 1].op = "init"
                                            /\ todo[c][n + 1].bid = todo[c][i + 1].bid
      <4>1. CASE j = 1
        BY <2>2, <2>5, <3>1, <3>2, <4>1, Zenon DEF Bid
      <4>2. CASE j # 1
        <5>1. j - 1 \in 1 .. (i - 1) /\ (j - 1) + 1 = j
          BY <3>1, <4>2, PlaceBefore, Zenon
        <5> QED
          BY <3>2, <5>1, Zenon
      <4> QED
        BY <4>1, <4>2
    <3>3. \/ Present(todo[c][i + 1].bid)
          \/ \E j \in 1 .. i : todo[c][j].op = "init" /\ todo[c][j].bid = todo[c][i + 1].bid
      BY <2>1, <3>1 DEF BidsFirst
    <3> QED
      BY <2>2, <3>1, <3>2, <3>3
  <2> QED
    BY <2>3, <2>4, <2>5, TodoStep, Zenon
<1>2. ASSUME NEW c \in Receivers PROVE Range(todo[c])' \subseteq Range(Program[c])
  <2>1. c \in Tx /\ todo[c] \in Seq(Op)
    BY <1>t, KVConstants, Zenon
  <2>2. Range(Tail(todo[c])) \subseteq Range(todo[c]) \/ todo[c] = <<>>
    BY <2>1 DEF Range
  <2>3. Range(SubSeq(todo[c], 3, Len(todo[c]))) \subseteq Range(todo[c])
    BY <2>1 DEF Range
  <2>4. Range(<<>>) = {}
    BY DEF Range
  <2>5. Range(todo'[c]) \subseteq Range(todo[c])
    BY <2>1, <2>2, <2>3, <2>4, TodoStep, Zenon
  <2> QED
    BY <2>5, Zenon DEF Ordered
<1> QED
  BY <1>1, <1>2, ZenonT(40) DEF Ordered

\* Data is stored for a bid that is there, or by NewMessage.
LEMMA WrittenInv ==
    ASSUME IInv, KVNext, ~redis, Ordered, WrittenHasBid
    PROVE  WrittenHasBid'
<1> SUFFICES ASSUME NEW b \in BidId, NEW k \in Key, dataMap'[b][k] # None,
                    \A c \in Receivers : \A o \in Range(Program[c]) : o.bid # b
             PROVE  Present(b)'
  BY Zenon DEF WrittenHasBid
<1>1. CASE dataMap[b][k] # None
  BY <1>1, BidsStay DEF WrittenHasBid
<1>2. CASE dataMap[b][k] = None
  <2>1. PICK c \in Tx, l \in Key, v \in Value : StoreValue(c, l, v) /\ Bid(c) = b
    <3>1. PICK c \in Tx, l \in Key, v \in Value : StoreValue(c, l, v)
      BY <1>2, Zenon DEF KVNext, GetBid, SetBid, GetIndex, SetIndex, GetBidFails, SetBidFails,
                  GetIndexFails, SetIndexFails, StoreFails, Expire, Crash, storeVars
    <3>2. dataMap' = [dataMap EXCEPT ![Bid(c)] = [@ EXCEPT ![l] = v]]
      BY <3>1, Zenon DEF StoreValue, StoreInStore
    <3>3. Bid(c) = b
      BY <1>2, <3>2 DEF IInv, Typed, StoreTypeOK
    <3> QED
      BY <3>1, <3>3, Zenon
  <2>2. todo[c] \in Seq(Op) /\ todo[c] # <<>> /\ todo[c][1].op = "store" /\ 1 \in DOMAIN todo[c]
    <3>1. todo[c] \in Seq(Op)
      BY Zenon DEF IInv, Typed
    <3>2. todo[c] # <<>> /\ todo[c][1].op = "store"
      BY <2>1, Zenon DEF StoreValue, Starts
    <3> QED
      BY <3>1, <3>2, HasFirst, Zenon
  <2>3. CASE c \in Receivers
    <3>1. todo[c][1] \in Range(Program[c])
      BY <2>2, <2>3, Zenon DEF Ordered, Range
    <3> QED
      BY <2>1, <2>3, <3>1 DEF Bid
  <2>4. CASE c \notin Receivers
    <3>1. Present(b)
      BY <2>1, <2>2, <2>4 DEF Ordered, BidsFirst, Bid
    <3> QED
      BY <3>1, BidsStay, Zenon
  <2> QED
    BY <2>3, <2>4
<1> QED
  BY <1>1, <1>2

\* When requests create the bids they write to, Pebble holds no data of a request
\* without its bid: Finalize gives up before its first Store when InitializeBid
\* fails, and bids do not go away.
THEOREM PebbleHasBids ==
    ASSUME InitializesFirst
    PROVE  KVSpec => []WrittenHasBid
<1>1. KVInit => WInv
  <2> SUFFICES ASSUME KVInit PROVE Ordered /\ WrittenHasBid
    BY Zenon DEF WInv
  <2>1. \A c \in Tx \ Receivers : BidsFirst(todo[c])
    BY DEF KVInit, InitializesFirst, BidsFirst
  <2>2. \A c \in Receivers : todo[c] = Program[c]
    BY DEF KVInit
  <2>3. WrittenHasBid
    BY DEF KVInit, StoreInit, WrittenHasBid
  <2> QED
    BY <2>1, <2>2, <2>3 DEF Ordered
<1>2. IInv /\ WInv /\ [KVNext]_kvVars => WInv'
  <2> SUFFICES ASSUME IInv, WInv, [KVNext]_kvVars, ~redis' PROVE Ordered' /\ WrittenHasBid'
    BY Zenon DEF WInv
  <2>1. CASE UNCHANGED kvVars
    BY <2>1 DEF kvVars, storeVars, clientVars, WInv, Ordered, BidsFirst, WrittenHasBid, Present
  <2>2. CASE KVNext
    <3>1. ~redis
      BY <2>2, Zenon DEF KVNext
    <3> QED
      BY <2>2, <3>1, OrderedInv, WrittenInv DEF WInv
  <2> QED
    BY <2>1, <2>2
<1>3. WInv => WrittenHasBid
  BY DEF WInv, WrittenHasBid
<1> QED
  BY <1>1, <1>2, <1>3, Invariance, PTL DEF KVSpec
=============================================================================
