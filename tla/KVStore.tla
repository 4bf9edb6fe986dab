------------------------------ MODULE KVStore -------------------------------
(***************************************************************************)
(* The backends that keep bids in a key-value database:                    *)
(* RedisStoreBackend and PebbleStoreBackend.  Unlike the in-memory backend *)
(* they hold no lock: InitializeBid is four database calls (GET and SET of *)
(* the bid, GET and SET of the index list), and the calls of concurrent    *)
(* InitializeBids interleave.  Any call may fail, Redis entries expire     *)
(* 24 hours after they were last SET, and the node may crash between two   *)
(* calls while the database keeps what it has.                             *)
(*                                                                         *)
(* The clients are the goroutines of one node that use the backend: a      *)
(* Finalize per request, which initializes its bids and then stores its    *)
(* writes and gives up at the first error, and the ProcessMessages loop,   *)
(* which does both per received write and goes on after an error.          *)
(***************************************************************************)
EXTENDS LocalStore, Naturals

CONSTANTS
    Receivers,  \* the clients (elements of Tx) that run NewMessage
    Program,    \* [Tx -> Seq(Op)], the backend calls each client means to make
    Backends,   \* the backends a node may be configured with, see redis
    Errors,     \* whether database calls may fail
    Crashes     \* whether the node may crash

VARIABLES
    redis,      \* TRUE for the Redis backend, FALSE for Pebble; never changes
    todo,       \* [Tx -> Seq(Op)], the calls not made yet, current one first
    pc,         \* [Tx -> Steps], the database call InitializeBid makes next
    seen,       \* [Tx -> Seq(BidId)], the index list it read
    outcome,    \* [Tx -> [BidId -> Outcomes]], what InitializeBid returned
    age,        \* the entries of the database, least recently SET first
    torn        \* history: bids whose list entry may be lost, with the reason

clientVars == <<todo, pc, seen, outcome>>
kvVars == <<redis, storeVars, clientVars, age, torn>>

Op == [op : {"init", "store"}, bid : BidId]
Steps == {"idle", "setBid", "getIndex", "setIndex"}
Reasons == {"race", "fault"}
Outcomes == {"none", "ok", "present", "error"}
Entry == ({"bid"} \X BidId) \union ({"data"} \X BidId \X Key)
            \union ({"index"} \X IndexKeys)

ASSUME KVConstants ==
    /\ Receivers \subseteq Tx
    /\ Program \in [Tx -> Seq(Op)]
    /\ Backends \subseteq BOOLEAN /\ {Errors, Crashes} \subseteq BOOLEAN

KVTypeOK ==
    /\ StoreTypeOK
    /\ redis \in BOOLEAN
    /\ todo \in [Tx -> Seq(Op)]
    /\ pc \in [Tx -> Steps]
    /\ seen \in [Tx -> Seq(BidId)]
    /\ outcome \in [Tx -> [BidId -> Outcomes]]
    /\ age \in Seq(Entry) /\ IsInjective(age)
    /\ torn \in SUBSET (Reasons \X BidId)
    /\ \A c \in Tx : pc[c] # "idle" => todo[c] # <<>> /\ todo[c][1].op = "init"

KVInit ==
    /\ StoreInit
    /\ redis \in Backends
    /\ todo = Program
    /\ pc = [c \in Tx |-> "idle"]
    /\ seen = [c \in Tx |-> <<>>]
    /\ outcome = [c \in Tx |-> [b \in BidId |-> "none"]]
    /\ age = <<>>
    /\ torn = {}
-----------------------------------------------------------------------------
Bid(c) == todo[c][1].bid
At(c, step) == pc[c] = step
GoTo(c, step) == pc' = [pc EXCEPT ![c] = step] /\ UNCHANGED <<todo, outcome>>
Starts(c, op) == pc[c] = "idle" /\ todo[c] # <<>> /\ todo[c][1].op = op

\* A sequence without one of its elements.
Without(s, e) ==
    LET p == CHOOSE p \in DOMAIN s : s[p] = e
    IN  IF e \in Range(s) THEN SubSeq(s, 1, p - 1) \o SubSeq(s, p + 1, Len(s)) ELSE s

\* Mutant: an entry keeps its old place among the expiries besides the new one.
SetKeepsOld(e) == age' = Append(age, e)

\* SET of an entry starts its 24 hours anew.
Set(e) == age' = Append(Without(age, e), e)

\* Mutant: Finalize, too, ignores ErrBidAlreadyPresent and other errors.
RemainingAlways(c, out) == Tail(todo[c])

\* What the caller goes on with.  Finalize gives up on any error.  NewMessage
\* ignores ErrBidAlreadyPresent, and on another error skips this write.
Remaining(c, out) ==
    IF out = "ok" \/ (c \in Receivers /\ out = "present") THEN Tail(todo[c])
    ELSE IF c \in Receivers THEN SubSeq(todo[c], 3, Len(todo[c]))
    ELSE <<>>

\* InitializeBid returns.
Return(c, out) ==
    /\ pc' = [pc EXCEPT ![c] = "idle"]
    /\ outcome' = [outcome EXCEPT ![c][Bid(c)] = out]
    /\ todo' = [todo EXCEPT ![c] = Remaining(c, out)]
-----------------------------------------------------------------------------
(***************************************************************************)
(* InitializeBid, one database call per step.                              *)
(***************************************************************************)

\* Is the bid there?  Every error except "not found" counts as yes.
GetBid(c) ==
    /\ Starts(c, "init")
    /\ \/ ~Present(Bid(c)) /\ GoTo(c, "setBid")
       \/ Present(Bid(c)) /\ Return(c, "present")
    /\ UNCHANGED <<storeVars, seen, age, torn>>

GetBidFails(c) ==
    /\ Errors
    /\ Starts(c, "init")
    /\ Return(c, "present")
    /\ UNCHANGED <<storeVars, seen, age, torn>>

SetBid(c) ==
    /\ At(c, "setBid")
    /\ bids' = [bids EXCEPT ![Bid(c)] = c]
    /\ Set(<<"bid", Bid(c)>>)
    /\ GoTo(c, "getIndex")
    /\ UNCHANGED <<dataMap, index, seen, torn>>

\* A call that timed out may have been carried out.
SetBidFails(c) ==
    /\ Errors
    /\ At(c, "setBid")
    /\ \/ UNCHANGED <<bids, age, torn>>
       \/ /\ bids' = [bids EXCEPT ![Bid(c)] = c]
          /\ Set(<<"bid", Bid(c)>>)
          /\ torn' = torn \union {<<"fault", Bid(c)>>}
    /\ Return(c, "error")
    /\ UNCHANGED <<dataMap, index, seen>>

GetIndex(c) ==
    /\ At(c, "getIndex")
    /\ seen' = [seen EXCEPT ![c] = index[IndexKey[Bid(c)]]]
    /\ GoTo(c, "setIndex")
    /\ UNCHANGED <<storeVars, age, torn>>

\* Pebble returns the error.  Redis goes on as if the list were empty.
GetIndexFails(c) ==
    /\ Errors
    /\ At(c, "getIndex")
    /\ IF redis
       THEN /\ seen' = [seen EXCEPT ![c] = <<>>]
            /\ GoTo(c, "setIndex")
            /\ torn' = torn \union ({"fault"} \X Range(index[IndexKey[Bid(c)]]))
       ELSE /\ Return(c, "error")
            /\ torn' = torn \union {<<"fault", Bid(c)>>}
            /\ UNCHANGED seen
    /\ UNCHANGED <<storeVars, age>>

\* Another client that has read the list and not written it yet.
Overlaps(c) ==
    \E d \in Tx \ {c} : At(d, "setIndex") /\ IndexKey[Bid(d)] = IndexKey[Bid(c)]

\* Mutant: the id is put on the list twice.
SetIndexTwice(c) ==
    /\ At(c, "setIndex")
    /\ index' = [index EXCEPT ![IndexKey[Bid(c)]] = seen[c] \o <<Bid(c), Bid(c)>>]
    /\ Set(<<"index", IndexKey[Bid(c)]>>)
    /\ torn' = torn \union (IF Overlaps(c) THEN {<<"race", Bid(c)>>} ELSE {})
    /\ Return(c, "ok")
    /\ UNCHANGED <<bids, dataMap, seen>>

\* Mutant: SET of the list keeps the expiry the list had.
SetIndexKeepTTL(c) ==
    /\ At(c, "setIndex")
    /\ index' = [index EXCEPT ![IndexKey[Bid(c)]] = Append(seen[c], Bid(c))]
    /\ IF <<"index", IndexKey[Bid(c)]>> \in Range(age) THEN UNCHANGED age
       ELSE Set(<<"index", IndexKey[Bid(c)]>>)
    /\ torn' = torn \union (IF Overlaps(c) THEN {<<"race", Bid(c)>>} ELSE {})
    /\ Return(c, "ok")
    /\ UNCHANGED <<bids, dataMap, seen>>

SetIndex(c) ==
    /\ At(c, "setIndex")
    /\ index' = [index EXCEPT ![IndexKey[Bid(c)]] = Append(seen[c], Bid(c))]
    /\ Set(<<"index", IndexKey[Bid(c)]>>)
    /\ torn' = torn \union (IF Overlaps(c) THEN {<<"race", Bid(c)>>} ELSE {})
    /\ Return(c, "ok")
    /\ UNCHANGED <<bids, dataMap, seen>>

\* Mutant: Pebble, too, does not look at the error of this call.
SetIndexFailsSilently(c) ==
    /\ Errors
    /\ At(c, "setIndex")
    /\ Return(c, "ok")
    /\ torn' = torn \union {<<"fault", Bid(c)>>}
    /\ UNCHANGED <<storeVars, seen, age>>

\* Redis does not look at the error of this call.
SetIndexFails(c) ==
    /\ Errors
    /\ At(c, "setIndex")
    /\ Return(c, IF redis THEN "ok" ELSE "error")
    /\ torn' = torn \union {<<"fault", Bid(c)>>}
    /\ UNCHANGED <<storeVars, seen, age>>
-----------------------------------------------------------------------------
(***************************************************************************)
(* Store, expiry and crash.                                                *)
(***************************************************************************)

StoreValue(c, k, v) ==
    /\ Starts(c, "store")
    /\ StoreInStore(Bid(c), k, v)
    /\ Set(<<"data", Bid(c), k>>)
    /\ todo' = [todo EXCEPT ![c] = Tail(@)]
    /\ UNCHANGED <<pc, seen, outcome, torn>>

StoreFails(c) ==
    /\ Errors
    /\ Starts(c, "store")
    /\ todo' = [todo EXCEPT ![c] = IF c \in Receivers THEN Tail(@) ELSE <<>>]
    /\ UNCHANGED <<storeVars, pc, seen, outcome, age, torn>>

\* Every SET asks for the same ffStoreTTL, so entries expire in the order of
\* their last SET.
Expire ==
    /\ redis
    /\ age # <<>>
    /\ age' = Tail(age)
    /\ LET e == Head(age)
       IN  \/ /\ e[1] = "bid"
              /\ bids' = [bids EXCEPT ![e[2]] = None]
              /\ UNCHANGED <<dataMap, index>>
           \/ /\ e[1] = "data"
              /\ dataMap' = [dataMap EXCEPT ![e[2]][e[3]] = None]
              /\ UNCHANGED <<bids, index>>
           \/ /\ e[1] = "index"
              /\ index' = [index EXCEPT ![e[2]] = <<>>]
              /\ UNCHANGED <<bids, dataMap>>
    /\ UNCHANGED <<clientVars, torn>>

Indexing(c) == pc[c] \in {"getIndex", "setIndex"}

\* The requests under way are gone.  A client that had not begun is a request
\* or message that comes after the restart.
Crash ==
    /\ Crashes
    /\ LET begun == {c \in Tx : todo[c] # Program[c] \/ pc[c] # "idle"}
       IN  /\ \E c \in begun : todo[c] # <<>>
           /\ todo' = [c \in Tx |-> IF c \in begun THEN <<>> ELSE todo[c]]
    /\ torn' = torn \union {<<"fault", Bid(c)>> : c \in {d \in Tx : Indexing(d)}}
    /\ pc' = [c \in Tx |-> "idle"]
    /\ UNCHANGED <<storeVars, seen, outcome, age>>

KVNext ==
    /\ \/ \E c \in Tx :
            \/ GetBid(c) \/ SetBid(c) \/ GetIndex(c) \/ SetIndex(c)
            \/ GetBidFails(c) \/ SetBidFails(c) \/ GetIndexFails(c) \/ SetIndexFails(c)
            \/ \E k \in Key, v \in Value : StoreValue(c, k, v)
            \/ StoreFails(c)
       \/ Expire
       \/ Crash
    /\ UNCHANGED redis

KVSpec == KVInit /\ [][KVNext]_kvVars
-----------------------------------------------------------------------------
(***************************************************************************)
(* Properties.                                                             *)
(***************************************************************************)

Listed(b) == b \in FetchFromStore(IndexKey[b])

\* The ways to lose a bid are exactly these: the update of its index list
\* overlapped another client's, a call of it failed or the node crashed in the
\* middle.  Any other stored bid is listed for as long as it is stored: the
\* list is SET after the bid, so it expires after the bid.
NotLost ==
    \A b \in BidId :
        /\ Present(b)
        /\ \A r \in Reasons : <<r, b>> \notin torn
        /\ ~(\E c \in Tx : Indexing(c) /\ Bid(c) = b)
        => Listed(b)

\* When InitializeBid reports success, FetchBidsByProtocolAndBlock returns the
\* bid from then on, for as long as it is stored (README.md: "fetches all bids
\* from a particular block that match a specified protocol").
InitializedIsListed ==
    \A c \in Tx, b \in BidId : outcome[c][b] = "ok" /\ Present(b) => Listed(b)

\* Apart from overlapping updates, Pebble's InitializeBid reports success only
\* when the bid is listed and stays so, whatever call fails and whenever the
\* node crashes.  (Redis ignores the errors of its index calls.)
ReportedIsListed ==
    \A c \in Tx, b \in BidId :
        ~redis /\ outcome[c][b] = "ok" /\ <<"race", b>> \notin torn => Listed(b)

\* Pebble never holds data of a request under a bid it does not have: Finalize
\* gives up before the first Store when an InitializeBid fails, and a crash
\* leaves what was SET first.  (Redis expires the bid before its data, and
\* NewMessage takes a failed lookup for a bid that is present.)
WrittenHasBid ==
    \A b \in BidId, k \in Key :
        /\ ~redis
        /\ dataMap[b][k] # None
        /\ \A c \in Receivers : \A o \in Range(Program[c]) : o.bid # b
        => Present(b)
=============================================================================
