----------------------------- MODULE KVRefinement ---------------------------
(***************************************************************************)
(* Where the unlocked updates of index lists do not overlap, the Pebble    *)
(* backend (KVStore) implements the in-memory one (LocalStore).            *)
(***************************************************************************)
EXTENDS KVStore

\* No two InitializeBids are under way on one list, and none is about to SET a
\* bid that another one SET after it looked.
Exclusive ==
    /\ \A c, d \in Tx : c # d /\ pc[c] # "idle" /\ pc[d] # "idle"
            => IndexKey[Bid(c)] # IndexKey[Bid(d)]
    /\ \A c \in Tx : At(c, "setBid") => ~Present(Bid(c))

\* A bid enters the abstract index when its own entry is SET.
Abstract == INSTANCE LocalStore WITH
    index <- [i \in IndexKeys |->
        IF \E c \in Tx : Indexing(c) /\ IndexKey[Bid(c)] = i
        THEN Append(index[i],
                    Bid(CHOOSE c \in Tx : Indexing(c) /\ IndexKey[Bid(c)] = i))
        ELSE index[i]]

\* Whenever InitializeBids do not overlap on a list, Pebble does in four calls
\* what the in-memory backend does in one step, also when calls fail, until an
\* overlap, a failure or a crash has fallen between the SET of a bid and the SET
\* of its list (torn).
RefinesLocalStore ==
    /\ Abstract!StoreInit
    /\ [][~redis /\ torn' = {} /\ Exclusive /\ Exclusive'
            => Abstract!StoreNext]_(Abstract!storeVars)
=============================================================================
