----------------------------- MODULE LocalStore -----------------------------
(***************************************************************************)
(* LocalConfidentialStore (suave/cstore/local_store_backend.go): the       *)
(* in-memory storage backend of a confidential store engine.  Every method *)
(* holds one mutex from its first to its last statement, so each method is *)
(* one atomic step.                                                        *)
(*                                                                         *)
(* A bid id is a SHA-1 UUID over the salted contents of the bid            *)
(* (calculateBidId), so an id determines the version, decryption condition *)
(* and peekers of its bid; IndexKey is the "protocol-<version>-bn-<block>" *)
(* string those contents give.  What the id does not determine is the      *)
(* transaction that created the bid: the map bids keeps it.                *)
(***************************************************************************)
EXTENDS Sequences, Functions

CONSTANTS
    BidId,      \* ids of the bids that may be created
    Key,        \* keys of a bid's data
    Value,      \* byte strings stored under a key
    Tx,         \* confidential compute requests, the creators of bids
    IndexKeys,  \* formatted (version, block) pairs
    IndexKey,   \* [BidId -> IndexKeys], the pair of each bid
    None        \* a map entry that is not there

VARIABLES
    bids,       \* [BidId -> Tx or None]: creator of the bid stored under an id
    dataMap,    \* [BidId -> [Key -> Value or None]]
    index       \* [IndexKeys -> Seq(BidId)], in order of initialization

storeVars == <<bids, dataMap, index>>

ASSUME StoreConstants ==
    /\ IndexKey \in [BidId -> IndexKeys]
    /\ None \notin Tx
    /\ None \notin Value

StoreTypeOK ==
    /\ bids \in [BidId -> Tx \union {None}]
    /\ dataMap \in [BidId -> [Key -> Value \union {None}]]
    /\ index \in [IndexKeys -> Seq(BidId)]

StoreInit ==
    /\ bids = [b \in BidId |-> None]
    /\ dataMap = [b \in BidId |-> [k \in Key |-> None]]
    /\ index = [i \in IndexKeys |-> <<>>]

Present(b) == bids[b] # None

\* Mutant: InitializeBid without its test whether the id is taken.
OverwriteBidInStore(b, creator) ==
    /\ bids' = [bids EXCEPT ![b] = creator]
    /\ index' = [index EXCEPT ![IndexKey[b]] = Append(@, b)]
    /\ UNCHANGED dataMap

\* InitializeBid when the id is free.  When it is taken the method returns
\* ErrBidAlreadyPresent and changes nothing: callers test Present themselves.
InitializeBidInStore(b, creator) ==
    /\ ~Present(b)
    /\ bids' = [bids EXCEPT ![b] = creator]
    /\ index' = [index EXCEPT ![IndexKey[b]] = Append(@, b)]
    /\ UNCHANGED dataMap

\* Store: overwrites, and asks nothing of the bid.
StoreInStore(b, k, v) ==
    /\ dataMap' = [dataMap EXCEPT ![b][k] = v]
    /\ UNCHANGED <<bids, index>>

\* FetchBidsByProtocolAndBlock, as the set of ids it returns.  Whether one id
\* is returned twice is a question about the index (IndexIsExact).
FetchFromStore(i) == {b \in Range(index[i]) : Present(b)}

\* What the backend promises its callers: bids are created once and listed,
\* data is stored, each in one step.
StoreNext ==
    \/ \E b \in BidId, t \in Tx : InitializeBidInStore(b, t)
    \/ \E b \in BidId, k \in Key, v \in Value : StoreInStore(b, k, v)

StoreSpec == StoreInit /\ [][StoreNext]_storeVars
-----------------------------------------------------------------------------
\* The index, which InitializeBid updates separately from the bid map, lists
\* every stored bid under its own (version, block) pair exactly once, and
\* nothing else: what FetchBidsByProtocolAndBlock returns is all the bids of
\* that pair, without repetition (README.md: "fetches all bids").
IndexIsExact ==
    \A i \in IndexKeys :
        /\ \A p, q \in DOMAIN index[i] : index[i][p] = index[i][q] => p = q
        /\ \A b \in BidId :
            Present(b) /\ IndexKey[b] = i
                <=> \E p \in DOMAIN index[i] : index[i][p] = b

\* The backend stores a value without asking whether it has the bid
\* (StoreInStore), yet no value is ever stored under an unknown bid:
\* TransactionalStore.Store looks the bid up, and Finalize initializes all bids
\* before the first write and stops if one fails.
DataHasBid ==
    \A b \in BidId, k \in Key : dataMap[b][k] # None => Present(b)
=============================================================================
