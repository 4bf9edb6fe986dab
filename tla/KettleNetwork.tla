--------------------------- MODULE KettleNetwork ----------------------------
(***************************************************************************)
(* Several execution nodes (kettles) that keep their confidential stores   *)
(* in step through a Redis publish-subscribe topic                         *)
(* (suave/cstore/engine.go and redis_transport.go).                        *)
(*                                                                         *)
(* A node that finalizes a signed request starts a goroutine that          *)
(* publishes the request's writes, so messages of one node may leave in    *)
(* any order.  Redis hands each message to the connections that are        *)
(* subscribed at that moment.  A node moves messages from its connection   *)
(* to a bounded channel, dropping those that do not fit, and one loop      *)
(* takes them from the channel, checks them and applies their writes.      *)
(*                                                                         *)
(* The confidential data of a bid is one value here, and Finalize is one   *)
(* step: module TransactionalStore is about the steps inside it.           *)
(***************************************************************************)
EXTENDS Sequences, Functions, Naturals, FiniteSets

CONSTANTS
    Kettle,         \* execution nodes
    Account,        \* addresses the nodes sign with
    Holder,         \* [Account -> Kettle], the node that holds the key
    Tx,             \* confidential compute requests
    Signed,         \* the requests signed by a user; the others are eth_calls
    ExecutionNode,  \* [Tx -> Account], the node the request names
    BidId,
    Creates,        \* [Tx -> SUBSET BidId], the bids the request creates
    Writes,         \* [Tx -> Seq(BidId)], the bids it writes, in order
    UserStores,     \* [BidId -> SUBSET Account], AllowedStores as passed in
    Imported,       \* accounts that are in the key stores from the beginning
    Subscribed,     \* nodes whose subscription is there from the beginning
    ChanSize,       \* capacity of the channel of Subscribe
    Faults,         \* whether connections break and nodes restart
    Persistent,     \* nodes whose storage backend survives a restart
    MaxRestarts,    \* bound: restarts of one node
    None

VARIABLES
    accounts,       \* accounts now in the key stores
    localAddresses, \* [Kettle -> SUBSET Account], read when the engine started
    storeUUID,      \* [Kettle -> Nat], with the node, the engine's UUID
    subscribed,     \* [Kettle -> BOOLEAN]
    stores,         \* [BidId -> SUBSET Account], AllowedStores, fixed at creation
    executed,       \* sequence of finalized requests
    failed,         \* requests whose execution failed
    known,          \* [Kettle -> SUBSET BidId], bids in the node's store
    data,           \* [Kettle -> [BidId -> Tx or None]]: whose write is stored
    outbox,         \* messages whose publishing goroutine has not run
    wire,           \* [Kettle -> Seq(Message)], on the node's connection
    chan            \* [Kettle -> Seq(Message)], in the node's channel

nodeVars == <<accounts, localAddresses, storeUUID, subscribed>>
bidVars == <<stores, executed, failed>>
dataVars == <<known, data>>
netVars == <<outbox, wire, chan>>
vars == <<nodeVars, bidVars, dataVars, netVars>>

\* A DAMessage: the request determines the writes and the signer.
Message == [sourceTx : Tx, uuid : 0..MaxRestarts]

ASSUME KettleConstants ==
    /\ Holder \in [Account -> Kettle]
    /\ Signed \subseteq Tx
    /\ ExecutionNode \in [Tx -> Account]
    /\ Creates \in [Tx -> SUBSET BidId]
    \* Ids are hashes of salted contents: no two requests create the same one.
    /\ \A t, u \in Tx : t # u => Creates[t] \intersect Creates[u] = {}
    /\ Writes \in [Tx -> Seq(BidId)]
    /\ UserStores \in [BidId -> SUBSET Account]
    /\ Imported \subseteq Account
    /\ Subscribed \subseteq Kettle
    /\ ChanSize \in Nat \ {0} /\ MaxRestarts \in Nat
    /\ Faults \in BOOLEAN
    /\ Persistent \subseteq Kettle
    /\ None \notin Tx

TypeOK ==
    /\ accounts \in SUBSET Account
    /\ localAddresses \in [Kettle -> SUBSET Account]
    /\ storeUUID \in [Kettle -> 0..MaxRestarts]
    /\ subscribed \in [Kettle -> BOOLEAN]
    /\ stores \in [BidId -> SUBSET Account]
    /\ executed \in Seq(Tx)
    /\ failed \in SUBSET Tx
    /\ known \in [Kettle -> SUBSET BidId]
    /\ data \in [Kettle -> [BidId -> Tx \union {None}]]
    /\ outbox \in SUBSET Message
    /\ wire \in [Kettle -> Seq(Message)]
    /\ chan \in [Kettle -> Seq(Message)]
    /\ \A n \in Kettle : Len(chan[n]) <= ChanSize

Init ==
    /\ accounts = Imported
    /\ localAddresses = [n \in Kettle |-> {a \in Imported : Holder[a] = n}]
    /\ storeUUID = [n \in Kettle |-> 0]
    /\ subscribed = [n \in Kettle |-> n \in Subscribed]
    /\ stores = [b \in BidId |-> {}]
    /\ executed = <<>>
    /\ failed = {}
    /\ known = [n \in Kettle |-> {}]
    /\ data = [n \in Kettle |-> [b \in BidId |-> None]]
    /\ outbox = {}
    /\ wire = [n \in Kettle |-> <<>>]
    /\ chan = [n \in Kettle |-> <<>>]
-----------------------------------------------------------------------------
Home(t) == Holder[ExecutionNode[t]]
Executed(t) == t \in Range(executed)
LocalAddresses(n) == {a \in accounts : Holder[a] = n}
Written(t) == Range(Writes[t])
Creator(b) == CHOOSE t \in Tx : b \in Creates[t]

\* The writes of a request applied to one store.
Apply(d, t) == [b \in BidId |-> IF b \in Written(t) THEN t ELSE d[b]]
-----------------------------------------------------------------------------
(***************************************************************************)
(* Executing requests.                                                     *)
(***************************************************************************)

\* The node must hold the account that the request names.
Ready(t) == ~Executed(t) /\ t \notin failed /\ ExecutionNode[t] \in accounts

\* Every bid the request writes must be its own or in the node's store.
CanWrite(t) == Written(t) \subseteq Creates[t] \union known[Home(t)]

\* InitializeBid for each bid it creates, which lets every account of the node
\* use the bid, then Finalize: local store, then a message if it is signed.
Finalize(t) ==
    /\ Ready(t) /\ CanWrite(t)
    /\ LET n == Home(t)
       IN  /\ stores' = [b \in BidId |-> IF b \in Creates[t]
                            THEN UserStores[b] \union LocalAddresses(n) ELSE stores[b]]
           /\ known' = [known EXCEPT ![n] = @ \union Creates[t]]
           /\ data' = [data EXCEPT ![n] = Apply(@, t)]
           /\ outbox' = IF t \in Signed
                        THEN outbox \union {[sourceTx |-> t, uuid |-> storeUUID[n]]}
                        ELSE outbox
    /\ executed' = Append(executed, t)
    /\ UNCHANGED <<nodeVars, failed, wire, chan>>

\* Store does not find a bid, and the execution fails.
ExecutionFails(t) ==
    /\ Ready(t) /\ ~CanWrite(t)
    /\ failed' = failed \union {t}
    /\ UNCHANGED <<nodeVars, stores, executed, dataVars, netVars>>
-----------------------------------------------------------------------------
(***************************************************************************)
(* Transport.                                                              *)
(***************************************************************************)

Publish(m) ==
    /\ m \in outbox
    /\ outbox' = outbox \ {m}
    /\ wire' = [n \in Kettle |-> IF subscribed[n] THEN Append(wire[n], m) ELSE wire[n]]
    /\ UNCHANGED <<nodeVars, bidVars, dataVars, chan>>

\* Mutant: the receiver does not test whether the channel is full.
ReceiveUnbounded(n) ==
    /\ wire[n] # <<>>
    /\ wire' = [wire EXCEPT ![n] = Tail(@)]
    /\ chan' = [chan EXCEPT ![n] = Append(@, Head(wire[n]))]
    /\ UNCHANGED <<nodeVars, bidVars, dataVars, outbox>>

\* From the connection to the channel, or nowhere.
Receive(n) ==
    /\ wire[n] # <<>>
    /\ wire' = [wire EXCEPT ![n] = Tail(@)]
    /\ chan' = IF Len(chan[n]) < ChanSize
               THEN [chan EXCEPT ![n] = Append(@, Head(wire[n]))]
               ELSE chan
    /\ UNCHANGED <<nodeVars, bidVars, dataVars, outbox>>

\* The connection breaks; the Redis client subscribes again by itself.
Disconnect(n) ==
    /\ Faults
    /\ subscribed[n]
    /\ subscribed' = [subscribed EXCEPT ![n] = FALSE]
    /\ wire' = [wire EXCEPT ![n] = <<>>]
    /\ UNCHANGED <<accounts, localAddresses, storeUUID, bidVars, dataVars, outbox, chan>>

Subscribe(n) ==
    /\ ~subscribed[n]
    /\ subscribed' = [subscribed EXCEPT ![n] = TRUE]
    /\ UNCHANGED <<accounts, localAddresses, storeUUID, bidVars, dataVars, netVars>>
-----------------------------------------------------------------------------
(***************************************************************************)
(* NewMessage.                                                             *)
(***************************************************************************)

\* Mutant: no test of the UUID, which tells this engine's messages.
IsOwnNever(n, m) == FALSE

\* The engine's UUID and an account that was local when it started.
IsOwn(n, m) ==
    /\ Home(m.sourceTx) = n /\ m.uuid = storeUUID[n]
    /\ ExecutionNode[m.sourceTx] \in localAddresses[n]

\* Mutant: the creation transaction of a bid is not checked.
ValidNoCreation(t) ==
    /\ t \in Signed
    /\ \A b \in Written(t) : ExecutionNode[t] \in stores[b]

\* The checks of message and writes.  What a node signs is signed correctly,
\* bid ids match, and callers passed the same peeker list at the sender; what
\* may be missing is a user's signature, on the request or on the one that
\* created the bid, and the sender's place in AllowedStores.
Valid(t) ==
    /\ t \in Signed
    /\ \A b \in Written(t) : ExecutionNode[t] \in stores[b] /\ Creator(b) \in Signed

\* Mutant: only the bids that are new to the node are stored.
NewMessageNoOverwrite(n) ==
    /\ chan[n] # <<>>
    /\ LET t == Head(chan[n]).sourceTx
       IN  IF ~IsOwn(n, Head(chan[n])) /\ Valid(t) /\ Written(t) \intersect known[n] = {}
           THEN /\ known' = [known EXCEPT ![n] = @ \union Written(t)]
                /\ data' = [data EXCEPT ![n] = Apply(@, t)]
           ELSE UNCHANGED dataVars
    /\ chan' = [chan EXCEPT ![n] = Tail(@)]
    /\ UNCHANGED <<nodeVars, bidVars, outbox, wire>>

NewMessage(n) ==
    /\ chan[n] # <<>>
    /\ LET t == Head(chan[n]).sourceTx
       IN  IF ~IsOwn(n, Head(chan[n])) /\ Valid(t)
           THEN /\ known' = [known EXCEPT ![n] = @ \union Written(t)]
                /\ data' = [data EXCEPT ![n] = Apply(@, t)]
           ELSE UNCHANGED dataVars
    /\ chan' = [chan EXCEPT ![n] = Tail(@)]
    /\ UNCHANGED <<nodeVars, bidVars, outbox, wire>>
-----------------------------------------------------------------------------
(***************************************************************************)
(* Accounts and restarts.                                                  *)
(***************************************************************************)

\* A key is imported into the key store of a running node.
ImportAccount(a) ==
    /\ a \notin accounts
    /\ accounts' = accounts \union {a}
    /\ UNCHANGED <<localAddresses, storeUUID, subscribed, bidVars, dataVars, netVars>>

\* Stop or crash and start: a new engine with a new UUID, which reads the
\* local addresses again, subscribes later, and has lost what was in memory.
Restart(n) ==
    /\ Faults
    /\ storeUUID[n] < MaxRestarts
    /\ storeUUID' = [storeUUID EXCEPT ![n] = @ + 1]
    /\ localAddresses' = [localAddresses EXCEPT ![n] = LocalAddresses(n)]
    /\ subscribed' = [subscribed EXCEPT ![n] = FALSE]
    /\ outbox' = {m \in outbox : Home(m.sourceTx) # n}
    /\ wire' = [wire EXCEPT ![n] = <<>>]
    /\ chan' = [chan EXCEPT ![n] = <<>>]
    /\ IF n \in Persistent
       THEN UNCHANGED dataVars
       ELSE /\ known' = [known EXCEPT ![n] = {}]
            /\ data' = [data EXCEPT ![n] = [b \in BidId |-> None]]
    /\ UNCHANGED <<accounts, bidVars>>

Next ==
    \/ \E t \in Tx : Finalize(t) \/ ExecutionFails(t)
    \/ \E m \in Message : Publish(m)
    \/ \E n \in Kettle : Receive(n) \/ NewMessage(n) \/ Subscribe(n)
    \/ \E n \in Kettle : Disconnect(n) \/ Restart(n)
    \/ \E a \in Account : ImportAccount(a)

Spec == Init /\ [][Next]_vars

\* Goroutines that can go on are scheduled: the publishing ones, the receiver
\* and the message loop of each node.  Nothing makes users send requests,
\* import keys or break connections.
Transport ==
    /\ \A m \in Message : WF_vars(Publish(m))
    /\ \A n \in Kettle : WF_vars(Receive(n)) /\ WF_vars(NewMessage(n))

-----------------------------------------------------------------------------
(***************************************************************************)
(* Properties.                                                             *)
(***************************************************************************)

\* Every value in a node's store is the write of a request that was executed,
\* by that node, or by a node that the bid's AllowedStores names, for a user
\* who signed the request, on a bid that a signed request created.  An eth_call
\* leaves its bids and writes in the store of its own node only, whatever later
\* requests do with them, and keys imported or nodes restarted do not change
\* that.
Provenance ==
    \A n \in Kettle, b \in BidId :
        /\ data[n][b] # None =>
            LET t == data[n][b]
            IN  /\ Executed(t) /\ b \in Written(t) /\ b \in known[n]
                /\ Home(t) = n \/ Valid(t)
        /\ b \in known[n] =>
            /\ Executed(Creator(b))
            /\ Home(Creator(b)) = n \/ Creator(b) \in Signed

\* The last executed request that wrote a bid.
IsLatest(t, b) ==
    \E p \in DOMAIN executed :
        /\ executed[p] = t /\ b \in Written(t)
        /\ \A q \in DOMAIN executed : b \in Written(executed[q]) => q <= p

\* A bid that only one node writes, with accounts it had when it started, has in
\* that node's own store the value of the latest request, as long as the node
\* runs: its messages come back to it through the topic, late and in any order,
\* and must not undo later writes (the UUID test of NewMessage).
HomeIsCurrent ==
    \A n \in Kettle, b \in BidId, t \in Tx :
        /\ IsLatest(t, b)
        /\ \A u \in Tx : Executed(u) /\ b \in Written(u)
                => ExecutionNode[u] \in localAddresses[n]
        /\ storeUUID[n] = 0
        => data[n][b] = t
=============================================================================
