--------------------------- MODULE MCKettleNetwork --------------------------
(***************************************************************************)
(* Two nodes; the first has a second account, which may be imported late.  *)
(* The history variable lost says which messages the transport or a        *)
(* restart took from which node, so that delivery can be stated in         *)
(* networks that lose messages.                                            *)
(***************************************************************************)
EXTENDS KettleNetwork, TLC

CONSTANTS n1, n2, a1, a2, a3, t1, t2, t3, t4, b1, b2

MCHolder == a1 :> n1 @@ a2 :> n2 @@ a3 :> n1

\* t1 creates a bid that both nodes may write, t2 writes it at the other node,
\* t3 is an eth_call that creates a bid and writes both, t4 writes both bids,
\* with the second account.
MCExecutionNode == t1 :> a1 @@ t2 :> a2 @@ t3 :> a1 @@ t4 :> a3
MCCreates == t1 :> {b1} @@ t2 :> {} @@ t3 :> {b2} @@ t4 :> {}
MCWrites == t1 :> <<b1>> @@ t2 :> <<b1>> @@ t3 :> <<b2, b1>> @@ t4 :> <<b2, b1>>
MCUserStores == b1 :> {a2} @@ b2 :> {a2}
-----------------------------------------------------------------------------
VARIABLE lost   \* [Kettle -> SUBSET Tx]

\* The requests whose message is on its way to n, or may still be sent to it.
Pending(n) == {m.sourceTx : m \in outbox \union Range(wire[n]) \union Range(chan[n])}

\* NewMessage takes the first message from n's channel.
Handled(n) ==
    IF chan[n] # <<>> /\ chan'[n] = Tail(chan[n]) /\ UNCHANGED storeUUID
    THEN {Head(chan[n]).sourceTx} ELSE {}

\* n restarts without its store.
Forgotten(n) ==
    IF storeUUID'[n] # storeUUID[n] /\ n \notin Persistent THEN Range(executed) ELSE {}

Loss(n) == ((Pending(n) \ Handled(n)) \union Forgotten(n)) \ Pending(n)'

LossInit == Init /\ lost = [n \in Kettle |-> {}]
LossNext == Next /\ lost' = [n \in Kettle |-> lost[n] \union Loss(n)]
LossSpec == LossInit /\ [][LossNext]_<<vars, lost>> /\ Transport

\* Every signed request that was executed is applied in full at every node at
\* some time, unless its message was dropped (no subscription, full channel,
\* broken connection, restart) or the node forgot its store.  In particular no
\* check of NewMessage refuses a message that the sender's own checks passed,
\* and the UUID test skips only what the node has executed itself.
Delivered ==
    \A t \in Tx, n \in Kettle :
        <>(Executed(t) /\ Valid(t)) =>
            <>(t \in lost[n] \/ \A b \in Written(t) : b \in known[n] /\ data[n][b] = t)
=============================================================================
