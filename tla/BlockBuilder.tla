---------------------------- MODULE BlockBuilder ----------------------------
(***************************************************************************)
(* Building an Ethereum block from transactions or bundles                 *)
(* (miner/worker.go, buildBlockFromTxs and buildBlockFromBundles), and how *)
(* the precompile buildEthBlock gathers the bundles from the confidential  *)
(* store (core/vm/contracts_suave_eth.go).                                 *)
(*                                                                         *)
(* The coinbase of a block from bundles is a throwaway account.  It        *)
(* collects what the transactions pay, refunds a share of a bundle's       *)
(* profit to the sender of the bundle's first transaction, and pays the    *)
(* rest to the proposer at the end.                                        *)
(*                                                                         *)
(* Gas is counted in units of 7000: a transfer uses 3 of them, and 4 are   *)
(* set aside for a payment.                                                *)
(***************************************************************************)
EXTENDS Integers, Sequences

CONSTANTS
    Tx,             \* Ethereum transactions
    Gas,            \* [Tx -> Nat], the gas a transaction uses
    Limit,          \* [Tx -> Nat], the gas it may use
    Tip,            \* [Tx -> Nat], what it pays the coinbase
    Invalid,        \* transactions that the chain's state refuses
    GasLimit,       \* header.GasLimit
    BaseFee,        \* header.BaseFee, for one unit of gas
    BidId,
    version,        \* [BidId -> STRING], of the stored bids; None if not stored
    mergedBids,     \* [BidId -> Seq(BidId)], "default:v0:mergedBids", or None
    matchedBids,    \* [BidId -> Seq(BidId)], "mevshare:v0:mergedBids", or None
    ethBundles,     \* [BidId -> Bundle], the bundle of a bid, or None
    None

TxGas == 3
PaymentGas == 4
FeeRecipient == "proposer"

\* RefundPercent is a pointer in the code.
NoRefund == -1

Bundle == [txs : Seq(Tx), percent : Nat \union {NoRefund}]

ASSUME BuilderConstants ==
    /\ Gas \in [Tx -> Nat] /\ Limit \in [Tx -> Nat] /\ Tip \in [Tx -> Nat]
    /\ \A t \in Tx : TxGas <= Gas[t] /\ Gas[t] <= Limit[t]
    /\ Invalid \subseteq Tx
    /\ GasLimit \in Nat /\ BaseFee \in Nat
    /\ None \notin Tx
    /\ \A b \in BidId :
        /\ mergedBids[b] # None => mergedBids[b] \in Seq(BidId)
        /\ matchedBids[b] # None => matchedBids[b] \in BidId \X BidId
        /\ ethBundles[b] # None => ethBundles[b] \in Bundle
-----------------------------------------------------------------------------
(***************************************************************************)
(* A block in the making: whether all went well so far, the gas left, the  *)
(* transactions, and the coinbase's balance.                               *)
(***************************************************************************)

\* An entry of a block: a bundle's transaction, or a payment of the coinbase to
\* the sender of a transaction or to the proposer.
User(t) == [tx |-> t, to |-> None, amount |-> 0]
Payment(to, amount) == [tx |-> None, to |-> to, amount |-> amount]
IsUser(e) == e.tx # None

prepareWork == [ok |-> TRUE, pool |-> GasLimit, txs |-> <<>>, coin |-> 0]

\* Mutant: the gas left is not looked at.
RefusedNoGas(env, e) ==
    IF IsUser(e)
    THEN \/ e.tx \in Invalid
         \/ \E i \in DOMAIN env.txs : env.txs[i].tx = e.tx
    ELSE \/ PaymentGas > env.pool
         \/ env.coin < PaymentGas * BaseFee + e.amount

\* ApplyTransaction returns an error: nonce used, no funds, not enough gas.
Refused(env, e) ==
    IF IsUser(e)
    THEN \/ e.tx \in Invalid
         \/ \E i \in DOMAIN env.txs : env.txs[i].tx = e.tx
         \/ Limit[e.tx] > env.pool
    ELSE \/ PaymentGas > env.pool
         \/ env.coin < PaymentGas * BaseFee + e.amount

Apply(env, e) ==
    [env EXCEPT !.txs = Append(@, e),
                !.pool = @ - (IF IsUser(e) THEN Gas[e.tx] ELSE TxGas),
                !.coin = @ + (IF IsUser(e) THEN Tip[e.tx]
                              ELSE -(e.amount + TxGas * BaseFee))]

\* Mutant: a transaction that is refused is left out, as in commitTransactions.
CommitOrSkip(env, e) ==
    IF ~env.ok \/ env.pool < TxGas \/ Refused(env, e) THEN env ELSE Apply(env, e)

\* One round of the loop of rawCommitTransactions.  With too little gas for any
\* transaction the loop ends without an error, and so does every later loop.
commitTransaction(env, e) ==
    IF ~env.ok \/ env.pool < TxGas THEN env
    ELSE IF Refused(env, e) THEN [env EXCEPT !.ok = FALSE]
    ELSE Apply(env, e)

rawCommitTransactions(env, txs) ==
    LET after[i \in 0 .. Len(txs)] ==
            IF i = 0 THEN env ELSE commitTransaction(after[i - 1], User(txs[i]))
    IN  after[Len(txs)]

buildBlockFromTxs(txs) ==
    LET env == rawCommitTransactions(prepareWork, txs)
    IN  [ok |-> env.ok, pool |-> env.pool, txs |-> env.txs, value |-> env.coin]

refundTransferCost == PaymentGas * BaseFee

WantsRefund(bundle) == Len(bundle.txs) > 1 /\ bundle.percent # NoRefund

\* RefundPercent divides the profit; 0 stands for 10.
RefundShare(bundle) == IF bundle.percent = 0 THEN 10 ELSE bundle.percent

commitBundle(env, bundle) ==
    LET after == rawCommitTransactions(env, bundle.txs)
        refundAmt == (after.coin - env.coin) \div RefundShare(bundle) - refundTransferCost
    IN  IF WantsRefund(bundle)
        THEN commitTransaction(after, Payment(bundle.txs[1], refundAmt))
        ELSE after

\* The loop of buildBlockFromBundles.
commitBundles(bundles) ==
    LET after[i \in 0 .. Len(bundles)] ==
            IF i = 0 THEN prepareWork ELSE commitBundle(after[i - 1], bundles[i])
    IN  after[Len(bundles)]

\* Mutant: the cost of the proposer's payment is not kept back.
BuildWithoutCost(bundles) ==
    LET work == commitBundles(bundles)
        env == commitTransaction(work, Payment(FeeRecipient, work.coin))
    IN  [ok |-> env.ok, pool |-> env.pool, txs |-> env.txs, value |-> work.coin]

\* Mutant: the profit is reported before the cost of the payment.
BuildOverstated(bundles) ==
    LET work == commitBundles(bundles)
        env == commitTransaction(work, Payment(FeeRecipient, work.coin - refundTransferCost))
    IN  [ok |-> env.ok, pool |-> env.pool, txs |-> env.txs, value |-> work.coin]

buildBlockFromBundles(bundles) ==
    LET work == commitBundles(bundles)
        proposerProfit == work.coin - refundTransferCost
        env == commitTransaction(work, Payment(FeeRecipient, proposerProfit))
    IN  [ok |-> env.ok, pool |-> env.pool, txs |-> env.txs, value |-> proposerProfit]
-----------------------------------------------------------------------------
(***************************************************************************)
(* buildEthBlock gathers the bundles of a bid.                             *)
(***************************************************************************)

\* The merged bids of a bid, or the bid itself.
bidIds(b) == IF mergedBids[b] # None THEN mergedBids[b] ELSE <<b>>

\* A match is the user's bundle with the other's transactions behind it.
Matched(pair) ==
    [ethBundles[pair[1]] EXCEPT !.txs = @ \o ethBundles[pair[2]].txs]

Readable(b) ==
    \/ /\ version[b] = "mevshare:v0:matchBids"
       /\ matchedBids[b] # None
       /\ \A i \in 1 .. 2 : ethBundles[matchedBids[b][i]] # None
    \/ /\ version[b] \in {"mevshare:v0:unmatchedBundles", "default:v0:ethBundles"}
       /\ ethBundles[b] # None

\* All bids must be there, of a known version and with their data.
CanMerge(b) == \A i \in DOMAIN bidIds(b) : Readable(bidIds(b)[i])

mergedBundles(b) ==
    [i \in DOMAIN bidIds(b) |->
        IF version[bidIds(b)[i]] = "mevshare:v0:matchBids"
        THEN Matched(matchedBids[bidIds(b)[i]])
        ELSE ethBundles[bidIds(b)[i]]]
-----------------------------------------------------------------------------
(***************************************************************************)
(* What a block from bundles has to be, said without building it.          *)
(***************************************************************************)

Sum(s) ==
    LET upTo[i \in 0 .. Len(s)] == IF i = 0 THEN 0 ELSE upTo[i - 1] + s[i]
    IN  upTo[Len(s)]

\* The transactions and the recipients of payments, in order.
BundleOrder(bundle) ==
    [i \in DOMAIN bundle.txs |-> <<bundle.txs[i], None>>] \o
        (IF WantsRefund(bundle) THEN << <<None, bundle.txs[1]>> >> ELSE <<>>)

BundlesOrder(bundles) ==
    LET upTo[i \in 0 .. Len(bundles)] ==
            IF i = 0 THEN <<>> ELSE upTo[i - 1] \o BundleOrder(bundles[i])
    IN  upTo[Len(bundles)]

BlockOrder(bundles) == BundlesOrder(bundles) \o << <<None, FeeRecipient>> >>

Order(block) == [i \in DOMAIN block.txs |-> <<block.txs[i].tx, block.txs[i].to>>]

\* Gas that is enough for all of it.
GasFor(order) ==
    Sum([i \in DOMAIN order |->
            IF order[i][1] # None THEN Limit[order[i][1]] ELSE PaymentGas])

\* A transaction that is invalid, one that is there twice, or not enough gas.
Refusable(order) ==
    \/ \E i \in DOMAIN order : order[i][1] \in Invalid
    \/ \E i, j \in DOMAIN order : i # j /\ order[i][1] # None /\ order[i] = order[j]
    \/ GasFor(order) > GasLimit

Paid(block) == Sum([i \in DOMAIN block.txs |-> block.txs[i].amount])
Earned(block) ==
    Sum([i \in DOMAIN block.txs |->
            IF IsUser(block.txs[i]) THEN Tip[block.txs[i].tx] ELSE 0])
Payments(block) ==
    Sum([i \in DOMAIN block.txs |-> IF IsUser(block.txs[i]) THEN 0 ELSE 1])
=============================================================================
