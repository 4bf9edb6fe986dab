---------------------------- MODULE MCEthBackend ----------------------------
(***************************************************************************)
(* Concurrent calls.  The bids: a user's bundle (u1), a searcher's (s1)    *)
(* and their match (m1); a bundle with the default refund (u2), one whose  *)
(* refund is less than a payment costs (u3), a large one (d1) and one with *)
(* an invalid transaction (f1); merged bids that fit in a block (g1),      *)
(* repeat a transaction (g2), leave no gas for the proposer's payment      *)
(* (g3), do not fit (g4), are of an unknown version (g5) or empty (g6).    *)
(***************************************************************************)
EXTENDS EthBackend, TLC

CONSTANTS x1, x2, x3, x4, x5, x6, u1, s1, m1, u2, u3, d1, f1, g1, g2, g3, g4, g5, g6, c1

MCGas == x1 :> 3 @@ x2 :> 4 @@ x3 :> 5 @@ x4 :> 3 @@ x5 :> 17 @@ x6 :> 3
MCLimit == x1 :> 4 @@ x2 :> 4 @@ x3 :> 6 @@ x4 :> 3 @@ x5 :> 20 @@ x6 :> 3
MCTip == x1 :> 0 @@ x2 :> 50 @@ x3 :> 45 @@ x4 :> 3 @@ x5 :> 9 @@ x6 :> 1

MCversion ==
    [b \in BidId |->
        IF b = m1 THEN "mevshare:v0:matchBids"
        ELSE IF b \in {u1, s1, u2, u3} THEN "mevshare:v0:unmatchedBundles"
        ELSE IF b \in {d1, f1} THEN "default:v0:ethBundles"
        ELSE "default:v0:mergedBids"]

MCmergedBids ==
    [b \in BidId |-> IF b \in {g1, g2, g3, g4, g5, g6} THEN
        (g1 :> <<m1, u2>> @@ g2 :> <<u1, m1>> @@ g3 :> <<d1, u2>> @@
         g4 :> <<d1, m1, u2>> @@ g5 :> <<d1, g1>> @@ g6 :> <<>>)[b] ELSE None]

MCmatchedBids == [b \in BidId |-> IF b = m1 THEN <<u1, s1>> ELSE None]

MCBundle(txs, percent) == [txs |-> txs, percent |-> percent]

MCethBundles ==
    [b \in BidId |-> IF b \in {u1, s1, u2, u3, d1, f1} THEN
        (u1 :> MCBundle(<<x1>>, 2) @@ s1 :> MCBundle(<<x2>>, NoRefund) @@
         u2 :> MCBundle(<<x3, x4>>, 0) @@ u3 :> MCBundle(<<x4, x1>>, 2) @@
         d1 :> MCBundle(<<x5>>, NoRefund) @@ f1 :> MCBundle(<<x3, x6>>, NoRefund))[b] ELSE None]

MCBuild(b) == [op |-> "build", bid |-> b]
MCSimulate(txs) == [op |-> "simulate", bundle |-> MCBundle(txs, 2)]

\* One caller asks for anything, the others for the match.
MCAsks ==
    [c \in Caller |->
        IF c = c1
        THEN {MCBuild(b) : b \in {m1, u3, f1, g1, g2, g3, g4, g5, g6}} \union
             {MCSimulate(txs) : txs \in {<<>>, <<x1, x2>>, <<x2, x6>>}}
        ELSE {MCBuild(m1)}]

Symmetry == Permutations(Caller \ {c1})
=============================================================================
