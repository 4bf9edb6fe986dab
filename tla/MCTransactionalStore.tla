------------------------ MODULE MCTransactionalStore ------------------------
(***************************************************************************)
(* Two requests over two bids of one (version, block) pair.  The first bid *)
(* names one contract as its peeker, the second is open to any.            *)
(***************************************************************************)
EXTENDS TransactionalStore, TLC

CONSTANTS b1, b2, c1, c2, i1

MCIndexKey == [b \in BidId |-> i1]

MCAllowedPeekers == b1 :> {c1} @@ b2 :> {AllowedPeekerAny}
=============================================================================
