----------------------------- MODULE MCKVStore ------------------------------
(***************************************************************************)
(* Three clients of one key-value backend: two requests, the second with   *)
(* bids of two (version, block) pairs, and a message that carries a write  *)
(* on the first bid, which another node created and sends again.           *)
(***************************************************************************)
EXTENDS KVRefinement, TLC

CONSTANTS b1, b2, b3, c1, c2, c3, i1, i2

MCIndexKey == [b \in BidId |-> IF b = b3 THEN i2 ELSE i1]

InitOp(b) == [op |-> "init", bid |-> b]
StoreOp(b) == [op |-> "store", bid |-> b]

MCProgram ==
    c1 :> <<InitOp(b1), StoreOp(b1)>> @@
    c2 :> <<InitOp(b2), InitOp(b3), StoreOp(b2)>> @@
    c3 :> <<InitOp(b1), StoreOp(b1)>>
=============================================================================
