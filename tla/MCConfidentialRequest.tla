----------------------- MODULE MCConfidentialRequest ------------------------
(***************************************************************************)
(* Two contracts and three or four precompiles.  The first bid names one   *)
(* contract as its peeker, the second is open to any.                      *)
(***************************************************************************)
EXTENDS ConfidentialRequest, TLC

CONSTANTS b1, b2, c1, i1, t1, MaxDeep, MaxFlat

MCIndexKey == [b \in BidId |-> i1]

MCAllowedPeekers ==
    [b \in BidId |-> IF b = b1 THEN {c1} ELSE {AllowedPeekerAny}]

\* The first request's gas pays for nested calls, the other's for a few.
MCMaxCalls == [t \in Tx |-> IF t = t1 THEN MaxDeep ELSE MaxFlat]
=============================================================================
