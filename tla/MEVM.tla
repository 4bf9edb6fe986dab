-------------------------------- MODULE MEVM --------------------------------
(***************************************************************************)
(* One confidential execution on the modified EVM, for each request:       *)
(* call frames and the SuaveContext they carry (core/vm/evm.go,            *)
(* interpreter.go, suave.go) and the precompiles that reach the            *)
(* TransactionalStore (core/vm/contracts_suave.go).                        *)
(*                                                                         *)
(* Every frame gets a SuaveContext whose CallerStack is                    *)
(* append(parent's CallerStack, address).  Go's append writes into the     *)
(* parent's array when there is capacity left, so live frames share        *)
(* arrays: slices and arrays are modelled as such.                         *)
(***************************************************************************)
EXTENDS TransactionalStore, Sequences

CONSTANTS
    Precompile,             \* the SUAVE precompiles, a subset of Address
    confStoreAddress,
    confRetrieveAddress,
    newBidAddress,
    CallCreateDepth,        \* params.CallCreateDepth
    MaxCalls,               \* [Tx -> Nat], bound: calls the request's gas pays for
    Arrays                  \* identities of CallerStack arrays, naturals

VARIABLES
    exec,           \* [Tx -> ExecStates], the message call of the request
    frames,         \* [Tx -> Seq(Frame)], running frames, innermost last
    suaveContext,   \* [Tx -> Slice], evm.SuaveContext.CallerStack
    heap,           \* [Tx -> [Arrays -> Seq]], the arrays behind the slices
    calls           \* [Tx -> Nat], calls made

mevmVars == <<exec, frames, suaveContext, heap, calls>>

ExecStates == {"idle", "running", "returned", "failed"}

Contract == Address \ Precompile

Slice == [arr : Arrays, len : Nat]

\* A call of interpreter.Run: the address NewRuntimeSuaveContext was given and
\* the context that Run's defer puts back.
Frame == [addr : Contract, prev : Slice]

ASSUME MEVMConstants ==
    /\ Precompile \subseteq Address
    /\ {confStoreAddress, confRetrieveAddress, newBidAddress} \subseteq Precompile
    /\ None \notin Address
    /\ CallCreateDepth \in Nat
    /\ MaxCalls \in [Tx -> Nat]
    /\ Arrays \subseteq Nat
    /\ 0 \in Arrays

\* The empty slice of SuaveContext(): its array has no capacity.
Root == [arr |-> 0, len |-> 0]

MEVMTypeOK ==
    /\ exec \in [Tx -> ExecStates]
    /\ frames \in [Tx -> Seq(Frame)]
    /\ suaveContext \in [Tx -> Slice]
    /\ heap \in [Tx -> [Arrays -> Seq(Address \union {None})]]
    /\ calls \in [Tx -> Nat]

MEVMInit ==
    /\ exec = [t \in Tx |-> "idle"]
    /\ frames = [t \in Tx |-> <<>>]
    /\ suaveContext = [t \in Tx |-> Root]
    /\ heap = [t \in Tx |-> [n \in Arrays |-> <<>>]]
    /\ calls = [t \in Tx |-> 0]
-----------------------------------------------------------------------------
(***************************************************************************)
(* CallerStack slices.                                                     *)
(***************************************************************************)

Cap(t, s) == Len(heap[t][s.arr])

Contents(t, s) == SubSeq(heap[t][s.arr], 1, s.len)

CallerStack(t) == Contents(t, suaveContext[t])

\* The arrays that a later read can reach.
Reachable(t) ==
    {suaveContext[t].arr} \union {frames[t][i].prev.arr : i \in DOMAIN frames[t]}

\* The first array identity that is free again.
Unused(t, n) ==
    /\ n \in Arrays \ (Reachable(t) \union {0})
    /\ \A j \in Arrays \ {0} : j < n => j \in Reachable(t)

\* append with room: the element lands in the shared array.
WriteInPlace(t, a) ==
    [heap[t] EXCEPT ![suaveContext[t].arr] =
        [@ EXCEPT ![suaveContext[t].len + 1] = a]]

\* append without room: a copy in an array of twice the capacity.
Grow(t, n, a) ==
    LET s == suaveContext[t]
        newCap == IF s.len = 0 THEN 1 ELSE 2 * s.len
    IN  [heap[t] EXCEPT ![n] = [j \in 1 .. newCap |->
            IF j <= s.len THEN heap[t][s.arr][j]
            ELSE IF j = s.len + 1 THEN a ELSE None]]
-----------------------------------------------------------------------------
(***************************************************************************)
(* Frames.                                                                 *)
(***************************************************************************)

\* GetMEVM and NewConfidentialEVM.
Begin(t) ==
    /\ phase[t] = "open"
    /\ exec[t] = "idle"
    /\ exec' = [exec EXCEPT ![t] = "running"]
    /\ UNCHANGED <<vars, frames, suaveContext, heap, calls>>

Enter(t, a, s) ==
    /\ frames' = [frames EXCEPT ![t] = Append(@, [addr |-> a, prev |-> suaveContext[t]])]
    /\ suaveContext' = [suaveContext EXCEPT ![t] = s]
    /\ calls' = [calls EXCEPT ![t] = @ + 1]
    /\ UNCHANGED <<vars, exec>>

\* CALL, CALLCODE, DELEGATECALL, STATICCALL of code at a, or CREATE: each makes
\* a context for a and runs the interpreter in it.
Call(t, a) ==
    /\ exec[t] = "running"
    /\ calls[t] < MaxCalls[t]
    /\ Len(frames[t]) <= CallCreateDepth
    /\ \/ /\ suaveContext[t].len < Cap(t, suaveContext[t])
          /\ heap' = [heap EXCEPT ![t] = WriteInPlace(t, a)]
          /\ Enter(t, a, [arr |-> suaveContext[t].arr, len |-> suaveContext[t].len + 1])
       \/ /\ suaveContext[t].len = Cap(t, suaveContext[t])
          /\ \E n \in Arrays :
                /\ Unused(t, n)
                /\ heap' = [heap EXCEPT ![t] = Grow(t, n, a)]
                /\ Enter(t, a, [arr |-> n, len |-> suaveContext[t].len + 1])

\* Mutant: Run without the defer that puts the caller's context back.
LeaveInContext(t, ok) ==
    /\ exec[t] = "running"
    /\ frames[t] # <<>>
    /\ frames' = [frames EXCEPT ![t] = SubSeq(@, 1, Len(@) - 1)]
    /\ exec' = [exec EXCEPT ![t] = IF Len(frames[t]) > 1 THEN @
                                   ELSE IF ok THEN "returned" ELSE "failed"]
    /\ UNCHANGED <<vars, suaveContext, heap, calls>>

\* A frame ends.  When it fails the StateDB is reverted, the pending writes of
\* the TransactionalStore are not; the caller goes on either way, and only the
\* outermost frame decides how the message call ends.
Leave(t, ok) ==
    /\ exec[t] = "running"
    /\ frames[t] # <<>>
    /\ suaveContext' = [suaveContext EXCEPT ![t] = frames[t][Len(frames[t])].prev]
    /\ frames' = [frames EXCEPT ![t] = SubSeq(@, 1, Len(@) - 1)]
    /\ exec' = [exec EXCEPT ![t] = IF Len(frames[t]) > 1 THEN @
                                   ELSE IF ok THEN "returned" ELSE "failed"]
    /\ UNCHANGED <<vars, heap, calls>>
-----------------------------------------------------------------------------
(***************************************************************************)
(* Precompiles.  evm.precompile makes a context for the precompile's own   *)
(* address, with the same append, before it runs.                          *)
(***************************************************************************)

\* The positions of the callers that may access b, apart from p itself.
Candidates(stack, p, b) == {i \in DOMAIN stack : stack[i] # p /\ MayPeek(b, stack[i])}

PrecompileAllowed(p, b) ==
    p \in AllowedPeekers[b] \union {confStoreAddress, confRetrieveAddress}

\* Mutant: the callers are tried from the outermost frame inwards.
CheckFromOutermost(stack, p, b, c) ==
    \E i \in Candidates(stack, p, b) :
        /\ \A j \in Candidates(stack, p, b) : i <= j
        /\ c = stack[i]

\* p may access b on behalf of c, the innermost caller that b allows; for a bid
\* open to anyone, p itself if nobody else called it.
checkIsPrecompileCallAllowed(stack, p, b, c) ==
    \/ /\ PrecompileAllowed(p, b) \/ AllowedPeekerAny \in AllowedPeekers[b]
       /\ \E i \in Candidates(stack, p, b) :
            /\ \A j \in Candidates(stack, p, b) : j <= i
            /\ c = stack[i]
    \/ /\ AllowedPeekerAny \in AllowedPeekers[b]
       /\ Candidates(stack, p, b) = {}
       /\ c = p

\* A call of a precompile.  At the top level, it is the whole message call.
CallPrecompile(t, p, ok) ==
    /\ exec[t] = "running"
    /\ calls[t] < MaxCalls[t]
    /\ Len(frames[t]) <= CallCreateDepth
    /\ calls' = [calls EXCEPT ![t] = @ + 1]
    /\ heap' = IF suaveContext[t].len < Cap(t, suaveContext[t])
               THEN [heap EXCEPT ![t] = WriteInPlace(t, p)] ELSE heap
    /\ exec' = [exec EXCEPT ![t] = IF frames[t] # <<>> THEN @
                                   ELSE IF ok THEN "returned" ELSE "failed"]
    /\ UNCHANGED <<frames, suaveContext>>

\* Mutant: the backend handed to the precompiles is the engine itself, not the
\* request's transaction.
ConfStoreInEngine(t, b, k, v) ==
    /\ CallPrecompile(t, confStoreAddress, TRUE)
    /\ Present(b)
    /\ StoreInStore(b, k, v)
    /\ UNCHANGED txVars

\* confStore.
ConfStore(t, b, k, v) ==
    /\ CallPrecompile(t, confStoreAddress, TRUE)
    /\ \E c \in Address :
        /\ checkIsPrecompileCallAllowed(
                Append(CallerStack(t), confStoreAddress), confStoreAddress, b, c)
        /\ Store(t, b, c, k, v)

\* newBid.
NewBid(t, b) ==
    /\ CallPrecompile(t, newBidAddress, TRUE)
    /\ InitializeBid(t, b)

\* A precompile that reads, such as confRetrieve, fetchBids or buildEthBlock,
\* or any of them ending in an error.
OtherPrecompile(t, p, ok) ==
    /\ CallPrecompile(t, p, ok)
    /\ UNCHANGED vars

\* What a running execution does.
Execute(t) ==
    \/ \E a \in Contract : Call(t, a)
    \/ \E ok \in BOOLEAN : Leave(t, ok)
    \/ \E b \in BidId, k \in Key, v \in Value : ConfStore(t, b, k, v)
    \/ \E b \in BidId : NewBid(t, b)
    \/ \E p \in Precompile, ok \in BOOLEAN : OtherPrecompile(t, p, ok)
-----------------------------------------------------------------------------
(***************************************************************************)
(* Properties.                                                             *)
(***************************************************************************)

Path(t, n) == [i \in 1 .. n |-> frames[t][i].addr]

\* Although frames share arrays, the CallerStack of every frame that is still
\* running, not only of the innermost, lists exactly the addresses from the
\* outermost frame to it, whatever calls and precompiles ran and returned
\* below it.
StackIsPath ==
    \A t \in Tx :
        /\ CallerStack(t) = Path(t, Len(frames[t]))
        /\ \A i \in DOMAIN frames[t] : Contents(t, frames[t][i].prev) = Path(t, i - 1)

\* A write is recorded for a contract that is running and that the bid allows,
\* and no frame further in was allowed: a contract called by the peeker, or
\* one that returned, never takes the peeker's place.  Only a bid open to
\* anyone may be written by the message call itself, with no contract running.
InnermostPeeker ==
    [][\A t \in Tx : pendingWrites'[t] # pendingWrites[t] =>
        LET w == pendingWrites'[t][Len(pendingWrites'[t])]
        IN  \/ \E i \in DOMAIN frames[t] :
                /\ frames[t][i].addr = w.caller
                /\ MayPeek(w.bid, w.caller)
                /\ \A j \in DOMAIN frames[t] :
                        j > i => ~MayPeek(w.bid, frames[t][j].addr)
            \/ /\ frames[t] = <<>>
               /\ AllowedPeekerAny \in AllowedPeekers[w.bid]]_<<vars, mevmVars>>
=============================================================================
