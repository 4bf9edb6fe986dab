---------------------- MODULE ConfidentialRequestProofs ---------------------
(***************************************************************************)
(* Proofs about modules MEVM and ConfidentialRequest, for every call depth *)
(* and every number of calls, requests, contracts and bids.                *)
(***************************************************************************)
EXTENDS ConfidentialRequest, TransactionalStoreProofs

\* The CallerStack in which the i-th frame runs; the 0-th is the root context.
Ctx(t, i) ==
    IF i = Len(frames[t]) THEN suaveContext[t] ELSE frames[t][i + 1].prev

\* Every context of a running frame has the length of its depth, fits in its
\* array, and finds there the addresses of the frames up to its own.
Aligned ==
    \A t \in Tx : \A i \in 0 .. Len(frames[t]) :
        /\ Ctx(t, i).len = i
        /\ i <= Len(heap[t][Ctx(t, i).arr])
        /\ \A j \in 1 .. i : heap[t][Ctx(t, i).arr][j] = frames[t][j].addr
-----------------------------------------------------------------------------
(***************************************************************************)
(* How a step of a request moves the MEVM.                                 *)
(***************************************************************************)

\* Overwriting one position of an array changes that position only.
LEMMA UpdateFacts ==
    ASSUME NEW S, NEW s \in Seq(S), NEW n \in 1 .. Len(s), NEW e \in S
    PROVE  /\ [s EXCEPT ![n] = e] \in Seq(S)
           /\ Len([s EXCEPT ![n] = e]) = Len(s)
           /\ [s EXCEPT ![n] = e][n] = e
           /\ \A i \in 1 .. Len(s) : i # n => [s EXCEPT ![n] = e][i] = s[i]
  OBVIOUS

\* The first elements of an array, as the slice's owner reads them.
LEMMA PrefixFacts ==
    ASSUME NEW S, NEW s \in Seq(S), NEW n \in 0 .. Len(s)
    PROVE  SubSeq(s, 1, n) = [i \in 1 .. n |-> s[i]]
  OBVIOUS

\* A sequence given by its elements.
LEMMA ArrayFacts ==
    ASSUME NEW S, NEW n \in Nat, NEW f \in [1 .. n -> S]
    PROVE  f \in Seq(S) /\ Len(f) = n
  OBVIOUS

\* Popping the innermost frame.
LEMMA StackFacts ==
    ASSUME NEW S, NEW s \in Seq(S), s # <<>>
    PROVE  /\ Len(s) \in Nat /\ Len(s) > 0
           /\ SubSeq(s, 1, Len(s) - 1) \in Seq(S)
           /\ Len(SubSeq(s, 1, Len(s) - 1)) = Len(s) - 1
           /\ \A i \in 1 .. Len(s) - 1 : SubSeq(s, 1, Len(s) - 1)[i] = s[i]
           /\ s[Len(s)] \in S
  <1>1. Len(s) \in Nat /\ Len(s) > 0
    OBVIOUS
  <1> DEFINE front == [i \in 1 .. Len(s) - 1 |-> s[i]]
  <1>2. SubSeq(s, 1, Len(s) - 1) = front
    BY <1>1, PrefixFacts
  <1>3. front \in [1 .. Len(s) - 1 -> S] /\ Len(s) - 1 \in Nat
    BY <1>1
  <1>5. s[Len(s)] \in S
    BY <1>1
  <1>6. \A i \in 1 .. Len(s) - 1 : front[i] = s[i]
    OBVIOUS
  <1> HIDE DEF front
  <1>4. front \in Seq(S) /\ Len(front) = Len(s) - 1
    BY <1>3, ArrayFacts
  <1>7. QED
    BY <1>1, <1>2, <1>4, <1>5, <1>6

\* Only calls and returns touch frames, contexts and arrays.
LEMMA StepKinds ==
    ASSUME [RequestNext]_allVars
    PROVE  \/ UNCHANGED <<frames, suaveContext, heap>>
           \/ \E t \in Tx, a \in Contract : Call(t, a)
           \/ \E t \in Tx, ok \in BOOLEAN : Leave(t, ok)
           \/ \E t \in Tx, p \in Precompile, ok \in BOOLEAN : CallPrecompile(t, p, ok)
  <1>1. CASE UNCHANGED allVars
    BY <1>1 DEF allVars, mevmVars
  <1>2. ASSUME NEW t \in Tx, Execute(t)
        PROVE  \/ \E a \in Contract : Call(t, a)
               \/ \E ok \in BOOLEAN : Leave(t, ok)
               \/ \E p \in Precompile, ok \in BOOLEAN : CallPrecompile(t, p, ok)
    <2>1. confStoreAddress \in Precompile /\ newBidAddress \in Precompile
      BY MEVMConstants
    <2>2. QED
      BY <1>2, <2>1, ZenonT(40) DEF Execute, ConfStore, NewBid, OtherPrecompile
  <1>3. CASE RequestNext
    BY <1>2, <1>3
    DEF RequestNext, Serve, Begin, NoWallet, Cancel, ExecutionError, SignError,
        CallFinalize, FinalizeError, CallResult, SubmitTransaction, mevmVars
  <1>4. QED
    BY <1>1, <1>3

\* A copy of a full array in a larger one, with one element more.
LEMMA CopyFacts ==
    ASSUME NEW S, NEW q \in Seq(S), NEW a \in S, NEW d \in S,
           NEW n \in Nat, n >= Len(q) + 1
    PROVE  LET f == [j \in 1 .. n |-> IF j <= Len(q) THEN q[j]
                                      ELSE IF j = Len(q) + 1 THEN a ELSE d]
           IN  /\ f \in Seq(S)
               /\ Len(f) = n
               /\ f[Len(q) + 1] = a
               /\ \A j \in 1 .. Len(q) : f[j] = q[j]
  <1> DEFINE f == [j \in 1 .. n |-> IF j <= Len(q) THEN q[j]
                                    ELSE IF j = Len(q) + 1 THEN a ELSE d]
  <1>1. Len(q) \in Nat /\ \A j \in 1 .. Len(q) : q[j] \in S
    OBVIOUS
  <1>2. f \in [1 .. n -> S]
    BY <1>1
  <1>3. f[Len(q) + 1] = a
    BY <1>1
  <1>4. \A j \in 1 .. Len(q) : f[j] = q[j]
    BY <1>1
  <1> HIDE DEF f
  <1>5. f \in Seq(S) /\ Len(f) = n
    BY <1>2, ArrayFacts, Zenon
  <1>6. QED
    BY <1>3, <1>4, <1>5 DEF f

\* append copies the old elements and adds the new one.
LEMMA GrowFacts ==
    ASSUME MEVMTypeOK, NEW t \in Tx, NEW n \in Arrays, NEW a \in Address,
           suaveContext[t].len = Len(heap[t][suaveContext[t].arr])
    PROVE  LET s == suaveContext[t]
               new == Grow(t, n, a)
           IN  /\ new \in [Arrays -> Seq(Address \union {None})]
               /\ \A m \in Arrays \ {n} : new[m] = heap[t][m]
               /\ Len(new[n]) >= s.len + 1
               /\ new[n][s.len + 1] = a
               /\ \A j \in 1 .. s.len : new[n][j] = heap[t][s.arr][j]
  <1> DEFINE A == Address \union {None}
             q == heap[t][suaveContext[t].arr]
             newCap == IF Len(q) = 0 THEN 1 ELSE 2 * Len(q)
             f == [j \in 1 .. newCap |-> IF j <= Len(q) THEN q[j]
                                         ELSE IF j = Len(q) + 1 THEN a ELSE None]
  <1>1. heap[t] \in [Arrays -> Seq(A)] /\ q \in Seq(A)
    BY DEF MEVMTypeOK, Slice
  <1>2. Grow(t, n, a) = [heap[t] EXCEPT ![n] = f]
    BY DEF Grow
  <1>3. a \in A /\ None \in A
    OBVIOUS
  <1> HIDE DEF q, A
  <1>4. newCap \in Nat /\ newCap >= Len(q) + 1
    BY <1>1
  <1> HIDE DEF newCap
  <1>5. /\ f \in Seq(A)
        /\ Len(f) = newCap
        /\ f[Len(q) + 1] = a
        /\ \A j \in 1 .. Len(q) : f[j] = q[j]
    BY <1>1, <1>3, <1>4, CopyFacts
  <1> HIDE DEF f
  <1>6. QED
    BY <1>1, <1>2, <1>4, <1>5 DEF A, q

\* append in place changes the first unused element of the shared array.
LEMMA InPlaceFacts ==
    ASSUME MEVMTypeOK, NEW t \in Tx, NEW a \in Address,
           suaveContext[t].len < Len(heap[t][suaveContext[t].arr])
    PROVE  LET s == suaveContext[t]
               new == WriteInPlace(t, a)
           IN  /\ new \in [Arrays -> Seq(Address \union {None})]
               /\ \A m \in Arrays : Len(new[m]) = Len(heap[t][m])
               /\ new[s.arr][s.len + 1] = a
               /\ \A m \in Arrays : \A j \in 1 .. Len(heap[t][m]) :
                    m # s.arr \/ j # s.len + 1 => new[m][j] = heap[t][m][j]
  <1> DEFINE s == suaveContext[t]
             A == Address \union {None}
             f == [heap[t][s.arr] EXCEPT ![s.len + 1] = a]
  <1>1. s \in Slice /\ s.arr \in Arrays /\ s.len \in Nat
    BY DEF MEVMTypeOK, Slice
  <1>2. heap[t] \in [Arrays -> Seq(A)] /\ heap[t][s.arr] \in Seq(A)
    BY <1>1 DEF MEVMTypeOK
  <1>3. a \in A /\ s.len + 1 \in 1 .. Len(heap[t][s.arr])
    BY <1>1, <1>2
  <1>4. /\ f \in Seq(A)
        /\ Len(f) = Len(heap[t][s.arr])
        /\ f[s.len + 1] = a
        /\ \A i \in 1 .. Len(heap[t][s.arr]) : i # s.len + 1 => f[i] = heap[t][s.arr][i]
    BY <1>2, <1>3, UpdateFacts
  <1>5. WriteInPlace(t, a) = [heap[t] EXCEPT ![s.arr] = f]
    BY DEF WriteInPlace
  <1> HIDE DEF f, A
  <1>6. QED
    BY <1>1, <1>2, <1>4, <1>5 DEF A
-----------------------------------------------------------------------------
(***************************************************************************)
(* Contexts.                                                               *)
(***************************************************************************)

\* The contexts of an idle node are aligned.
LEMMA InitMEVM == RequestInit => MEVMTypeOK /\ Aligned
  <1> SUFFICES ASSUME RequestInit PROVE MEVMTypeOK /\ Aligned
    OBVIOUS
  <1> USE MEVMConstants DEF RequestInit, MEVMInit, Root
  <1>1. MEVMTypeOK
    BY DEF MEVMTypeOK, ExecStates, Slice
  <1>2. Aligned
    BY DEF Aligned, Ctx
  <1>3. QED
    BY <1>1, <1>2

\* Contexts and arrays keep their types through calls, returns and precompiles.
LEMMA NextMEVMTypeOK ==
    ASSUME MEVMTypeOK, [RequestNext]_allVars
    PROVE  MEVMTypeOK'
  <1> USE DEF MEVMTypeOK
  <1>1. exec' \in [Tx -> ExecStates] /\ calls' \in [Tx -> Nat]
    <2> USE DEF ExecStates
    <2>1. CASE UNCHANGED <<exec, calls>>
      BY <2>1
    <2>2. ASSUME NEW t \in Tx, Begin(t) \/ Cancel(t) PROVE <1>1!:
      BY <2>2, ZenonT(40) DEF Begin, Cancel
    <2>3. ASSUME NEW t \in Tx, NEW a \in Contract, Call(t, a) PROVE <1>1!:
      <3>1. exec' = exec /\ calls' = [calls EXCEPT ![t] = @ + 1]
        <4> HIDE DEF MEVMTypeOK
        <4> QED  BY <2>3, Zenon DEF Call, Enter
      <3>2. QED
        BY <3>1
    <2>4. ASSUME NEW t \in Tx, NEW ok \in BOOLEAN, Leave(t, ok) PROVE <1>1!:
      BY <2>4 DEF Leave
    <2>5. ASSUME NEW t \in Tx, NEW p, NEW ok \in BOOLEAN, CallPrecompile(t, p, ok)
          PROVE <1>1!:
      BY <2>5 DEF CallPrecompile
    <2>6. ASSUME NEW t \in Tx, Execute(t) PROVE <1>1!:
      BY <2>3, <2>4, <2>5, <2>6, Zenon DEF Execute, ConfStore, NewBid, OtherPrecompile
    <2>7. QED
      BY <2>1, <2>2, <2>6
      DEF RequestNext, Serve, NoWallet, ExecutionError, SignError, CallFinalize,
        FinalizeError, CallResult, SubmitTransaction, mevmVars, allVars
  <1>2. ASSUME NEW t \in Tx, NEW a \in Contract, Call(t, a)
        PROVE  /\ frames' \in [Tx -> Seq(Frame)]
               /\ suaveContext' \in [Tx -> Slice]
               /\ heap' \in [Tx -> [Arrays -> Seq(Address \union {None})]]
    <2> a \in Address
      BY DEF Contract
    <2>0. suaveContext[t] \in Slice
      OBVIOUS
    <2>1. [addr |-> a, prev |-> suaveContext[t]] \in Frame
      BY <2>0 DEF Frame
    <2>2. Append(frames[t], [addr |-> a, prev |-> suaveContext[t]]) \in Seq(Frame)
      BY <2>1
    <2>3. CASE /\ suaveContext[t].len < Cap(t, suaveContext[t])
               /\ heap' = [heap EXCEPT ![t] = WriteInPlace(t, a)]
               /\ Enter(t, a, [arr |-> suaveContext[t].arr,
                               len |-> suaveContext[t].len + 1])
      <3>1. WriteInPlace(t, a) \in [Arrays -> Seq(Address \union {None})]
        BY <2>3, InPlaceFacts DEF Cap
      <3>2. [arr |-> suaveContext[t].arr, len |-> suaveContext[t].len + 1] \in Slice
        BY <2>0 DEF Slice
      <3>3. /\ frames' = [frames EXCEPT ![t] =
                    Append(@, [addr |-> a, prev |-> suaveContext[t]])]
            /\ suaveContext' = [suaveContext EXCEPT ![t] =
                    [arr |-> suaveContext[t].arr, len |-> suaveContext[t].len + 1]]
        BY <2>3 DEF Enter
      <3>4. QED
        BY <2>2, <2>3, <3>1, <3>2, <3>3
    <2>4. ASSUME suaveContext[t].len = Cap(t, suaveContext[t]),
                 NEW n \in Arrays,
                 heap' = [heap EXCEPT ![t] = Grow(t, n, a)],
                 Enter(t, a, [arr |-> n, len |-> suaveContext[t].len + 1])
          PROVE  /\ frames' \in [Tx -> Seq(Frame)]
                 /\ suaveContext' \in [Tx -> Slice]
                 /\ heap' \in [Tx -> [Arrays -> Seq(Address \union {None})]]
      <3>1. Grow(t, n, a) \in [Arrays -> Seq(Address \union {None})]
        BY <2>4, GrowFacts, Zenon DEF Cap
      <3>2. [arr |-> n, len |-> suaveContext[t].len + 1] \in Slice
        BY <2>0 DEF Slice
      <3>3. QED
        BY <2>2, <2>4, <3>1, <3>2, Zenon DEF Enter
    <2>5. QED
      BY <1>2, <2>3, <2>4, ZenonT(40) DEF Call
  <1>3. ASSUME NEW t \in Tx, NEW ok \in BOOLEAN, Leave(t, ok)
        PROVE  /\ frames' \in [Tx -> Seq(Frame)]
               /\ suaveContext' \in [Tx -> Slice]
               /\ heap' = heap
    <2>1. /\ SubSeq(frames[t], 1, Len(frames[t]) - 1) \in Seq(Frame)
          /\ frames[t][Len(frames[t])] \in Frame
      BY <1>3, StackFacts DEF Leave
    <2>2. frames[t][Len(frames[t])].prev \in Slice
      BY <2>1 DEF Frame
    <2>3. QED
      BY <1>3, <2>1, <2>2 DEF Leave
  <1>4. ASSUME NEW t \in Tx, NEW p \in Precompile, NEW ok \in BOOLEAN,
               CallPrecompile(t, p, ok)
        PROVE  /\ UNCHANGED <<frames, suaveContext>>
               /\ heap' \in [Tx -> [Arrays -> Seq(Address \union {None})]]
    <2>1. p \in Address
      BY MEVMConstants
    <2>2. CASE suaveContext[t].len < Cap(t, suaveContext[t])
      <3>1. WriteInPlace(t, p) \in [Arrays -> Seq(Address \union {None})]
        BY <2>1, <2>2, InPlaceFacts DEF Cap
      <3>2. QED
        BY <1>4, <2>2, <3>1 DEF CallPrecompile
    <2>3. CASE ~(suaveContext[t].len < Cap(t, suaveContext[t]))
      BY <1>4, <2>3 DEF CallPrecompile
    <2>4. QED
      BY <2>2, <2>3, <1>4 DEF CallPrecompile
  <1>5. /\ frames' \in [Tx -> Seq(Frame)]
        /\ suaveContext' \in [Tx -> Slice]
        /\ heap' \in [Tx -> [Arrays -> Seq(Address \union {None})]]
    <2>1. CASE UNCHANGED <<frames, suaveContext, heap>>
      BY <2>1
    <2>2. CASE \E t \in Tx, a \in Contract : Call(t, a)
      BY <2>2, <1>2
    <2>3. CASE \E t \in Tx, ok \in BOOLEAN : Leave(t, ok)
      BY <2>3, <1>3
    <2>4. CASE \E t \in Tx, p \in Precompile, ok \in BOOLEAN : CallPrecompile(t, p, ok)
      BY <2>4, <1>4
    <2>5. QED
      BY <2>1, <2>2, <2>3, <2>4, StepKinds, Zenon
  <1>6. QED
    BY <1>1, <1>5

\* A request's frames as a typed stack, and the context of each.
LEMMA CtxFacts ==
    ASSUME MEVMTypeOK, NEW t \in Tx
    PROVE  /\ Len(frames[t]) \in Nat
           /\ \A i \in 0 .. Len(frames[t]) :
                Ctx(t, i) \in Slice /\ Ctx(t, i).arr \in Reachable(t)
  <1>1. frames[t] \in Seq(Frame) /\ suaveContext[t] \in Slice
    BY DEF MEVMTypeOK
  <1>2. Len(frames[t]) \in Nat
    BY <1>1
  <1>3. ASSUME NEW i \in 0 .. Len(frames[t]), i # Len(frames[t])
        PROVE  i + 1 \in DOMAIN frames[t] /\ frames[t][i + 1] \in Frame
    BY <1>1, <1>2, <1>3
  <1>4. \A i \in 0 .. Len(frames[t]) : Ctx(t, i) \in Slice
    BY <1>1, <1>3 DEF Ctx, Frame
  <1>5. \A i \in 0 .. Len(frames[t]) : Ctx(t, i).arr \in Reachable(t)
    BY <1>3 DEF Ctx, Reachable
  <1>6. QED
    BY <1>2, <1>4, <1>5

\* What the invariant is about is all in the frames, contexts and arrays.
LEMMA SameAligned ==
    ASSUME Aligned, UNCHANGED <<frames, suaveContext, heap>>
    PROVE  Aligned'
  <1>1. \A t, i : Ctx(t, i)' = Ctx(t, i)
    BY DEF Ctx
  <1>2. QED
    BY <1>1 DEF Aligned

\* A precompile call writes at most the element after the running frame's own,
\* which no running frame reads.
LEMMA PrecompileAligned ==
    ASSUME MEVMTypeOK, Aligned,
           NEW t \in Tx, NEW p \in Precompile, NEW ok \in BOOLEAN,
           CallPrecompile(t, p, ok)
    PROVE  Aligned'
  <1>1. UNCHANGED <<frames, suaveContext>> /\ p \in Address
    BY MEVMConstants DEF CallPrecompile
  <1>2. CASE heap' = heap
    BY <1>1, <1>2, SameAligned
  <1>3. CASE /\ suaveContext[t].len < Len(heap[t][suaveContext[t].arr])
             /\ heap' = [heap EXCEPT ![t] = WriteInPlace(t, p)]
    <2> DEFINE new == WriteInPlace(t, p)
    <2>1. /\ \A m \in Arrays : Len(new[m]) = Len(heap[t][m])
          /\ \A m \in Arrays : \A j \in 1 .. Len(heap[t][m]) :
                j # suaveContext[t].len + 1 => new[m][j] = heap[t][m][j]
      BY <1>1, <1>3, InPlaceFacts
    <2>2. heap'[t] = new /\ \A u \in Tx \ {t} : heap'[u] = heap[u]
      BY <1>3, Zenon DEF MEVMTypeOK
    <2> HIDE DEF new
    <2>3. suaveContext[t].len = Len(frames[t]) /\ Len(frames[t]) \in Nat
      BY CtxFacts DEF Aligned, Ctx
    <2>4. ASSUME NEW u \in Tx, NEW i \in 0 .. Len(frames[u])
          PROVE  /\ Ctx(u, i)' = Ctx(u, i)
                 /\ Ctx(u, i).len = i
                 /\ i <= Len(heap'[u][Ctx(u, i).arr])
                 /\ \A j \in 1 .. i : heap'[u][Ctx(u, i).arr][j] = frames[u][j].addr
      <3>1. Ctx(u, i)' = Ctx(u, i)
        BY <1>1 DEF Ctx
      <3>2. Ctx(u, i).arr \in Arrays
        BY CtxFacts DEF Slice
      <3>3. /\ Ctx(u, i).len = i
            /\ i <= Len(heap[u][Ctx(u, i).arr])
            /\ \A j \in 1 .. i : heap[u][Ctx(u, i).arr][j] = frames[u][j].addr
        BY DEF Aligned
      <3>4. CASE u # t
        BY <2>2, <3>1, <3>3, <3>4
      <3>5. CASE u = t
        <4>1. \A j \in 1 .. i : /\ j \in 1 .. Len(heap[t][Ctx(t, i).arr])
                                /\ j # suaveContext[t].len + 1
          BY <2>3, <3>3, <3>5
        <4>2. QED
          BY <2>1, <2>2, <3>1, <3>2, <3>3, <3>5, <4>1, Zenon
      <3>6. QED
        BY <3>4, <3>5
    <2>5. QED
      BY <1>1, <2>4 DEF Aligned
  <1>4. heap' = IF suaveContext[t].len < Len(heap[t][suaveContext[t].arr])
                THEN [heap EXCEPT ![t] = WriteInPlace(t, p)] ELSE heap
    BY DEF CallPrecompile, Cap
  <1>5. QED
    BY <1>2, <1>3, <1>4

\* A return takes the innermost context away and restores the one below it.
LEMMA LeaveAligned ==
    ASSUME MEVMTypeOK, Aligned, NEW t \in Tx, NEW ok \in BOOLEAN, Leave(t, ok)
    PROVE  Aligned'
  <1>1. /\ Len(frames[t]) \in Nat /\ Len(frames[t]) > 0
        /\ Len(frames'[t]) = Len(frames[t]) - 1
        /\ \A i \in 1 .. Len(frames[t]) - 1 : frames'[t][i] = frames[t][i]
    BY StackFacts DEF Leave, MEVMTypeOK
  <1>2. /\ heap' = heap
        /\ suaveContext'[t] = frames[t][Len(frames[t])].prev
        /\ \A u \in Tx \ {t} : frames'[u] = frames[u] /\ suaveContext'[u] = suaveContext[u]
    BY DEF Leave, MEVMTypeOK
  <1>3. ASSUME NEW u \in Tx, NEW i \in 0 .. Len(frames'[u])
        PROVE  /\ i \in 0 .. Len(frames[u])
               /\ Ctx(u, i)' = Ctx(u, i)
               /\ \A j \in 1 .. i : frames'[u][j] = frames[u][j]
    <2>1. CASE u = t
      <3>1. i \in 0 .. Len(frames[t]) - 1 /\ i \in 0 .. Len(frames[t]) /\ i # Len(frames[t])
        BY <1>1, <1>3, <2>1
      <3>2. \A j \in 1 .. i : j \in 1 .. Len(frames[t]) - 1
        BY <1>1, <3>1
      <3>3. CASE i = Len(frames[t]) - 1
        <4>1. i + 1 = Len(frames[t]) /\ i = Len(frames'[t])
          BY <1>1, <3>3
        <4>2. Ctx(t, i)' = suaveContext'[t] /\ Ctx(t, i) = frames[t][i + 1].prev
          BY <3>1, <4>1, Zenon DEF Ctx
        <4>3. Ctx(t, i)' = Ctx(t, i)
          BY <1>2, <4>1, <4>2, Zenon
        <4>4. QED
          BY <1>1, <2>1, <3>1, <3>2, <4>3, Zenon
      <3>4. CASE i # Len(frames[t]) - 1
        <4>1. i + 1 \in 1 .. Len(frames[t]) - 1 /\ i # Len(frames'[t])
          BY <1>1, <3>1, <3>4
        <4>2. Ctx(t, i)' = frames'[t][i + 1].prev /\ Ctx(t, i) = frames[t][i + 1].prev
          BY <3>1, <4>1, Zenon DEF Ctx
        <4>3. Ctx(t, i)' = Ctx(t, i)
          BY <1>1, <4>1, <4>2, Zenon
        <4>4. QED
          BY <1>1, <2>1, <3>1, <3>2, <4>3, Zenon
      <3>5. QED
        BY <3>3, <3>4, Zenon
    <2>2. CASE u # t
      BY <1>2, <2>2 DEF Ctx
    <2>3. QED
      BY <2>1, <2>2
  <1>4. ASSUME NEW u \in Tx, NEW i \in 0 .. Len(frames'[u])
        PROVE  /\ Ctx(u, i)'.len = i
               /\ i <= Len(heap'[u][Ctx(u, i)'.arr])
               /\ \A j \in 1 .. i : heap'[u][Ctx(u, i)'.arr][j] = frames'[u][j].addr
    <2>1. /\ Ctx(u, i)' = Ctx(u, i)
          /\ \A j \in 1 .. i : frames'[u][j] = frames[u][j]
          /\ heap' = heap
      BY <1>2, <1>3
    <2>2. /\ Ctx(u, i).len = i
          /\ i <= Len(heap[u][Ctx(u, i).arr])
          /\ \A j \in 1 .. i : heap[u][Ctx(u, i).arr][j] = frames[u][j].addr
      BY <1>3, Zenon DEF Aligned
    <2>3. QED
      BY <2>1, <2>2
  <1>5. QED
    BY <1>4 DEF Aligned

\* What a call of a at depth d makes of the arrays, when its own context is
\* the first d + 1 elements of array n: the new context has the caller's
\* elements and a, and what the running frames read is as it was.
Appended(t, a, d, n, new) ==
    /\ d = Len(frames[t])
    /\ new \in [Arrays -> Seq(Address \union {None})]
    /\ d + 1 <= Len(new[n])
    /\ new[n][d + 1] = a
    /\ \A j \in 1 .. d : new[n][j] = heap[t][suaveContext[t].arr][j]
    /\ \A i \in 0 .. d :
        /\ i <= Len(new[Ctx(t, i).arr])
        /\ \A j \in 1 .. i : new[Ctx(t, i).arr][j] = heap[t][Ctx(t, i).arr][j]

\* Such a call keeps the contexts aligned.
LEMMA EnterAligned ==
    ASSUME MEVMTypeOK, Aligned, NEW t \in Tx, NEW a \in Contract, NEW n \in Arrays,
           NEW d \in Nat, NEW new, Appended(t, a, d, n, new),
           heap' = [heap EXCEPT ![t] = new],
           Enter(t, a, [arr |-> n, len |-> suaveContext[t].len + 1])
    PROVE  Aligned'
  <1>0. /\ d = Len(frames[t])
        /\ d + 1 <= Len(new[n])
        /\ new[n][d + 1] = a
        /\ \A j \in 1 .. d : new[n][j] = heap[t][suaveContext[t].arr][j]
        /\ \A i \in 0 .. d :
            /\ i <= Len(new[Ctx(t, i).arr])
            /\ \A j \in 1 .. i : new[Ctx(t, i).arr][j] = heap[t][Ctx(t, i).arr][j]
    BY Zenon DEF Appended
  <1>d. d = Len(frames[t])
    BY <1>0, Zenon
  <1>e. /\ d + 1 <= Len(new[n])
        /\ new[n][d + 1] = a
        /\ \A j \in 1 .. d : new[n][j] = heap[t][suaveContext[t].arr][j]
    BY <1>0, Zenon
  <1> DEFINE fr == [addr |-> a, prev |-> suaveContext[t]]
  <1>1. /\ frames' = [frames EXCEPT ![t] = Append(@, fr)]
        /\ suaveContext' = [suaveContext EXCEPT ![t] =
                [arr |-> n, len |-> suaveContext[t].len + 1]]
    BY DEF Enter
  <1>2. frames[t] \in Seq(Frame) /\ suaveContext[t] \in Slice
    BY Zenon DEF MEVMTypeOK
  <1>a. fr \in Frame
    BY <1>2, Zenon DEF Frame
  <1>3. /\ Len(frames'[t]) = d + 1
        /\ frames'[t][d + 1] = fr
        /\ \A j \in 1 .. d : frames'[t][j] = frames[t][j]
    BY <1>1, <1>2, <1>a, <1>d, AppendFacts DEF MEVMTypeOK
  <1>4. /\ suaveContext'[t] = [arr |-> n, len |-> suaveContext[t].len + 1]
        /\ heap'[t] = new
        /\ \A u \in Tx \ {t} : /\ frames'[u] = frames[u]
                               /\ suaveContext'[u] = suaveContext[u]
                               /\ heap'[u] = heap[u]
    BY <1>1 DEF MEVMTypeOK
  <1>5. suaveContext[t].len = d /\ \A j \in 1 .. d :
            heap[t][suaveContext[t].arr][j] = frames[t][j].addr
    <2>1. Ctx(t, d) = suaveContext[t] /\ d \in 0 .. Len(frames[t])
      BY <1>d DEF Ctx
    <2>2. /\ Ctx(t, d).len = d
          /\ \A j \in 1 .. d : heap[t][Ctx(t, d).arr][j] = frames[t][j].addr
      BY <2>1, Zenon DEF Aligned
    <2>3. QED
      BY <2>1, <2>2, Zenon
  <1>6. ASSUME NEW i \in 0 .. d
        PROVE  Ctx(t, i)' = Ctx(t, i)
    <2>1. i + 1 \in 1 .. d + 1 /\ i # d + 1
      BY <1>2
    <2>2. Ctx(t, i)' = frames'[t][i + 1].prev
      BY <1>3, <2>1 DEF Ctx
    <2>3. CASE i = d
      <3>1. Ctx(t, i) = suaveContext[t]
        BY <1>d, <2>3, Zenon DEF Ctx
      <3>2. frames'[t][i + 1].prev = suaveContext[t]
        BY <1>3, <2>3
      <3>3. QED
        BY <2>2, <3>1, <3>2, Zenon
    <2>4. CASE i # d
      <3>1. Ctx(t, i) = frames[t][i + 1].prev
        BY <1>d, <2>4, Zenon DEF Ctx
      <3>2. i + 1 \in 1 .. d
        BY <2>4
      <3>3. QED
        BY <1>3, <2>2, <3>1, <3>2, Zenon
    <2>5. QED
      BY <2>3, <2>4, Zenon
  <1>7. Ctx(t, d + 1)' = [arr |-> n, len |-> d + 1]
    BY <1>3, <1>4, <1>5, Zenon DEF Ctx
  <1>8. ASSUME NEW u \in Tx, u # t, NEW i \in 0 .. Len(frames'[u])
        PROVE  /\ Ctx(u, i)'.len = i
               /\ i <= Len(heap'[u][Ctx(u, i)'.arr])
               /\ \A j \in 1 .. i : heap'[u][Ctx(u, i)'.arr][j] = frames'[u][j].addr
    <2>0. Ctx(u, i)' = Ctx(u, i)
      BY <1>4, <1>8, Zenon DEF Ctx
    <2>1. PICK c : c = Ctx(u, i) /\ c = Ctx(u, i)'
      BY <2>0, Zenon
    <2>a. heap'[u] = heap[u] /\ frames'[u] = frames[u]
      BY <1>4, <1>8, Zenon
    <2>2. heap'[u] = heap[u] /\ frames'[u] = frames[u] /\ i \in 0 .. Len(frames[u])
      BY <1>8, <2>a
    <2>3. /\ Ctx(u, i).len = i
          /\ i <= Len(heap[u][Ctx(u, i).arr])
          /\ \A j \in 1 .. i : heap[u][Ctx(u, i).arr][j] = frames[u][j].addr
      BY <1>8, <2>2, Zenon DEF Aligned
    <2>4. /\ c.len = i /\ i <= Len(heap'[u][c.arr])
          /\ \A j \in 1 .. i : heap'[u][c.arr][j] = frames'[u][j].addr
      BY <2>1, <2>2, <2>3, Zenon
    <2>5. QED
      BY <2>1, <2>4, Zenon
  <1>9. ASSUME NEW i \in 0 .. d
        PROVE  /\ Ctx(t, i)'.len = i
               /\ i <= Len(heap'[t][Ctx(t, i)'.arr])
               /\ \A j \in 1 .. i : heap'[t][Ctx(t, i)'.arr][j] = frames'[t][j].addr
    <2>1. PICK c : c = Ctx(t, i) /\ c = Ctx(t, i)'
      BY <1>6, Zenon
    <2>a. /\ Ctx(t, i).len = i
          /\ \A j \in 1 .. i : heap[t][Ctx(t, i).arr][j] = frames[t][j].addr
      BY <1>d, Zenon DEF Aligned
    <2>2. /\ c.len = i
          /\ \A j \in 1 .. i : heap[t][c.arr][j] = frames[t][j].addr
      BY <2>1, <2>a, Zenon
    <2>b. /\ i <= Len(new[Ctx(t, i).arr])
          /\ \A j \in 1 .. i : new[Ctx(t, i).arr][j] = heap[t][Ctx(t, i).arr][j]
      BY <1>0, Zenon
    <2>3. /\ i <= Len(new[c.arr])
          /\ \A j \in 1 .. i : new[c.arr][j] = heap[t][c.arr][j]
      BY <2>1, <2>b
    <2>4. \A j \in 1 .. i : j \in 1 .. d
      OBVIOUS
    <2>c. heap'[t] = new /\ \A j \in 1 .. d : frames'[t][j] = frames[t][j]
      BY <1>3, <1>4, Zenon
    <2>5. /\ i <= Len(heap'[t][c.arr])
          /\ \A j \in 1 .. i : heap'[t][c.arr][j] = frames'[t][j].addr
      BY <2>2, <2>3, <2>4, <2>c, Zenon
    <2>6. QED
      BY <2>1, <2>2, <2>5, Zenon
  <1>10. /\ Ctx(t, d + 1)'.len = d + 1
         /\ d + 1 <= Len(heap'[t][Ctx(t, d + 1)'.arr])
         /\ \A j \in 1 .. d + 1 : heap'[t][Ctx(t, d + 1)'.arr][j] = frames'[t][j].addr
    <2>1. ASSUME NEW j \in 1 .. d + 1
          PROVE  new[n][j] = frames'[t][j].addr
      <3>1. CASE j = d + 1
        BY <1>3, <1>e, <3>1
      <3>2. CASE j \in 1 .. d
        BY <1>3, <1>5, <1>e, <3>2, Zenon
      <3>3. QED
        BY <3>1, <3>2
    <2>2. Ctx(t, d + 1)'.len = d + 1 /\ Ctx(t, d + 1)'.arr = n
      BY <1>7
    <2>3. QED
      BY <1>4, <1>e, <2>1, <2>2, Zenon
  <1>11. \A i \in 0 .. Len(frames'[t]) : i \in 0 .. d \/ i = d + 1
    BY <1>2, <1>3
  <1>12. SUFFICES ASSUME NEW u \in Tx, NEW i \in 0 .. Len(frames'[u])
         PROVE  /\ Ctx(u, i)'.len = i
                /\ i <= Len(heap'[u][Ctx(u, i)'.arr])
                /\ \A j \in 1 .. i : heap'[u][Ctx(u, i)'.arr][j] = frames'[u][j].addr
    BY Zenon DEF Aligned
  <1>13. CASE u # t
    BY <1>8, <1>13, Zenon
  <1>14. CASE u = t /\ i \in 0 .. d
    <2>1. i \in 0 .. d
      BY <1>14, Zenon
    <2>2. /\ Ctx(t, i)'.len = i
          /\ i <= Len(heap'[t][Ctx(t, i)'.arr])
          /\ \A j \in 1 .. i : heap'[t][Ctx(t, i)'.arr][j] = frames'[t][j].addr
      BY <1>9, <2>1, Zenon
    <2>3. QED
      BY <1>14, <2>2, Zenon
  <1>15. CASE u = t /\ i = d + 1
    BY <1>10, <1>15
  <1>16. QED
    BY <1>11, <1>13, <1>14, <1>15

\* A call keeps the contexts aligned, whether append found room or not.
LEMMA CallAligned ==
    ASSUME MEVMTypeOK, Aligned, NEW t \in Tx, NEW a \in Contract, Call(t, a)
    PROVE  Aligned'
  <1> DEFINE s == suaveContext[t]
  <1>1. a \in Address
    BY DEF Contract
  <1>d. PICK d \in Nat : d = Len(frames[t])
    BY CtxFacts
  <1>a. s \in Slice
    BY Zenon DEF MEVMTypeOK
  <1>b. s.len = d
    BY <1>d DEF Aligned, Ctx
  <1>2. s \in Slice /\ s.arr \in Arrays /\ s.len = d
    BY <1>a, <1>b DEF Slice
  <1>3. ASSUME NEW i \in 0 .. d
        PROVE  /\ Ctx(t, i).arr \in Arrays /\ Ctx(t, i).arr \in Reachable(t)
               /\ i <= Len(heap[t][Ctx(t, i).arr])
    BY <1>d, CtxFacts DEF Aligned, Slice
  <1>4. ASSUME s.len < Len(heap[t][s.arr]),
               heap' = [heap EXCEPT ![t] = WriteInPlace(t, a)],
               Enter(t, a, [arr |-> s.arr, len |-> s.len + 1])
        PROVE  Aligned'
    <2>1. PICK new, n : new = WriteInPlace(t, a) /\ n = s.arr
      BY Zenon
    <2>a. /\ WriteInPlace(t, a) \in [Arrays -> Seq(Address \union {None})]
          /\ \A m \in Arrays : Len(WriteInPlace(t, a)[m]) = Len(heap[t][m])
          /\ WriteInPlace(t, a)[s.arr][s.len + 1] = a
          /\ \A m \in Arrays : \A j \in 1 .. Len(heap[t][m]) :
                j # s.len + 1 => WriteInPlace(t, a)[m][j] = heap[t][m][j]
      BY <1>1, <1>4, InPlaceFacts
    <2>2. /\ new \in [Arrays -> Seq(Address \union {None})]
          /\ \A m \in Arrays : Len(new[m]) = Len(heap[t][m])
          /\ new[n][d + 1] = a
          /\ \A m \in Arrays : \A j \in 1 .. Len(heap[t][m]) :
                j # d + 1 => new[m][j] = heap[t][m][j]
      BY <1>2, <2>1, <2>a, Zenon
    <2>3. ASSUME NEW i \in 0 .. d
          PROVE  /\ i <= Len(new[Ctx(t, i).arr])
                 /\ \A j \in 1 .. i : new[Ctx(t, i).arr][j] = heap[t][Ctx(t, i).arr][j]
      <3>1. PICK m \in Arrays : m = Ctx(t, i).arr
        BY <1>3, Zenon
      <3>2. i <= Len(heap[t][m]) /\ heap[t][m] \in Seq(Address \union {None})
        BY <1>3, <3>1 DEF MEVMTypeOK
      <3>3. \A j \in 1 .. i : j \in 1 .. Len(heap[t][m]) /\ j # d + 1
        BY <3>2
      <3>4. QED
        BY <2>2, <3>1, <3>2, <3>3, Zenon
    <2>4. n \in Arrays /\ heap[t][n] \in Seq(Address \union {None}) /\ d < Len(heap[t][n])
      BY <1>2, <1>4, <2>1 DEF MEVMTypeOK
    <2>5. \A j \in 1 .. d : j \in 1 .. Len(heap[t][n]) /\ j # d + 1
      BY <2>4
    <2>6. /\ d + 1 <= Len(new[n])
          /\ \A j \in 1 .. d : new[n][j] = heap[t][s.arr][j]
      BY <2>1, <2>2, <2>4, <2>5
    <2>7. heap' = [heap EXCEPT ![t] = new]
      BY <1>4, <2>1
    <2>8. Enter(t, a, [arr |-> n, len |-> s.len + 1])
      BY <1>4, <2>1
    <2>9. Appended(t, a, d, n, new)
      BY <1>d, <2>2, <2>3, <2>6, Zenon DEF Appended
    <2>10. QED
      BY <1>1, <2>4, <2>7, <2>8, <2>9, EnterAligned, ZenonT(40)
  <1>5. ASSUME s.len = Len(heap[t][s.arr]), NEW n \in Arrays, Unused(t, n),
               heap' = [heap EXCEPT ![t] = Grow(t, n, a)],
               Enter(t, a, [arr |-> n, len |-> s.len + 1])
        PROVE  Aligned'
    <2>1. PICK new : new = Grow(t, n, a)
      BY Zenon
    <2>2. /\ Grow(t, n, a) \in [Arrays -> Seq(Address \union {None})]
          /\ \A m \in Arrays \ {n} : Grow(t, n, a)[m] = heap[t][m]
          /\ Len(Grow(t, n, a)[n]) >= s.len + 1
          /\ Grow(t, n, a)[n][s.len + 1] = a
          /\ \A j \in 1 .. s.len : Grow(t, n, a)[n][j] = heap[t][s.arr][j]
      BY <1>1, <1>5, GrowFacts
    <2>3. /\ new \in [Arrays -> Seq(Address \union {None})]
          /\ \A m \in Arrays \ {n} : new[m] = heap[t][m]
          /\ d + 1 <= Len(new[n])
          /\ new[n][d + 1] = a
          /\ \A j \in 1 .. d : new[n][j] = heap[t][s.arr][j]
      BY <1>2, <2>1, <2>2, Zenon
    <2>4. \A i \in 0 .. d : Ctx(t, i).arr # n
      BY <1>3, <1>5, Zenon DEF Unused
    <2>5. \A i \in 0 .. d : /\ i <= Len(new[Ctx(t, i).arr])
                            /\ \A j \in 1 .. i :
                                new[Ctx(t, i).arr][j] = heap[t][Ctx(t, i).arr][j]
      BY <1>3, <2>3, <2>4, Zenon
    <2>6. heap' = [heap EXCEPT ![t] = new]
      BY <1>5, <2>1, Zenon
    <2>7. Appended(t, a, d, n, new)
      BY <1>d, <2>3, <2>5 DEF Appended
    <2>8. QED
      BY <1>1, <1>5, <2>6, <2>7, EnterAligned, ZenonT(40)
  <1>6. QED
    BY <1>4, <1>5, ZenonT(40) DEF Call, Cap

\* Every step keeps the contexts aligned.
LEMMA NextAligned ==
    ASSUME MEVMTypeOK, Aligned, [RequestNext]_allVars
    PROVE  Aligned'
  <1>1. CASE UNCHANGED <<frames, suaveContext, heap>>
    BY <1>1, SameAligned
  <1>2. CASE \E t \in Tx, a \in Contract : Call(t, a)
    BY <1>2, CallAligned
  <1>3. CASE \E t \in Tx, ok \in BOOLEAN : Leave(t, ok)
    BY <1>3, LeaveAligned
  <1>4. CASE \E t \in Tx, p \in Precompile, ok \in BOOLEAN : CallPrecompile(t, p, ok)
    BY <1>4, PrecompileAligned
  <1>5. QED
    BY <1>1, <1>2, <1>3, <1>4, StepKinds

\* Contexts that are aligned read as the path of the running frames.
LEMMA AlignedIsPath ==
    ASSUME MEVMTypeOK, Aligned
    PROVE  StackIsPath
  <1>1. ASSUME NEW t \in Tx, NEW i \in 0 .. Len(frames[t])
        PROVE  Contents(t, Ctx(t, i)) = Path(t, i)
    <2> DEFINE arr == heap[t][Ctx(t, i).arr]
    <2>1. arr \in Seq(Address \union {None})
      BY CtxFacts, Zenon DEF MEVMTypeOK, Slice
    <2>2. Ctx(t, i).len = i /\ i <= Len(arr) /\ \A j \in 1 .. i : arr[j] = frames[t][j].addr
      BY DEF Aligned
    <2>3. Contents(t, Ctx(t, i)) = SubSeq(arr, 1, i)
      BY <2>2 DEF Contents
    <2> HIDE DEF arr
    <2>4. SubSeq(arr, 1, i) = [j \in 1 .. i |-> arr[j]]
      BY <2>1, <2>2, PrefixFacts
    <2>5. QED
      BY <2>2, <2>3, <2>4 DEF Path
  <1>2. ASSUME NEW t \in Tx
        PROVE  CallerStack(t) = Path(t, Len(frames[t]))
    <2>1. Len(frames[t]) \in 0 .. Len(frames[t])
      BY CtxFacts
    <2>2. QED
      BY <1>1, <2>1 DEF CallerStack, Ctx
  <1>3. ASSUME NEW t \in Tx, NEW i \in DOMAIN frames[t]
        PROVE  Contents(t, frames[t][i].prev) = Path(t, i - 1)
    <2>1. frames[t] \in Seq(Frame)
      BY DEF MEVMTypeOK
    <2>2. i - 1 \in 0 .. Len(frames[t]) /\ i - 1 # Len(frames[t]) /\ (i - 1) + 1 = i
      BY <2>1
    <2>3. QED
      BY <1>1, <2>2 DEF Ctx
  <1>4. QED
    BY <1>2, <1>3 DEF StackIsPath

\* While a contract calls others to any depth, and precompiles run in between,
\* the CallerStack of every running frame is its own call path: sharing arrays
\* between contexts is sound.
THEOREM StackCorrect == RequestSpec => []StackIsPath
  <1>1. RequestInit => MEVMTypeOK /\ Aligned
    BY InitMEVM
  <1>2. MEVMTypeOK /\ Aligned /\ [RequestNext]_allVars => (MEVMTypeOK /\ Aligned)'
    BY NextMEVMTypeOK, NextAligned
  <1>3. MEVMTypeOK /\ Aligned => StackIsPath
    BY AlignedIsPath
  <1>4. QED
    BY <1>1, <1>2, <1>3, PTL DEF RequestSpec
-----------------------------------------------------------------------------
(***************************************************************************)
(* The transactional store below the MEVM.                                 *)
(***************************************************************************)

\* Every step of a request is a step of the transactional store, or none.
LEMMA StepRefines ==
    ASSUME [RequestNext]_allVars
    PROVE  [Next]_vars
  <1>1. CASE UNCHANGED allVars
    BY <1>1 DEF allVars
  <1>2. ASSUME NEW t \in Tx, Execute(t) PROVE [Next]_vars
    <2>1. ASSUME NEW a \in Contract, Call(t, a) PROVE UNCHANGED vars
      BY <2>1 DEF Call, Enter
    <2>2. ASSUME NEW ok \in BOOLEAN, Leave(t, ok) PROVE UNCHANGED vars
      BY <2>2 DEF Leave
    <2>3. ASSUME NEW b \in BidId, NEW k \in Key, NEW v \in Value, ConfStore(t, b, k, v)
          PROVE  Next
      <3>1. PICK c \in Address : Store(t, b, c, k, v)
        BY <2>3 DEF ConfStore
      <3>2. QED
        BY <3>1 DEF Next
    <2>4. ASSUME NEW b \in BidId, NewBid(t, b) PROVE Next
      BY <2>4 DEF NewBid, Next
    <2>5. ASSUME NEW p \in Precompile, NEW ok \in BOOLEAN, OtherPrecompile(t, p, ok)
          PROVE  UNCHANGED vars
      BY <2>5 DEF OtherPrecompile
    <2>6. QED
      BY <1>2, <2>1, <2>2, <2>3, <2>4, <2>5, Zenon DEF Execute
  <1>3. ASSUME NEW t \in Tx, Serve(t) PROVE [Next]_vars
    <2>1. CASE Begin(t) \/ FinalizeError(t) \/ CallResult(t)
               \/ \E ok \in BOOLEAN : SubmitTransaction(t, ok)
      BY <2>1 DEF Begin, FinalizeError, CallResult, SubmitTransaction
    <2>2. CASE Discard(t) \/ Finalize(t) \/ FinalizeStep(t)
      BY <2>2 DEF Next
    <2>3. QED
      BY <1>2, <1>3, <2>1, <2>2 DEF Serve, ExecutionError, CallFinalize
  <1>4. CASE RequestNext
    <2>1. PICK t \in Tx : \/ Serve(t) \/ NoWallet(t) \/ Cancel(t) \/ SignError(t)
                          \/ FinalizeFails(t)
      BY <1>4 DEF RequestNext
    <2>2. CASE Discard(t) \/ FinalizeFails(t)
      BY <2>2 DEF Next
    <2>3. CASE Cancel(t)
      BY <2>3 DEF Cancel
    <2>4. QED
      BY <1>3, <2>1, <2>2, <2>3 DEF NoWallet, SignError
  <1>5. QED
    BY <1>1, <1>4

\* The MEVM and the RPC handlers use the transactional store only as that
\* module lets requests use it.  Its theorems hold of the running node.
THEOREM Refinement == RequestSpec => RefinesTransactionalStore
  <1>1. RequestInit => Init
    BY DEF RequestInit
  <1>2. QED
    BY <1>1, StepRefines, PTL DEF RequestSpec, RefinesTransactionalStore, Spec

\* The part of the invariant of TransactionalStore that is needed here.
LEMMA StoreInvariant == RequestSpec => []IInv
  BY Refinement, Inductive, PTL DEF RefinesTransactionalStore

\* The positions of a typed stack of callers with the precompile on top.
LEMMA CallersFacts ==
    ASSUME MEVMTypeOK, StackIsPath, NEW t \in Tx, NEW p
    PROVE  LET stack == Append(CallerStack(t), p)
               d == Len(frames[t])
           IN  /\ d \in Nat
               /\ DOMAIN frames[t] = 1 .. d
               /\ DOMAIN stack = 1 .. d + 1
               /\ stack[d + 1] = p
               /\ \A i \in 1 .. d : /\ stack[i] = frames[t][i].addr
                                    /\ frames[t][i].addr \in Contract
  <1> DEFINE d == Len(frames[t])
             A == Contract \union {p}
  <1>1. frames[t] \in Seq(Frame)
    BY DEF MEVMTypeOK
  <1>2. d \in Nat /\ DOMAIN frames[t] = 1 .. d /\ \A i \in 1 .. d : frames[t][i] \in Frame
    BY <1>1
  <1>3. \A i \in 1 .. d : frames[t][i].addr \in Contract
    BY <1>2 DEF Frame
  <1>4. CallerStack(t) = [i \in 1 .. d |-> frames[t][i].addr]
    BY DEF StackIsPath, Path
  <1>5. CallerStack(t) \in [1 .. d -> A]
    BY <1>3, <1>4
  <1>6. CallerStack(t) \in Seq(A) /\ Len(CallerStack(t)) = d
    BY <1>2, <1>5, ArrayFacts
  <1>7. \A i \in 1 .. d : CallerStack(t)[i] = frames[t][i].addr
    BY <1>4
  <1>8. p \in A
    OBVIOUS
  <1> HIDE DEF A
  <1>9. /\ DOMAIN Append(CallerStack(t), p) = DOMAIN CallerStack(t) \union {d + 1}
        /\ Append(CallerStack(t), p)[d + 1] = p
        /\ \A i \in DOMAIN CallerStack(t) :
                Append(CallerStack(t), p)[i] = CallerStack(t)[i]
    BY <1>6, <1>8, AppendFacts
  <1>10. DOMAIN CallerStack(t) = 1 .. d
    BY <1>6
  <1>11. (1 .. d) \union {d + 1} = 1 .. d + 1
    BY <1>2
  <1>12. QED
    BY <1>2, <1>3, <1>7, <1>9, <1>10, <1>11

\* Only the precompile confStore adds to the pending writes of a request.
LEMMA OnlyConfStoreWrites ==
    ASSUME IInv, [RequestNext]_allVars, NEW t \in Tx, pendingWrites'[t] # pendingWrites[t]
    PROVE  \E b \in BidId, k \in Key, v \in Value : ConfStore(t, b, k, v)
  <1>0. pendingWrites' # pendingWrites
    OBVIOUS
  <1>1. PICK u \in Tx : Execute(u)
    BY <1>0, Zenon
    DEF RequestNext, Serve, Begin, NoWallet, Cancel, ExecutionError, SignError,
        CallFinalize, FinalizeError, CallResult, SubmitTransaction, allVars, vars, txVars,
        Discard, Finalize, FinalizeStep, FinalizeBid, FinalizeBidPresent, FinalizeWrite,
        FinalizePublish, FinalizeFails
  <1>2. \E b \in BidId, k \in Key, v \in Value : ConfStore(u, b, k, v)
    BY <1>0, <1>1, ZenonT(40)
    DEF Execute, Call, Enter, Leave, NewBid, InitializeBid, OtherPrecompile, vars, txVars
  <1>3. u = t
    <2>1. pendingWrites \in [Tx -> Seq(StoreWrite)]
      BY Zenon DEF IInv, TypeOK
    <2>2. \E w : pendingWrites' = [pendingWrites EXCEPT ![u] = w]
      BY <1>2, ZenonT(40) DEF ConfStore, Store
    <2>3. QED
      BY <2>1, <2>2
  <1>4. QED
    BY <1>2, <1>3

\* A write goes to the account of the innermost running contract that the bid
\* allows.
LEMMA WriteByInnermost ==
    ASSUME MEVMTypeOK, StackIsPath, IInv, NEW t \in Tx, NEW b \in BidId, NEW k \in Key,
           NEW v \in Value, ConfStore(t, b, k, v)
    PROVE  LET w == pendingWrites'[t][Len(pendingWrites'[t])]
           IN  \/ \E i \in DOMAIN frames[t] :
                    /\ frames[t][i].addr = w.caller
                    /\ MayPeek(w.bid, w.caller)
                    /\ \A j \in DOMAIN frames[t] :
                            j > i => ~MayPeek(w.bid, frames[t][j].addr)
               \/ /\ frames[t] = <<>>
                  /\ AllowedPeekerAny \in AllowedPeekers[w.bid]
  <1> DEFINE p == confStoreAddress
             stack == Append(CallerStack(t), p)
             d == Len(frames[t])
  <1>1. PICK c \in Address : checkIsPrecompileCallAllowed(stack, p, b, c) /\ Store(t, b, c, k, v)
    BY DEF ConfStore
  <1>2. /\ pendingWrites'[t][Len(pendingWrites'[t])].caller = c
        /\ pendingWrites'[t][Len(pendingWrites'[t])].bid = b
    <2> DEFINE sw == [bid |-> b, caller |-> c, key |-> k, value |-> v]
    <2>1. pendingWrites[t] \in Seq(StoreWrite) /\ sw \in StoreWrite
      BY ZenonT(40) DEF IInv, TypeOK, StoreWrite
    <2>2. pendingWrites'[t] = Append(pendingWrites[t], sw)
      <3>1. pendingWrites' = [pendingWrites EXCEPT ![t] = Append(@, sw)]
        BY <1>1, Zenon DEF Store
      <3>2. t \in DOMAIN pendingWrites
        BY DEF IInv, TypeOK
      <3>3. QED
        BY <3>1, <3>2, Zenon
    <2>3. sw.caller = c /\ sw.bid = b
      OBVIOUS
    <2> HIDE DEF sw
    <2>4. pendingWrites'[t][Len(pendingWrites'[t])] = sw
      BY <2>1, <2>2, AppendFacts
    <2>5. QED
      BY <2>3, <2>4, Zenon
  <1>3. /\ d \in Nat
        /\ DOMAIN frames[t] = 1 .. d
        /\ DOMAIN stack = 1 .. d + 1
        /\ stack[d + 1] = p
        /\ \A i \in 1 .. d : stack[i] = frames[t][i].addr /\ frames[t][i].addr \in Contract
    BY CallersFacts
  <1>4. p \notin Contract
    BY MEVMConstants DEF Contract
  <1> HIDE DEF stack, p
  <1>5. \A i \in 1 .. d : i \in Candidates(stack, p, b) <=> MayPeek(b, frames[t][i].addr)
    BY <1>3, <1>4 DEF Candidates
  <1>6. \A i \in Candidates(stack, p, b) : i \in 1 .. d
    BY <1>3 DEF Candidates
  <1>7. CASE \E i \in Candidates(stack, p, b) :
                (\A j \in Candidates(stack, p, b) : j <= i) /\ c = stack[i]
    <2>1. PICK i \in Candidates(stack, p, b) :
                (\A j \in Candidates(stack, p, b) : j <= i) /\ c = stack[i]
      BY <1>7, Zenon
    <2>2. i \in 1 .. d /\ frames[t][i].addr = c /\ MayPeek(b, c)
      BY <1>3, <1>5, <1>6, <2>1, Zenon
    <2>3. ASSUME NEW j \in 1 .. d, j > i PROVE ~MayPeek(b, frames[t][j].addr)
      BY <1>5, <2>1, <2>2, <2>3
    <2>4. QED
      BY <1>2, <1>3, <2>2, <2>3, Zenon
  <1>8. CASE AllowedPeekerAny \in AllowedPeekers[b] /\ Candidates(stack, p, b) = {}
    <2>1. d = 0
      <3>1. 1 \notin 1 .. d
        BY <1>5, <1>8 DEF MayPeek
      <3>2. QED
        BY <1>3, <3>1
    <2>2. frames[t] = <<>>
      BY <2>1 DEF MEVMTypeOK
    <2>3. QED
      BY <1>2, <1>8, <2>2, Zenon
  <1>9. QED
    BY <1>1, <1>7, <1>8, Zenon DEF checkIsPrecompileCallAllowed

\* Every confidential write is made for the innermost running contract that
\* the bid's AllowedPeekers name, at every depth of nested calls.
THEOREM PeekerCorrect == RequestSpec => InnermostPeeker
  <1> DEFINE WriteOK ==
        \A t \in Tx : pendingWrites'[t] # pendingWrites[t] =>
            LET w == pendingWrites'[t][Len(pendingWrites'[t])]
            IN  \/ \E i \in DOMAIN frames[t] :
                    /\ frames[t][i].addr = w.caller
                    /\ MayPeek(w.bid, w.caller)
                    /\ \A j \in DOMAIN frames[t] :
                            j > i => ~MayPeek(w.bid, frames[t][j].addr)
                \/ /\ frames[t] = <<>>
                   /\ AllowedPeekerAny \in AllowedPeekers[w.bid]
  <1>1. MEVMTypeOK /\ StackIsPath /\ IInv /\ [RequestNext]_allVars => WriteOK
    BY OnlyConfStoreWrites, WriteByInnermost
  <1>2. RequestInit => MEVMTypeOK /\ Aligned
    BY InitMEVM
  <1>3. MEVMTypeOK /\ Aligned /\ [RequestNext]_allVars => (MEVMTypeOK /\ Aligned)'
    BY NextMEVMTypeOK, NextAligned
  <1>4. RequestSpec => [](MEVMTypeOK)
    BY <1>2, <1>3, PTL DEF RequestSpec
  <1>5. QED
    BY <1>1, <1>4, StackCorrect, StoreInvariant, PTL DEF RequestSpec, InnermostPeeker
-----------------------------------------------------------------------------
(***************************************************************************)
(* The life of a request.                                                  *)
(***************************************************************************)

\* Only an execution that returned is finalized.
FinalizedReturned ==
    \A t \in Tx : exec[t] # "returned" => phase[t] \in {"open", "discarded"}

\* A request owns no bid of the store before its Finalize.
OpenOwnsNothing ==
    \A t \in Tx : phase[t] \in {"open", "discarded"} => \A b \in BidId : bids[b] # t

DonePublished == \A t \in Tx : phase[t] = "done" => t \in published

PooledDone == \A t \in pool : t \in Tx /\ phase[t] = "done" /\ answer[t] = "hash"

RInv == FinalizedReturned /\ OpenOwnsNothing /\ DonePublished /\ PooledDone

\* The strengthening holds before any request runs.
LEMMA InitRInv == RequestInit => RInv
  BY StoreConstants
  DEF RequestInit, Init, StoreInit, MEVMInit, RInv, FinalizedReturned, OpenOwnsNothing,
      DonePublished, PooledDone

\* A request that has not called Finalize owns no stored bid.
LEMMA NextOpenOwnsNothing ==
    ASSUME TypeOK, OpenOwnsNothing, [Next]_vars
    PROVE  OpenOwnsNothing'
  <1> SUFFICES ASSUME NEW t \in Tx, phase'[t] \in {"open", "discarded"}, NEW b \in BidId
               PROVE  bids'[b] # t
    BY Zenon DEF OpenOwnsNothing
  <1>1. phase[t] \in {"open", "discarded"}
    BY FinalizedStays
  <1>2. bids[b] # t
    BY <1>1 DEF OpenOwnsNothing
  <1>3. CASE UNCHANGED storeVars
    BY <1>2, <1>3 DEF storeVars
  <1>4. ASSUME NEW u \in Tx, NEW e \in BidId, FinalizeBid(u, e) PROVE bids'[b] # t
    <2>1. u # t
      BY <1>1, <1>4, Zenon DEF FinalizeBid
    <2>2. QED
      BY <1>2, <1>4, <2>1 DEF FinalizeBid, InitializeBidInStore, TypeOK, StoreTypeOK
  <1>5. ASSUME NEW u \in Tx, FinalizeWrite(u) PROVE bids'[b] # t
    BY <1>2, <1>5 DEF FinalizeWrite, StoreInStore
  <1>6. QED
    BY <1>3, <1>4, <1>5, StoreFrame, Zenon

\* A request that is done has published its message.
LEMMA NextDonePublished ==
    ASSUME TypeOK, DonePublished, [Next]_vars, Progress, Progress'
    PROVE  DonePublished'
  <1> SUFFICES ASSUME NEW t \in Tx, phase'[t] = "done" PROVE t \in published'
    BY DEF DonePublished
  <1>1. published \subseteq published'
    BY ZenonT(40) DEF Next, FinalizeStep, vars, txVars, InitializeBid, Store, Discard,
         Finalize, FinalizeFails, FinalizePublish, FinalizeBid, FinalizeWrite,
         FinalizeBidPresent
  <1>2. CASE phase[t] = "done"
    BY <1>1, <1>2 DEF DonePublished
  <1>3. CASE phase[t] # "done"
    <2>1. FinalizePublish(t)
      BY <1>3, ZenonT(40) DEF TypeOK, Next, FinalizeStep, vars, txVars, InitializeBid, Store, Discard,
         Finalize, FinalizeFails, FinalizePublish, FinalizeBid, FinalizeWrite,
         FinalizeBidPresent
    <2>2. t \in Signed
      BY Zenon DEF Progress
    <2>3. QED
      BY <2>1, <2>2, Zenon DEF FinalizePublish
  <1>4. QED
    BY <1>2, <1>3

\* A request that reached Finalize stays there, and its execution is over.
LEMMA NextFinalizedReturned ==
    ASSUME TypeOK, MEVMTypeOK, FinalizedReturned, [RequestNext]_allVars
    PROVE  FinalizedReturned'
  <1> SUFFICES ASSUME NEW t \in Tx, phase'[t] \notin {"open", "discarded"}
               PROVE  exec'[t] = "returned"
    BY DEF FinalizedReturned
  <1> USE DEF TypeOK, MEVMTypeOK
  <1>1. CASE UNCHANGED allVars
    BY <1>1 DEF allVars, vars, txVars, mevmVars, FinalizedReturned
  <1>2. ASSUME NEW u \in Tx, Execute(u) PROVE exec'[t] = "returned"
    <2>1. exec[u] = "running"
      BY <1>2, Zenon DEF Execute, Call, Leave, ConfStore, NewBid, OtherPrecompile, CallPrecompile
    <2>2. phase' = phase
      BY <1>2, ZenonT(40) DEF Execute, Call, Enter, Leave, ConfStore, Store, NewBid, InitializeBid,
                  OtherPrecompile, vars, txVars
    <2>3. u # t /\ exec[t] = "returned"
      BY <2>1, <2>2, Zenon DEF FinalizedReturned
    <2>4. exec' = exec \/ \E e : exec' = [exec EXCEPT ![u] = e]
      BY <1>2, Zenon DEF Execute, Call, Enter, Leave, ConfStore, NewBid, OtherPrecompile,
                  CallPrecompile
    <2>5. QED
      BY <2>3, <2>4, Zenon
  <1>3. ASSUME NEW u \in Tx, Begin(u) \/ Cancel(u) PROVE exec'[t] = "returned"
    <2>1. phase' = phase /\ phase[u] = "open" /\ \E e : exec' = [exec EXCEPT ![u] = e]
      BY <1>3, Zenon DEF Begin, Cancel, vars, txVars
    <2>2. QED
      BY <2>1, Zenon DEF FinalizedReturned
  <1>4. ASSUME NEW u \in Tx, Discard(u), exec' = exec PROVE exec'[t] = "returned"
    BY <1>4, Zenon DEF Discard, FinalizedReturned
  <1>5. ASSUME NEW u \in Tx, CallFinalize(u) PROVE exec'[t] = "returned"
    BY <1>5 DEF CallFinalize, Finalize, FinalizedReturned, mevmVars
  <1>6. ASSUME NEW u \in Tx, FinalizeStep(u) \/ FinalizeFails(u), exec' = exec
        PROVE  exec'[t] = "returned"
    <2>1. phase[u] = "finalizing"
      BY <1>6, Zenon DEF FinalizeStep, FinalizeBid, FinalizeBidPresent, FinalizeWrite,
                  FinalizePublish, FinalizeFails
    <2>2. phase' = phase \/ \E e : phase' = [phase EXCEPT ![u] = e]
      BY <1>6 DEF FinalizeStep, FinalizeBid, FinalizeBidPresent, FinalizeWrite,
                  FinalizePublish, FinalizeFails
    <2>3. QED
      BY <1>6, <2>1, <2>2, Zenon DEF FinalizedReturned
  <1>7. ASSUME NEW u \in Tx, \/ FinalizeError(u) \/ CallResult(u)
                             \/ \E ok \in BOOLEAN : SubmitTransaction(u, ok)
        PROVE  exec'[t] = "returned"
    BY <1>7, Zenon DEF FinalizeError, CallResult, SubmitTransaction, vars, txVars, mevmVars,
                FinalizedReturned
  <1> HIDE DEF TypeOK, MEVMTypeOK
  <1>8. CASE RequestNext
    <2>1. PICK u \in Tx : \/ Serve(u) \/ NoWallet(u) \/ Cancel(u) \/ SignError(u)
                          \/ FinalizeFails(u) /\ UNCHANGED <<mevmVars, requestVars>>
      BY <1>8 DEF RequestNext
    <2>2. CASE NoWallet(u) \/ SignError(u) \/ ExecutionError(u)
      BY <1>4, <2>2 DEF NoWallet, SignError, ExecutionError, mevmVars
    <2>3. QED
      BY <1>2, <1>3, <1>5, <1>6, <1>7, <2>1, <2>2, Zenon DEF Serve, mevmVars
  <1>9. QED
    BY <1>1, <1>8

\* Only a finalized request enters the pool, with its hash as the answer, and
\* nothing is taken back.
LEMMA NextPooledDone ==
    ASSUME RequestTypeOK, PooledDone, [RequestNext]_allVars
    PROVE  PooledDone'
  <1>1. /\ phase \in [Tx -> Phases] /\ answer \in [Tx -> Answers] /\ pool \subseteq Tx
        /\ TypeOK
    BY DEF RequestTypeOK, TypeOK
  <1>2. ASSUME NEW t \in Tx, phase[t] = "done" PROVE phase'[t] = "done"
    <2>1. [Next]_vars
      BY StepRefines
    <2>2. QED
      BY <1>1, <1>2, <2>1, ZenonT(40)
      DEF Next, FinalizeStep, vars, txVars, InitializeBid, Store, Discard,
          Finalize, FinalizeFails, FinalizePublish, FinalizeBid, FinalizeWrite,
          FinalizeBidPresent
  <1>3. ASSUME pool' = pool,
               \/ answer' = answer
               \/ \E u \in Tx : answer[u] = "none" /\ \E a : answer' = [answer EXCEPT ![u] = a]
        PROVE  PooledDone'
    BY <1>1, <1>2, <1>3 DEF PooledDone
  <1>4. ASSUME NEW u \in Tx, NEW ok \in BOOLEAN, SubmitTransaction(u, ok)
        PROVE  PooledDone'
    <2>1. /\ phase[u] = "done" /\ answer[u] = "none"
          /\ answer' = [answer EXCEPT ![u] = IF ok THEN "hash" ELSE "error"]
          /\ pool' = IF ok THEN pool \union {u} ELSE pool
      BY <1>4 DEF SubmitTransaction, Reply
    <2>2. CASE ok = TRUE
      BY <1>1, <1>2, <2>1, <2>2 DEF PooledDone
    <2>3. CASE ok = FALSE
      BY <1>1, <1>2, <2>1, <2>3 DEF PooledDone
    <2>4. QED
      BY <2>2, <2>3, ZenonT(40)
  <1>5. CASE UNCHANGED allVars
    BY <1>3, <1>5 DEF allVars, requestVars
  <1>6. CASE RequestNext
    <2>1. \/ \E u \in Tx, ok \in BOOLEAN : SubmitTransaction(u, ok)
          \/ /\ pool' = pool
             /\ \/ answer' = answer
                \/ \E u \in Tx :
                    answer[u] = "none" /\ \E a : answer' = [answer EXCEPT ![u] = a]
      BY <1>6 DEF RequestNext, Serve, NoWallet, Cancel, ExecutionError, SignError,
        CallFinalize, FinalizeError, CallResult, Reply, requestVars
    <2>2. QED
      BY <1>3, <1>4, <2>1, Zenon
  <1>7. QED
    BY <1>5, <1>6

\* Answers are given once, and only requests enter the pool.
LEMMA NextRequestTypeOK ==
    ASSUME RequestTypeOK, [RequestNext]_allVars
    PROVE  RequestTypeOK'
  <1>1. TypeOK' /\ MEVMTypeOK'
    BY StepRefines, NextTypeOK, NextMEVMTypeOK DEF RequestTypeOK
  <1>2. answer \in [Tx -> Answers] /\ pool \subseteq Tx
    BY DEF RequestTypeOK
  <1>3. answer' \in [Tx -> Answers] /\ pool' \subseteq Tx
    <2>1. CASE UNCHANGED allVars
      BY <1>2, <2>1 DEF allVars, requestVars
    <2>2. ASSUME NEW u \in Tx, NEW ok \in BOOLEAN, SubmitTransaction(u, ok)
          PROVE  answer' \in [Tx -> Answers] /\ pool' \subseteq Tx
      <3>1. /\ answer' = [answer EXCEPT ![u] = IF ok THEN "hash" ELSE "error"]
            /\ pool' = IF ok THEN pool \union {u} ELSE pool
        BY <2>2 DEF SubmitTransaction, Reply
      <3>2. QED
        BY <1>2, <3>1 DEF Answers
    <2>3. CASE RequestNext
      <3>1. \/ \E u \in Tx, ok \in BOOLEAN : SubmitTransaction(u, ok)
            \/ /\ pool' = pool
               /\ \/ answer' = answer
                  \/ \E u \in Tx, a \in {"error", "result"} :
                        answer' = [answer EXCEPT ![u] = a]
        BY <2>3 DEF RequestNext, Serve, NoWallet, Cancel, ExecutionError, SignError,
            CallFinalize, FinalizeError, CallResult, Reply, requestVars
      <3>2. QED
        BY <1>2, <2>2, <3>1, Zenon DEF Answers
    <2>4. QED
      BY <2>1, <2>3
  <1>4. QED
    BY <1>1, <1>3 DEF RequestTypeOK

\* The variables of the request handlers, the MEVM and the store keep their
\* types.
THEOREM RequestTypeCorrect == RequestSpec => []RequestTypeOK
  <1>1. RequestInit => RequestTypeOK
    BY InitTypeOK, InitMEVM DEF RequestInit, RequestTypeOK, Answers
  <1>2. RequestTypeOK /\ [RequestNext]_allVars => RequestTypeOK'
    BY NextRequestTypeOK
  <1>3. QED
    BY <1>1, <1>2, PTL DEF RequestSpec

\* The strengthening is an invariant, on top of the store's own.
LEMMA RequestInductive == RequestSpec => []RInv
  <1>1. RInv /\ RequestTypeOK /\ IInv /\ IInv' /\ [RequestNext]_allVars => RInv'
    BY StepRefines, NextFinalizedReturned, NextOpenOwnsNothing, NextDonePublished,
       NextPooledDone
    DEF RInv, IInv, RequestTypeOK
  <1>2. QED
    BY <1>1, InitRInv, RequestTypeCorrect, StoreInvariant, PTL DEF RequestSpec

\* An RPC call that ends in an error of the execution or of the signature left
\* nothing in the store and published nothing.
THEOREM ErrorCorrect == RequestSpec => []ErrorLeavesNothing
  <1>1. ASSUME RInv, IInv PROVE ErrorLeavesNothing
    <2> SUFFICES ASSUME NEW t \in Tx, exec[t] # "returned" \/ phase[t] = "discarded"
                 PROVE  /\ \A b \in BidId : bids[b] # t
                        /\ applied[t] = 0
                        /\ t \notin published
      BY DEF ErrorLeavesNothing
    <2>1. phase[t] \in {"open", "discarded"}
      BY <1>1 DEF RInv, FinalizedReturned
    <2>2. \A b \in BidId : bids[b] # t
      BY <1>1, <2>1, Zenon DEF RInv, OpenOwnsNothing
    <2>3. applied[t] = 0 /\ t \notin published
      BY <1>1, <2>1, Zenon DEF IInv, Progress
    <2>4. QED
      BY <2>2, <2>3
  <1>2. QED
    BY <1>1, RequestInductive, StoreInvariant, PTL

\* What the chain learns of a confidential request through the pool is backed
\* by the node's store and was offered to the other nodes.
THEOREM PoolCorrect == RequestSpec => []PooledIsComplete
  <1>1. ASSUME RInv, PublishedIsComplete PROVE PooledIsComplete
    <2>1. \A t \in pool : answer[t] = "hash" /\ t \in published
      BY <1>1 DEF RInv, DonePublished, PooledDone
    <2>2. QED
      BY <1>1, <2>1, Zenon DEF PublishedIsComplete, PooledIsComplete
  <1>2. QED
    BY <1>1, RequestInductive, Refinement, PublishCorrect, PTL
    DEF RefinesTransactionalStore
-----------------------------------------------------------------------------
(***************************************************************************)
(* What the answer of an RPC call tells its caller.                        *)
(***************************************************************************)

\* The request is over: thrown away, or at the end of its Finalize.
Settled(t) == phase[t] \in {"discarded", "failed", "unsigned", "done"}

\* Nothing of the request changes.
Quiet(t) ==
    /\ phase'[t] = phase[t] /\ toInit'[t] = toInit[t] /\ applied'[t] = applied[t]
    /\ pendingBids'[t] = pendingBids[t] /\ pendingWrites'[t] = pendingWrites[t]
    /\ t \in published' <=> t \in published

\* A step of another request leaves it alone.
LEMMA OthersAreQuiet ==
    ASSUME TypeOK, NEW t \in Tx, NEW u \in Tx, u # t,
           \/ \E b \in BidId : InitializeBid(u, b)
           \/ \E b \in BidId, c \in Address, k \in Key, v \in Value : Store(u, b, c, k, v)
           \/ Discard(u)
           \/ Finalize(u)
           \/ FinalizeStep(u)
           \/ FinalizeFails(u)
    PROVE  Quiet(t)
  <1>1. /\ phase \in [Tx -> Phases] /\ pendingBids \in [Tx -> SUBSET BidId]
        /\ pendingWrites \in [Tx -> Seq(StoreWrite)] /\ toInit \in [Tx -> SUBSET BidId]
        /\ applied \in [Tx -> Nat]
    BY Zenon DEF TypeOK
  <1>2. phase'[t] = phase[t]
    BY <1>1, Zenon DEF FinalizeStep, InitializeBid, Store, Discard, Finalize, FinalizeFails,
        FinalizePublish, FinalizeBid, FinalizeWrite, FinalizeBidPresent
  <1>3. toInit'[t] = toInit[t]
    BY <1>1, Zenon DEF FinalizeStep, InitializeBid, Store, Discard, Finalize, FinalizeFails,
        FinalizePublish, FinalizeBid, FinalizeWrite, FinalizeBidPresent
  <1>4. applied'[t] = applied[t]
    BY <1>1, Zenon DEF FinalizeStep, InitializeBid, Store, Discard, Finalize, FinalizeFails,
        FinalizePublish, FinalizeBid, FinalizeWrite, FinalizeBidPresent
  <1>5. pendingBids'[t] = pendingBids[t] /\ pendingWrites'[t] = pendingWrites[t]
    BY <1>1, Zenon DEF FinalizeStep, InitializeBid, Store, Discard, Finalize, FinalizeFails,
        FinalizePublish, FinalizeBid, FinalizeWrite, FinalizeBidPresent
  <1>6. t \in published' <=> t \in published
    <2>1. published' = published \/ published' = published \union {u}
      BY Zenon DEF FinalizeStep, InitializeBid, Store, Discard, Finalize, FinalizeFails,
        FinalizePublish, FinalizeBid, FinalizeWrite, FinalizeBidPresent
    <2>2. QED
      BY <2>1, Zenon
  <1>7. QED
    BY <1>2, <1>3, <1>4, <1>5, <1>6, Zenon DEF Quiet

\* A request that is over does nothing more.
LEMMA SettledIsQuiet ==
    ASSUME TypeOK, [Next]_vars, NEW t \in Tx, Settled(t)
    PROVE  Quiet(t)
  <1>1. CASE UNCHANGED vars
    BY <1>1, Zenon DEF vars, txVars, Quiet
  <1>2. CASE Next
    <2>1. PICK u \in Tx :
            \/ \E b \in BidId : InitializeBid(u, b)
            \/ \E b \in BidId, c \in Address, k \in Key, v \in Value : Store(u, b, c, k, v)
            \/ Discard(u)
            \/ Finalize(u)
            \/ FinalizeStep(u)
            \/ FinalizeFails(u)
      BY <1>2, Zenon DEF Next
    <2>2. phase[u] = "open" \/ phase[u] = "finalizing"
      BY <2>1, Zenon DEF FinalizeStep, InitializeBid, Store, Discard, Finalize,
        FinalizeFails, FinalizePublish, FinalizeBid, FinalizeWrite, FinalizeBidPresent
    <2>3. u # t
      BY <2>2 DEF Settled
    <2>4. QED
      BY <2>1, <2>3, OthersAreQuiet, Zenon
  <1>3. QED
    BY <1>1, <1>2, Zenon

\* How an answer fits the end of its request; a request that is thrown away is
\* answered in the same step.
Told ==
    \A t \in Tx :
        /\ answer[t] = "none" => phase[t] # "discarded" /\ t \notin pool
        /\ answer[t] = "error" => phase[t] \in {"discarded", "failed", "done"} /\ t \notin pool
        /\ answer[t] = "result" => phase[t] = "unsigned" /\ t \notin pool
        /\ answer[t] = "hash" => phase[t] = "done" /\ t \in pool

\* A step answers at most the request it is of, and only one that has no answer.
LEMMA AnswerFrame ==
    ASSUME RequestTypeOK, [RequestNext]_allVars, NEW t \in Tx
    PROVE  \/ /\ answer'[t] = answer[t] /\ (t \in pool' <=> t \in pool)
              /\ phase'[t] = "discarded" => phase[t] = "discarded"
           \/ /\ answer[t] = "none" /\ answer'[t] = "error" /\ pool' = pool
              /\ phase'[t] \in {"discarded", "failed", "done"}
           \/ /\ answer[t] = "none" /\ answer'[t] = "result" /\ pool' = pool
              /\ phase'[t] = "unsigned"
           \/ /\ answer[t] = "none" /\ answer'[t] = "hash" /\ pool' = pool \union {t}
              /\ phase'[t] = "done"
  <1> DEFINE Same == /\ answer'[t] = answer[t] /\ (t \in pool' <=> t \in pool)
                     /\ phase'[t] = "discarded" => phase[t] = "discarded"
             Error == /\ answer[t] = "none" /\ answer'[t] = "error" /\ pool' = pool
                      /\ phase'[t] \in {"discarded", "failed", "done"}
             Result == /\ answer[t] = "none" /\ answer'[t] = "result" /\ pool' = pool
                       /\ phase'[t] = "unsigned"
             Hash == /\ answer[t] = "none" /\ answer'[t] = "hash"
                     /\ pool' = pool \union {t} /\ phase'[t] = "done"
  <1>1. phase \in [Tx -> Phases] /\ answer \in [Tx -> Answers]
    BY Zenon DEF RequestTypeOK, TypeOK
  <1>2. CASE UNCHANGED allVars
    BY <1>2 DEF allVars, vars, txVars, requestVars
  <1>3. ASSUME NEW u \in Tx, Execute(u), UNCHANGED requestVars PROVE Same
    <2>1. phase' = phase
      BY <1>3, ZenonT(40) DEF Execute, Call, Enter, Leave, ConfStore, Store, NewBid,
        InitializeBid, OtherPrecompile, vars, txVars
    <2>2. QED
      BY <1>3, <2>1, Zenon DEF requestVars
  <1>4. ASSUME NEW u \in Tx, \/ Begin(u) /\ UNCHANGED requestVars
                             \/ Cancel(u)
        PROVE  Same
    BY <1>4 DEF Begin, Cancel, vars, txVars, requestVars
  <1>5. ASSUME NEW u \in Tx, NoWallet(u) \/ ExecutionError(u) \/ SignError(u)
        PROVE  Same \/ Error
    <2>1. /\ phase' = [phase EXCEPT ![u] = "discarded"] /\ pool' = pool
          /\ answer[u] = "none" /\ answer' = [answer EXCEPT ![u] = "error"]
      BY <1>5, Zenon DEF NoWallet, ExecutionError, SignError, Discard, Reply
    <2>2. CASE u = t
      BY <1>1, <2>1, <2>2
    <2>3. CASE u # t
      BY <1>1, <2>1, <2>3
    <2>4. QED
      BY <2>2, <2>3, Zenon
  <1>6. ASSUME NEW u \in Tx, UNCHANGED requestVars,
               Finalize(u) \/ FinalizeStep(u) \/ FinalizeFails(u)
        PROVE  Same
    <2>1. \/ phase' = phase
          \/ \E e \in {"finalizing", "failed", "unsigned", "done"} :
                phase' = [phase EXCEPT ![u] = e]
      BY <1>6, Zenon DEF FinalizeStep, Finalize, FinalizeFails, FinalizePublish,
        FinalizeBid, FinalizeWrite, FinalizeBidPresent
    <2>2. phase'[t] = "discarded" => phase[t] = "discarded"
      BY <1>1, <2>1
    <2>3. QED
      BY <1>6, <2>2, Zenon DEF requestVars
  <1>7. ASSUME NEW u \in Tx, FinalizeError(u) \/ CallResult(u)
        PROVE  Same \/ Error \/ Result
    <2>1. phase' = phase /\ pool' = pool /\ answer[u] = "none"
      BY <1>7, Zenon DEF FinalizeError, CallResult, Reply, vars, txVars
    <2>2. \/ phase[u] = "failed" /\ answer' = [answer EXCEPT ![u] = "error"]
          \/ phase[u] = "unsigned" /\ answer' = [answer EXCEPT ![u] = "result"]
      BY <1>7, Zenon DEF FinalizeError, CallResult, Reply
    <2>3. CASE u = t
      BY <1>1, <2>1, <2>2, <2>3
    <2>4. CASE u # t
      BY <1>1, <2>1, <2>2, <2>4
    <2>5. QED
      BY <2>3, <2>4, Zenon
  <1>8. ASSUME NEW u \in Tx, NEW ok \in BOOLEAN, SubmitTransaction(u, ok)
        PROVE  Same \/ Error \/ Hash
    <2>1. phase' = phase /\ phase[u] = "done" /\ answer[u] = "none"
      BY <1>8, Zenon DEF SubmitTransaction, Reply, vars, txVars
    <2>2. \/ answer' = [answer EXCEPT ![u] = "hash"] /\ pool' = pool \union {u}
          \/ answer' = [answer EXCEPT ![u] = "error"] /\ pool' = pool
      <3>1. CASE ok = TRUE
        BY <1>8, <3>1 DEF SubmitTransaction, Reply
      <3>2. CASE ok = FALSE
        BY <1>8, <3>2 DEF SubmitTransaction, Reply
      <3>3. QED
        BY <3>1, <3>2, Zenon
    <2>3. CASE u = t
      BY <1>1, <2>1, <2>2, <2>3
    <2>4. CASE u # t
      BY <1>1, <2>1, <2>2, <2>4
    <2>5. QED
      BY <2>3, <2>4, Zenon
  <1>9. CASE RequestNext
    <2>1. PICK u \in Tx : \/ Serve(u) \/ NoWallet(u) \/ Cancel(u) \/ SignError(u)
                          \/ FinalizeFails(u) /\ UNCHANGED <<mevmVars, requestVars>>
      BY <1>9, Zenon DEF RequestNext
    <2> HIDE DEF Same, Error, Result, Hash
    <2>2. ASSUME Serve(u) PROVE Same \/ Error \/ Result \/ Hash
      <3>1. ASSUME UNCHANGED <<mevmVars, requestVars>> PROVE UNCHANGED requestVars
        BY <3>1
      <3>2. QED
        BY <1>3, <1>4, <1>5, <1>6, <1>7, <1>8, <2>2, <3>1, Zenon DEF Serve, CallFinalize
    <2>3. ASSUME ~Serve(u) PROVE Same \/ Error \/ Result \/ Hash
      <3>1. ASSUME UNCHANGED <<mevmVars, requestVars>> PROVE UNCHANGED requestVars
        BY <3>1
      <3>2. QED
        BY <1>4, <1>5, <1>6, <2>1, <2>3, <3>1, Zenon
    <2>4. Same \/ Error \/ Result \/ Hash
      BY <2>2, <2>3, Zenon
    <2>5. QED
      BY <2>4, Zenon DEF Same, Error, Result, Hash
  <1>10. QED
    BY <1>2, <1>9, Zenon

\* The answers keep fitting: an answered request is over, and what is over stays.
LEMMA NextTold ==
    ASSUME RequestTypeOK, Told, [RequestNext]_allVars
    PROVE  Told'
  <1>1. ASSUME NEW t \in Tx
        PROVE  /\ answer'[t] = "none" => phase'[t] # "discarded" /\ t \notin pool'
               /\ answer'[t] = "error" => /\ phase'[t] \in {"discarded", "failed", "done"}
                                          /\ t \notin pool'
               /\ answer'[t] = "result" => phase'[t] = "unsigned" /\ t \notin pool'
               /\ answer'[t] = "hash" => phase'[t] = "done" /\ t \in pool'
    <2>1. /\ answer[t] = "none" => phase[t] # "discarded" /\ t \notin pool
          /\ answer[t] = "error" => phase[t] \in {"discarded", "failed", "done"} /\ t \notin pool
          /\ answer[t] = "result" => phase[t] = "unsigned" /\ t \notin pool
          /\ answer[t] = "hash" => phase[t] = "done" /\ t \in pool
      BY Zenon DEF Told
    <2>2. answer[t] \in Answers
      BY DEF RequestTypeOK
    <2>3. answer[t] # "none" => phase'[t] = phase[t]
      <3>1. answer[t] # "none" => Settled(t)
        BY <2>1, <2>2 DEF Settled, Answers
      <3>2. TypeOK /\ [Next]_vars
        BY StepRefines, Zenon DEF RequestTypeOK
      <3>3. QED
        BY <3>1, <3>2, SettledIsQuiet, Zenon DEF Quiet
    <2>4. CASE /\ answer'[t] = answer[t] /\ (t \in pool' <=> t \in pool)
               /\ phase'[t] = "discarded" => phase[t] = "discarded"
      BY <2>1, <2>3, <2>4, Zenon
    <2>5. CASE /\ answer[t] = "none" /\ answer'[t] = "error" /\ pool' = pool
               /\ phase'[t] \in {"discarded", "failed", "done"}
      BY <2>1, <2>5
    <2>6. CASE /\ answer[t] = "none" /\ answer'[t] = "result" /\ pool' = pool
               /\ phase'[t] = "unsigned"
      BY <2>1, <2>6, Zenon
    <2>7. CASE /\ answer[t] = "none" /\ answer'[t] = "hash" /\ pool' = pool \union {t}
               /\ phase'[t] = "done"
      BY <2>1, <2>7
    <2>8. QED
      BY <2>4, <2>5, <2>6, <2>7, AnswerFrame, Zenon
  <1>2. QED
    BY <1>1, Zenon DEF Told

\* It holds of every request from the start.
LEMMA ToldInvariance == RequestSpec => []Told
  <1>1. RequestInit => Told
    BY DEF RequestInit, Init, Told
  <1>2. QED
    BY <1>1, NextTold, RequestTypeCorrect, PTL DEF RequestSpec

\* What is left of an unsigned request: Finalize ran to the end of its loops.
UnsignedComplete ==
    \A t \in Tx : phase[t] = "unsigned" =>
        t \notin Signed /\ toInit[t] = {} /\ applied[t] = Len(pendingWrites[t])

\* Only the end of Finalize makes a request one of these.
LEMMA NextUnsignedComplete ==
    ASSUME TypeOK, UnsignedComplete, [Next]_vars
    PROVE  UnsignedComplete'
  <1> SUFFICES ASSUME NEW t \in Tx, phase'[t] = "unsigned"
               PROVE  t \notin Signed /\ toInit'[t] = {} /\ applied'[t] = Len(pendingWrites'[t])
    BY Zenon DEF UnsignedComplete
  <1>1. CASE phase[t] = "unsigned"
    <2>1. Quiet(t)
      BY <1>1, SettledIsQuiet DEF Settled
    <2>2. QED
      BY <1>1, <2>1, Zenon DEF Quiet, UnsignedComplete
  <1>2. CASE phase[t] # "unsigned"
    <2>1. FinalizePublish(t)
      BY <1>2, ZenonT(40) DEF TypeOK, Next, FinalizeStep, vars, txVars, InitializeBid, Store,
        Discard, Finalize, FinalizeFails, FinalizePublish, FinalizeBid, FinalizeWrite,
        FinalizeBidPresent
    <2>2. /\ toInit[t] = {} /\ toInit' = toInit /\ applied[t] = Len(pendingWrites[t])
          /\ applied' = applied /\ pendingWrites' = pendingWrites
      BY <2>1, Zenon DEF FinalizePublish
    <2>3. t \notin Signed
      <3>1. phase'[t] = IF t \in Signed THEN "done" ELSE "unsigned"
        BY <2>1, Zenon DEF FinalizePublish, TypeOK
      <3>2. QED
        BY <3>1
    <2>4. QED
      BY <2>2, <2>3, Zenon
  <1>3. QED
    BY <1>1, <1>2, Zenon

\* What an answer tells: a hash, that the result is in the pool, and only then; a
\* result, that the request was unsigned, that the store has its bids as its own,
\* that each of its writes was applied and that no other node was told; an error,
\* that nothing went to the pool.  And a request that was thrown away is never left
\* unanswered.
AnswerTells ==
    \A t \in Tx :
        /\ answer[t] = "hash" <=> t \in pool
        /\ answer[t] = "result" =>
            /\ t \notin Signed /\ t \notin published
            /\ \A b \in pendingBids[t] : bids[b] = t
            /\ applied[t] = Len(pendingWrites[t])
        /\ phase[t] = "discarded" => answer[t] = "error"

\* The caller of SendRawTransaction or DoCall can rely on what it was answered,
\* however the requests of other callers interleave with its own.
THEOREM AnswersAreTrue == RequestSpec => []AnswerTells
  <1>1. UnsignedComplete /\ TypeOK /\ [Next]_vars => UnsignedComplete'
    BY NextUnsignedComplete, Zenon
  <1>2. RequestInit => UnsignedComplete
    BY DEF RequestInit, Init, UnsignedComplete
  <1>3. RequestTypeOK => TypeOK
    BY Zenon DEF RequestTypeOK
  <1>4. RequestSpec => []UnsignedComplete
    BY <1>1, <1>2, <1>3, StepRefines, RequestTypeCorrect, PTL DEF RequestSpec
  <1>5. ASSUME Told, UnsignedComplete, IInv, RequestTypeOK PROVE AnswerTells
    <2>1. ASSUME NEW t \in Tx
          PROVE  /\ answer[t] = "hash" <=> t \in pool
                 /\ phase[t] = "discarded" => answer[t] = "error"
      <3>1. answer[t] \in Answers
        BY <1>5 DEF RequestTypeOK
      <3>2. QED
        BY <1>5, <3>1 DEF Told, Answers
    <2>2. ASSUME NEW t \in Tx, answer[t] = "result"
          PROVE  /\ t \notin Signed /\ t \notin published
                 /\ \A b \in pendingBids[t] : bids[b] = t
                 /\ applied[t] = Len(pendingWrites[t])
      <3>1. phase[t] = "unsigned"
        BY <1>5, <2>2, Zenon DEF Told
      <3>2. t \notin Signed /\ toInit[t] = {} /\ applied[t] = Len(pendingWrites[t])
        BY <1>5, <3>1, Zenon DEF UnsignedComplete
      <3>3. /\ t \in published => phase[t] = "done"
            /\ phase[t] \notin {"open", "discarded"} =>
                \A b \in pendingBids[t] \ toInit[t] : bids[b] = t
        BY <1>5, Zenon DEF IInv, Progress
      <3>4. QED
        BY <3>1, <3>2, <3>3
    <2>3. QED
      BY <2>1, <2>2, Zenon DEF AnswerTells
  <1>6. QED
    BY <1>4, <1>5, ToldInvariance, StoreInvariant, RequestTypeCorrect, PTL

\* An answer is the last thing that happens to a request: from then on no step of
\* any request changes the answer, the request's place in the pool, its pending
\* bids and writes, how far its Finalize came or what was published of it (the
\* part of Answered that says no answer is taken back).
THEOREM AnswerIsFinal ==
    RequestSpec => [][\A t \in Tx : answer[t] # "none" =>
                        /\ answer'[t] = answer[t] /\ (t \in pool' <=> t \in pool)
                        /\ Quiet(t)]_allVars
  <1>1. ASSUME Told, RequestTypeOK, [RequestNext]_allVars, NEW t \in Tx, answer[t] # "none"
        PROVE  /\ answer'[t] = answer[t] /\ (t \in pool' <=> t \in pool)
               /\ Quiet(t)
    <2>1. answer[t] \in Answers
      BY <1>1 DEF RequestTypeOK
    <2>2. Settled(t)
      BY <1>1, <2>1 DEF Told, Settled, Answers
    <2>3. TypeOK /\ [Next]_vars
      BY <1>1, StepRefines, Zenon DEF RequestTypeOK
    <2>4. QED
      BY <1>1, <2>2, <2>3, SettledIsQuiet, AnswerFrame, Zenon
  <1>2. Told /\ RequestTypeOK /\ [RequestNext]_allVars =>
            [\A t \in Tx : answer[t] # "none" =>
                /\ answer'[t] = answer[t] /\ (t \in pool' <=> t \in pool)
                /\ Quiet(t)]_allVars
    BY <1>1, Zenon
  <1>3. QED
    BY <1>2, ToldInvariance, RequestTypeCorrect, PTL DEF RequestSpec
=============================================================================
