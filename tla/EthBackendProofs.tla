--------------------------- MODULE EthBackendProofs ---------------------------
(***************************************************************************)
(* Proofs about the calls of EthBackend, for any number of them at a time: *)
(* the client they share and the blocks they get; and about the blocks     *)
(* that BlockBuilder makes, for any bundles.                               *)
(***************************************************************************)
EXTENDS EthBackend, WellFoundedInduction, TLAPS

-----------------------------------------------------------------------------
(***************************************************************************)
(* The client that the calls share.                                        *)
(***************************************************************************)

Typed ==
    /\ client \in MaybeClient
    /\ dialed \subseteq Caller /\ closed \subseteq dialed
    /\ pc \in [Caller -> Steps]
    /\ used \in [Caller -> MaybeClient]
    /\ mine \in [Caller -> MaybeClient]
    /\ result \in [Caller -> Results]
    /\ met \in [Caller -> SUBSET Caller]

\* What is known of a call from the step it is at.
CallSoFar ==
    \A c \in Caller :
        /\ pc[c] # "done" => result[c] = "none"
        /\ pc[c] \in {"idle", "check", "dial", "assign", "use"} => used[c] = None
        /\ pc[c] \in {"wait", "read", "clear", "close"} => used[c] # None
        /\ pc[c] \in {"idle", "check", "dial"} => c \notin dialed

\* Only the caller that dialed a client knows it until it is put into the shared
\* pointer, and who resets that pointer, or failed earlier, has made it lead to
\* another client.
Ownership ==
    /\ PublishedIsOpen
    /\ \A c \in Caller :
        /\ used[c] # None => used[c] \in dialed
        /\ mine[c] # None => mine[c] \in dialed
        /\ pc[c] = "assign" =>
            /\ c \in dialed \ closed /\ client # c
            /\ \A d \in Caller : used[d] # c /\ mine[d] # c
        /\ pc[c] = "close" => client # used[c]
        /\ pc[c] = "close" /\ mine[c] # None => client # mine[c]
    /\ DropsFailed

\* Calls that run at the same time have met.
Met == \A c, d \in Caller : c # d /\ Active(c) /\ Active(d) => d \in met[c]

\* A call that finds, or will find, the pointer to be nil.
MeetsNil(c) ==
    \/ pc[c] \in {"use", "wait", "read"} /\ client = None
    \/ pc[c] \in {"clear", "close"} /\ mine[c] = None
    \/ result[c] = "panic"

NilNeedsFailure ==
    \A c \in Caller : MeetsNil(c) => \E d \in met[c] \ {c} : HasCleared(d)

\* A call that will take the client out of the pointer without closing it.
WillLeak(c) ==
    /\ client # None
    /\ \/ pc[c] \in {"dial", "assign"}
       \/ pc[c] = "clear" /\ mine[c] # client

LeakNeedsMeeting ==
    /\ \A c \in Caller : WillLeak(c) => met[client] # {}
    /\ LeakNeedsOverlap

IInv == Typed /\ CallSoFar /\ Ownership /\ Met /\ NilNeedsFailure /\ LeakNeedsMeeting
-----------------------------------------------------------------------------
\* The step of one call.
Step(c) ==
    \/ \E r \in Asks[c] : Begin(c, r)
    \/ Check(c) \/ Dial(c) \/ DialFails(c) \/ Assign(c) \/ Use(c)
    \/ Answer(c) \/ AnswerError(c) \/ Fail(c)
    \/ Read(c) \/ Clear(c) \/ Close(c)

\* Nobody has made a call yet.
LEMMA InitInv == Init => IInv
BY BackendConstants
   DEF Init, IInv, Typed, CallSoFar, Ownership, Met, NilNeedsFailure, LeakNeedsMeeting,
       PublishedIsOpen, DropsFailed, Active, MeetsNil, HasCleared, WillLeak, LeakNeedsOverlap,
       Holds, MaybeClient, Steps, Results

\* The variables keep their types.
LEMMA TypedInv ==
    ASSUME IInv, NEW c \in Caller, Step(c)
    PROVE  Typed'
<1> USE DEF IInv, Typed, Ownership, GoTo, Return, MaybeClient, Steps, Results
<1>1. ASSUME NEW r \in Asks[c], Begin(c, r) PROVE Typed'
  BY <1>1 DEF Begin
<1>2. CASE Check(c) \/ Dial(c) \/ DialFails(c) \/ Assign(c) \/ Use(c)
  BY <1>2 DEF Check, Dial, DialFails, Assign, Use
<1>3. CASE Answer(c)
  BY <1>3 DEF Answer, Outcome
<1>4. CASE AnswerError(c) \/ Fail(c)
  BY <1>4 DEF AnswerError, Fail
<1>5. CASE Read(c) \/ Clear(c) \/ Close(c)
  BY <1>5 DEF Read, Clear, Close
<1> HIDE DEF IInv, Typed, Ownership
<1> QED
  BY <1>1, <1>2, <1>3, <1>4, <1>5 DEF Step

\* What the step of a call says about it stays true.
LEMMA CallSoFarInv ==
    ASSUME IInv, NEW c \in Caller, Step(c)
    PROVE  CallSoFar'
<1> USE BackendConstants DEF IInv, Typed, CallSoFar, GoTo, Return, MaybeClient, Steps
<1>1. ASSUME NEW r \in Asks[c], Begin(c, r) PROVE CallSoFar'
  BY <1>1 DEF Begin
<1>2. CASE Check(c) \/ Dial(c) \/ DialFails(c) \/ Assign(c) \/ Use(c)
  BY <1>2 DEF Check, Dial, DialFails, Assign, Use
<1>3. CASE Answer(c)
  BY <1>3 DEF Answer
<1>4. CASE AnswerError(c) \/ Fail(c)
  BY <1>4 DEF AnswerError, Fail
<1>5. CASE Read(c) \/ Clear(c) \/ Close(c)
  BY <1>5 DEF Read, Clear, Close
<1> HIDE DEF IInv, Typed, CallSoFar
<1> QED
  BY <1>1, <1>2, <1>3, <1>4, <1>5 DEF Step
-----------------------------------------------------------------------------
\* Who may know a client stays as it is.
LEMMA OwnershipInv ==
    ASSUME IInv, NEW c \in Caller, Step(c)
    PROVE  Ownership'
<1> USE BackendConstants
<1> USE DEF IInv, Typed, CallSoFar, Ownership, PublishedIsOpen, DropsFailed, GoTo, Return,
            MaybeClient, Steps
<1>1. ASSUME NEW r \in Asks[c], Begin(c, r) PROVE Ownership'
  <2>1. pc[c] = "idle" /\ UNCHANGED <<client, dialed, closed, used, mine>>
    BY <1>1 DEF Begin
  <2>2. \/ Return(c, "error")
        \/ GoTo(c, "check")
    BY <1>1 DEF Begin
  <2> QED
    BY <2>1, <2>2
<1>2. CASE Check(c) \/ DialFails(c)
  BY <1>2 DEF Check, DialFails
<1>3. CASE Dial(c)
  BY <1>3 DEF Dial
<1>4. CASE Assign(c)
  BY <1>4 DEF Assign
<1>5. CASE Use(c)
  BY <1>5 DEF Use
<1>6. CASE Answer(c)
  BY <1>6 DEF Answer, Outcome
<1>7. CASE AnswerError(c) \/ Fail(c)
  BY <1>7 DEF AnswerError, Fail
<1>8. CASE Read(c)
  BY <1>8 DEF Read
<1>9. CASE Clear(c)
  BY <1>9 DEF Clear
<1>10. CASE Close(c)
  BY <1>10 DEF Close
<1> HIDE DEF IInv, Ownership
<1> QED
  BY <1>1, <1>2, <1>3, <1>4, <1>5, <1>6, <1>7, <1>8, <1>9, <1>10 DEF Step

\* A call meets those that run when it begins, and those that begin while it runs.
LEMMA MetInv ==
    ASSUME IInv, NEW c \in Caller, Step(c)
    PROVE  Met'
<1> USE DEF IInv, Typed, Met, Active, GoTo, Return, Steps
<1>1. ASSUME NEW r \in Asks[c], Begin(c, r) PROVE Met'
  <2>1. CASE pc' = [pc EXCEPT ![c] = "done"] /\ UNCHANGED met
    BY <1>1, <2>1
  <2>2. CASE /\ pc' = [pc EXCEPT ![c] = "check"]
             /\ met' = [d \in Caller |->
                        IF d = c THEN {e \in Caller : Active(e)}
                        ELSE IF Active(d) THEN met[d] \union {c} ELSE met[d]]
    BY <1>1, <2>2
  <2> QED
    BY <1>1, <2>1, <2>2 DEF Begin
<1>2. CASE Check(c) \/ Dial(c) \/ DialFails(c) \/ Assign(c) \/ Use(c)
  BY <1>2 DEF Check, Dial, DialFails, Assign, Use
<1>3. CASE Answer(c) \/ AnswerError(c) \/ Fail(c)
  BY <1>3 DEF Answer, AnswerError, Fail
<1>4. CASE Read(c) \/ Clear(c) \/ Close(c)
  BY <1>4 DEF Read, Clear, Close
<1> HIDE DEF IInv, Typed, Met
<1> QED
  BY <1>1, <1>2, <1>3, <1>4 DEF Step
-----------------------------------------------------------------------------
\* A call that has reset the pointer has done so for good.
LEMMA ClearedForGood ==
    ASSUME IInv, NEW c \in Caller, Step(c), NEW d \in Caller, HasCleared(d)
    PROVE  HasCleared(d)'
<1> USE DEF IInv, Typed, CallSoFar, HasCleared, GoTo, Return, Steps
<1>1. CASE c # d
  <2>1. pc'[d] = pc[d] /\ used'[d] = used[d] /\ result'[d] = result[d]
    BY <1>1 DEF Step, Begin, Check, Dial, DialFails, Assign, Use, Answer, AnswerError, Fail,
                Read, Clear, Close
  <2> HIDE DEF IInv
  <2> QED
    BY <2>1
<1>2. CASE c = d
  <2>1. pc[d] \in {"close", "done"}
    BY <1>2, Zenon
  <2>2. Close(d)
    BY <1>2, <2>1 DEF Step, Begin, Check, Dial, DialFails, Assign, Use, Answer, AnswerError,
                      Fail, Read, Clear, Close
  <2> QED
    BY <1>2, <2>2 DEF Close
<1> QED
  BY <1>1, <1>2

\* Whom a call has met is not forgotten.
LEMMA MetGrows ==
    ASSUME IInv, NEW c \in Caller, Step(c), NEW d \in Caller, pc[d] # "idle"
    PROVE  met[d] \subseteq met'[d]
<1> USE DEF IInv, Typed
<1>1. ASSUME NEW r \in Asks[c], Begin(c, r) PROVE met[d] \subseteq met'[d]
  BY <1>1 DEF Begin
<1>2. CASE UNCHANGED met
  BY <1>2
<1> HIDE DEF IInv, Typed
<1> QED
  BY <1>1, <1>2, Zenon
              DEF Step, Check, Dial, DialFails, Assign, Use, Answer, AnswerError, Fail,
                    Read, Clear, Close

\* A call that meets a nil pointer met it already, or the step is the reset by a
\* call that it has met.
LEMMA NilNeedsFailureInv ==
    ASSUME IInv, NEW c \in Caller, Step(c)
    PROVE  NilNeedsFailure'
<1> SUFFICES ASSUME NEW n \in Caller, MeetsNil(n)'
             PROVE  \E d \in met'[n] \ {n} : HasCleared(d)'
  BY DEF NilNeedsFailure
<1>1. CASE MeetsNil(n)
  <2>1. PICK d \in met[n] \ {n} : HasCleared(d)
    BY <1>1 DEF IInv, NilNeedsFailure
  <2>2. d \in Caller
    BY DEF IInv, Typed
  <2>3. HasCleared(d)'
    BY <2>1, <2>2, ClearedForGood
  <2>4. pc[n] # "idle"
    BY <1>1 DEF MeetsNil, IInv, CallSoFar
  <2>5. d \in met'[n]
    BY <2>4, MetGrows
  <2> QED
    BY <2>3, <2>5
<1>2. CASE ~MeetsNil(n)
  <2> USE DEF GoTo, Return, MeetsNil, IInv, Typed, CallSoFar, Steps
  <2>1. Clear(c) /\ n # c /\ pc[n] \in {"use", "wait", "read"}
    <3>1. ASSUME NEW r \in Asks[c], Begin(c, r) PROVE FALSE
      BY <1>2, <3>1 DEF Begin
    <3>2. ~ (Check(c) \/ Dial(c) \/ DialFails(c))
      BY <1>2 DEF Check, Dial, DialFails
    <3>3. ~ Assign(c)
      BY <1>2, BackendConstants DEF Assign
    <3>4. ~ Use(c)
      BY <1>2 DEF Use
    <3>5. ~ Answer(c)
      BY <1>2 DEF Answer, Outcome
    <3>6. ~ (AnswerError(c) \/ Fail(c))
      BY <1>2 DEF AnswerError, Fail
    <3>7. ~ Read(c)
      BY <1>2 DEF Read
    <3>8. ~ Close(c)
      BY <1>2, Zenon DEF Close
    <3>9. Clear(c)
      BY <3>1, <3>2, <3>3, <3>4, <3>5, <3>6, <3>7, <3>8 DEF Step
    <3> QED
      BY <1>2, <3>9 DEF Clear
  <2>2. c \in met[n]
    BY <2>1 DEF Clear, Met, Active
  <2>3. HasCleared(c)'
    BY <2>1 DEF Clear, HasCleared
  <2> QED
    BY <2>1, <2>2, <2>3 DEF Clear
<1> QED
  BY <1>1, <1>2
-----------------------------------------------------------------------------
\* A call that will leak the client met the caller that dialed it: at the moment
\* the one put the client in place, the other was under way.
LEMMA WillLeakInv ==
    ASSUME IInv, NEW c \in Caller, Step(c), NEW n \in Caller, WillLeak(n)'
    PROVE  met'[client'] # {}
<1> USE DEF GoTo, Return, IInv, Typed, CallSoFar, Steps, WillLeak, MaybeClient
<1>1. CASE Assign(c)
  <2>1. client' = c /\ n # c /\ Active(n) /\ Active(c) /\ UNCHANGED met
    BY <1>1 DEF Assign, Active
  <2> QED
    BY <2>1 DEF Met
<1>2. CASE ~ Assign(c)
  <2>1. WillLeak(n) /\ client' = client
    <3>1. ASSUME NEW r \in Asks[c], Begin(c, r) PROVE WillLeak(n) /\ client' = client
      BY <3>1 DEF Begin
    <3>2. CASE Check(c) \/ Dial(c) \/ DialFails(c) \/ Use(c)
      BY <3>2 DEF Check, Dial, DialFails, Use
    <3>3. CASE Answer(c) \/ AnswerError(c) \/ Fail(c)
      BY <3>3 DEF Answer, AnswerError, Fail
    <3>4. CASE Read(c) \/ Clear(c) \/ Close(c)
      BY <3>4 DEF Read, Clear, Close
    <3> QED
      BY <1>2, <3>1, <3>2, <3>3, <3>4 DEF Step
  <2>2. met[client] # {} /\ client \in Caller
    BY <2>1 DEF LeakNeedsMeeting
  <2>3. pc[client] # "idle"
    BY <2>1, <2>2, Zenon DEF Ownership, PublishedIsOpen
  <2> HIDE DEF IInv
  <2>4. met[client] \subseteq met'[client]
    BY <2>2, <2>3, MetGrows
  <2> QED
    BY <2>1, <2>2, <2>4
<1> QED
  BY <1>1, <1>2

\* What leads to a client goes on to do so, or the step is one that leaks it.
LEMMA LeakNeedsOverlapInv ==
    ASSUME IInv, NEW c \in Caller, Step(c)
    PROVE  LeakNeedsOverlap'
<1> SUFFICES ASSUME NEW x \in dialed' \ closed', client' # x,
                    \A h \in Caller : ~ Holds(h, x)'
             PROVE  met'[x] # {}
  BY DEF LeakNeedsOverlap
<1> USE DEF GoTo, Return, IInv, Typed, CallSoFar, Steps
<1>1. x \in Caller /\ x \in dialed \ closed
  <2>1. CASE Dial(c)
    BY <2>1 DEF Dial, Holds
  <2>2. CASE ~ Dial(c)
    BY <2>2, ZenonT(40)
       DEF Step, Begin, Check, Dial, DialFails, Assign, Use, Answer, AnswerError, Fail,
           Read, Clear, Close
  <2> QED
    BY <2>1, <2>2
<1>2. pc[x] # "idle"
  BY <1>1, Zenon
<1>3. met[x] \subseteq met'[x]
  BY <1>1, <1>2, MetGrows
<1>4. CASE client # x /\ \A h \in Caller : ~ Holds(h, x)
  BY <1>1, <1>3, <1>4 DEF LeakNeedsMeeting, LeakNeedsOverlap
<1>5. CASE client = x
  <2>1. WillLeak(c)
    BY <1>1, <1>5, BackendConstants
       DEF Step, Begin, Check, Dial, DialFails, Assign, Use, Answer, AnswerError, Fail,
           Read, Clear, Close, WillLeak, Holds
  <2> QED
    BY <1>3, <1>5, <2>1, Zenon DEF LeakNeedsMeeting
<1>6. ASSUME NEW h \in Caller, Holds(h, x) PROVE FALSE
  <2>1. h = c
    BY <1>6, ZenonT(40)
       DEF Step, Begin, Check, Dial, DialFails, Assign, Use, Answer, AnswerError, Fail,
           Read, Clear, Close, Holds
  <2>2. CASE Assign(c)
    BY <1>6, <2>1, <2>2 DEF Assign, Holds
  <2>3. CASE Clear(c)
    BY <1>6, <2>1, <2>3 DEF Clear, Holds
  <2>4. CASE Close(c)
    BY <1>1, <1>6, <2>1, <2>4, BackendConstants DEF Close, Holds
  <2> QED
    BY <1>6, <2>1, <2>2, <2>3, <2>4, ZenonT(40)
       DEF Step, Begin, Check, Dial, DialFails, Use, Answer, AnswerError, Fail, Read, Holds
<1> QED
  BY <1>4, <1>5, <1>6, Zenon

\* The invariant holds throughout.
LEMMA Invariance == Spec => []IInv
<1>1. ASSUME IInv, [Next]_vars PROVE IInv'
  <2>1. CASE UNCHANGED vars
    BY <1>1, <2>1
       DEF vars, callVars, IInv, Typed, CallSoFar, Ownership, Met, NilNeedsFailure,
           LeakNeedsMeeting, PublishedIsOpen, DropsFailed, Active, MeetsNil, HasCleared,
           WillLeak, LeakNeedsOverlap, Holds
  <2>2. ASSUME NEW c \in Caller, Step(c) PROVE IInv'
    <3>1. LeakNeedsMeeting'
      BY <1>1, <2>2, WillLeakInv, LeakNeedsOverlapInv DEF LeakNeedsMeeting
    <3> QED
      <4>1. Typed' /\ CallSoFar'
        BY <1>1, <2>2, TypedInv, CallSoFarInv, Zenon
      <4>2. Ownership' /\ Met' /\ NilNeedsFailure'
        BY <1>1, <2>2, OwnershipInv, MetInv, NilNeedsFailureInv, Zenon
      <4> QED
        BY <3>1, <4>1, <4>2 DEF IInv
  <2> QED
    BY <1>1, <2>1, <2>2, Zenon DEF Next, Step
<1> QED
  BY <1>1, InitInv, PTL DEF Spec
-----------------------------------------------------------------------------
\* However many calls interleave their unlocked accesses to e.client
\* (RemoteEthBackend.call), the pointer leads to an open client or to none.
THEOREM ClientIsOpen == Spec => []PublishedIsOpen
<1>1. IInv => PublishedIsOpen
  BY DEF IInv, Ownership
<1> QED
  BY <1>1, Invariance, PTL

\* The client on which a call failed is out of use when the call returns.
THEOREM FailedIsDropped == Spec => []DropsFailed
<1>1. IInv => DropsFailed
  BY DEF IInv, Ownership
<1> QED
  BY <1>1, Invariance, PTL

\* call meets a nil client only if another call that it overlapped has failed.
THEOREM PanicAfterFailure == Spec => []PanicNeedsFailure
<1>1. IInv => PanicNeedsFailure
  BY DEF IInv, NilNeedsFailure, MeetsNil, PanicNeedsFailure
<1> QED
  BY <1>1, Invariance, PTL

\* A client that is never closed was dialed by a call that overlapped another.
THEOREM LeakAfterOverlap == Spec => []LeakNeedsOverlap
<1>1. IInv => LeakNeedsOverlap
  BY DEF IInv, LeakNeedsMeeting
<1> QED
  BY <1>1, Invariance, PTL
-----------------------------------------------------------------------------
(***************************************************************************)
(* The requests and the answers of the calls.                              *)
(***************************************************************************)

\* A request that gets as far as the call.
Sendable(r) == r \in Request /\ (r.op = "build" => CanMerge(r.bid))

\* A call asks for what its contract may ask for, it is sent only with all its
\* bundles, and the block it gets is the one that answers its own request.
Answered ==
    /\ DOMAIN request = Caller /\ DOMAIN block = Caller
    /\ \A c \in Caller :
        /\ pc[c] # "idle" => request[c] \in Asks[c]
        /\ Active(c) => Sendable(request[c])
        /\ block[c] # None =>
            /\ pc[c] # "idle" /\ Sendable(request[c])
            /\ block[c] = Serve(request[c])

\* Each step of a call keeps its request and its block together.
LEMMA AnsweredInv ==
    ASSUME IInv, Answered, NEW c \in Caller, Step(c)
    PROVE  Answered'
<1> USE DEF IInv, Typed, Answered, Active, GoTo, Return, Steps
<1>1. ASSUME NEW r \in Asks[c], Begin(c, r) PROVE Answered'
  <2>1. r \in Request
    <3> HIDE DEF IInv, Typed, Answered
    <3> QED
      BY BackendConstants
  <2> QED
    BY <1>1, <2>1, Zenon DEF Begin, Sendable
<1>2. CASE Check(c) \/ Dial(c) \/ DialFails(c) \/ Assign(c) \/ Use(c)
  BY <1>2, ZenonT(40) DEF Check, Dial, DialFails, Assign, Use
<1>3. CASE Answer(c)
  BY <1>3, Zenon DEF Answer
<1>4. CASE AnswerError(c) \/ Fail(c)
  BY <1>4, Zenon DEF AnswerError, Fail
<1>5. CASE Read(c) \/ Clear(c) \/ Close(c)
  BY <1>5 DEF Read, Clear, Close
<1> HIDE DEF IInv, Typed, Answered
<1> QED
  BY <1>1, <1>2, <1>3, <1>4, <1>5 DEF Step

\* It holds throughout.
LEMMA AnsweredHolds == Spec => [](IInv /\ Answered)
<1>1. Init => Answered
  BY DEF Init, Answered, Active
<1>2. ASSUME IInv, Answered, [Next]_vars PROVE Answered'
  <2>1. CASE UNCHANGED vars
    BY <1>2, <2>1 DEF vars, callVars, Answered, Active
  <2> QED
    BY <1>2, <2>1, AnsweredInv, Zenon DEF Next, Step
<1> QED
  BY <1>1, <1>2, Invariance, PTL DEF Spec

-----------------------------------------------------------------------------
(***************************************************************************)
(* Loops, sums and sequences.                                              *)
(***************************************************************************)

\* What holds at 0 and goes on from each number to the next holds up to N: a least
\* number at which it did not would have one before it.
LEMMA CountUp ==
    ASSUME NEW N \in Nat, NEW T, 0 \in T,
           \A i \in 0 .. N - 1 : i \in T => i + 1 \in T
    PROVE  \A i \in 0 .. N : i \in T
<1> SUFFICES ASSUME NEW k \in 0 .. N, k \notin T PROVE FALSE
  OBVIOUS
<1> DEFINE R == OpToRel(<, Nat)
           B == {i \in Nat : i <= N /\ i \notin T}
<1>1. IsWellFoundedOn(R, Nat)
  BY NatLessThanWellFounded, Zenon
<1>2. B \subseteq Nat /\ B # {}
  OBVIOUS
<1>3. \E x \in B : \A y \in B : ~ (<<y, x>> \in R)
  <2> HIDE DEF R, B
  <2> QED
    BY <1>1, <1>2, WFMin, Zenon
<1>4. PICK x \in B : \A y \in B : ~ (<<y, x>> \in R)
  BY <1>3, Zenon
<1>5. x # 0
  OBVIOUS
<1>6. x - 1 \in 0 .. N - 1 /\ x - 1 \in Nat
  BY <1>5
<1>7. x - 1 \notin T
  BY <1>6
<1>8. x - 1 \in B
  BY <1>6, <1>7
<1>9. <<x - 1, x>> \in R
  BY <1>6 DEF OpToRel
<1> QED
  BY <1>4, <1>8, <1>9, Zenon

\* f[i] is what a loop that starts with x has after i rounds.
Rounds(f, S, n, x, step) ==
    /\ f \in [0 .. n -> S] /\ f[0] = x
    /\ \A i \in 1 .. n : f[i] = step[i][f[i - 1]]

\* Every loop has a result.
LEMMA LoopEnds ==
    ASSUME NEW S, NEW n \in Nat, NEW x \in S, NEW step \in [1 .. n -> [S -> S]]
    PROVE  \E f : Rounds(f, S, n, x, step)
<1> DEFINE T == {i \in 0 .. n : \E f : Rounds(f, S, i, x, step)}
<1>1. 0 \in T
  <2>1. Rounds([i \in 0 .. 0 |-> x], S, 0, x, step)
    BY DEF Rounds
  <2> QED
    BY <2>1
<1>2. ASSUME NEW k \in 0 .. n - 1, k \in T
      PROVE  k + 1 \in T
  <2>1. PICK f : Rounds(f, S, k, x, step)
    BY <1>2
  <2> DEFINE g == [i \in 0 .. k + 1 |-> IF i = k + 1 THEN step[k + 1][f[k]] ELSE f[i]]
  <2>2. k + 1 \in 1 .. n /\ f[k] \in S
    BY <2>1 DEF Rounds
  <2>3. step[k + 1][f[k]] \in S
    BY <2>2
  <2>4. g \in [0 .. k + 1 -> S] /\ g[0] = x
    BY <2>1, <2>3 DEF Rounds
  <2>5. \A i \in 1 .. k + 1 : g[i] = step[i][g[i - 1]]
    BY <2>1 DEF Rounds
  <2>6. Rounds(g, S, k + 1, x, step)
    BY <2>4, <2>5, Zenon DEF Rounds
  <2> QED
    BY <2>2, <2>6
<1>3. \A i \in 0 .. n : i \in T
  <2> HIDE DEF T
  <2> QED
    BY <1>1, <1>2, CountUp, Zenon
<1> QED
  BY <1>3

\* The partial sums that Sum computes.
LEMMA SumUpTo ==
    ASSUME NEW n \in Nat, NEW s \in [1 .. n -> Int]
    PROVE  \E f : /\ f \in [0 .. n -> Int] /\ f[0] = 0
                  /\ \A i \in 1 .. n : f[i] = f[i - 1] + s[i]
                  /\ Sum(s) = f[n]
<1> DEFINE upTo[i \in 0 .. Len(s)] == IF i = 0 THEN 0 ELSE upTo[i - 1] + s[i]
           step == [i \in 1 .. n |-> [x \in Int |-> x + s[i]]]
<1>1. Len(s) = n
  OBVIOUS
<1>2. Sum(s) = upTo[Len(s)]
  BY DEF Sum
<1>3. step \in [1 .. n -> [Int -> Int]] /\ 0 \in Int
  OBVIOUS
<1>4. PICK f : Rounds(f, Int, n, 0, step)
  <2> HIDE DEF step
  <2> QED
    BY <1>3, LoopEnds, Zenon
<1>5. ASSUME NEW i \in 1 .. n
      PROVE  f[i] = f[i - 1] + s[i]
  <2>1. f[i - 1] \in Int /\ f[i] = step[i][f[i - 1]]
    <3> HIDE DEF step, upTo
    <3> QED
      BY <1>4 DEF Rounds
  <2> QED
    BY <2>1
<1>6. f = [i \in 0 .. n |-> IF i = 0 THEN 0 ELSE f[i - 1] + s[i]]
  BY <1>4, <1>5 DEF Rounds
<1>7. upTo = [i \in 0 .. n |-> IF i = 0 THEN 0 ELSE upTo[i - 1] + s[i]]
  BY <1>1, <1>6, Zenon
<1> HIDE DEF upTo
<1> DEFINE T == {i \in 0 .. n : upTo[i] \in Int}
<1>8. 0 \in T
  BY <1>7
<1>9. \A i \in 0 .. n - 1 : i \in T => i + 1 \in T
  BY <1>7
<1>10. \A i \in 0 .. n : i \in T
  <2> HIDE DEF T
  <2> QED BY <1>8, <1>9, CountUp, Zenon
<1>11. upTo \in [0 .. n -> Int]
  BY <1>7, <1>10
<1>12. upTo[0] = 0 /\ \A i \in 1 .. n : upTo[i] = upTo[i - 1] + s[i]
  BY <1>7
<1> QED
  BY <1>1, <1>2, <1>11, <1>12, Zenon

\* One summand more.
LEMMA SumNext ==
    ASSUME NEW n \in Nat, NEW s \in [1 .. n -> Int], NEW t \in [1 .. n + 1 -> Int],
           \A i \in 1 .. n : t[i] = s[i]
    PROVE  Sum(t) = Sum(s) + t[n + 1] /\ Sum(s) \in Int
<1>1. PICK f : /\ f \in [0 .. n -> Int] /\ f[0] = 0
               /\ \A i \in 1 .. n : f[i] = f[i - 1] + s[i]
               /\ Sum(s) = f[n]
  BY SumUpTo, Zenon
<1>2. PICK g : /\ g \in [0 .. n + 1 -> Int] /\ g[0] = 0
               /\ \A i \in 1 .. n + 1 : g[i] = g[i - 1] + t[i]
               /\ Sum(t) = g[n + 1]
  <2>1. n + 1 \in Nat
    OBVIOUS
  <2> QED
    BY <2>1, SumUpTo, Zenon
<1> DEFINE T == {i \in 0 .. n : f[i] = g[i]}
<1>3. 0 \in T
  BY <1>1, <1>2
<1>4. \A i \in 0 .. n - 1 : i \in T => i + 1 \in T
  BY <1>1, <1>2
<1>5. \A i \in 0 .. n : i \in T
  <2> HIDE DEF T
  <2> QED
    BY <1>3, <1>4, CountUp, Zenon
<1>6. f[n] = g[n]
  BY <1>5
<1> QED
  BY <1>1, <1>2, <1>6

\* Nothing to add.
LEMMA SumEmpty == Sum(<<>>) = 0
<1>1. <<>> \in [1 .. 0 -> Int]
  OBVIOUS
<1> QED
  BY <1>1, SumUpTo, Zenon

\* A sum is a number.
LEMMA SumInt ==
    ASSUME NEW n \in Nat, NEW s \in [1 .. n -> Int]
    PROVE  Sum(s) \in Int
BY SumUpTo

\* Nothing but zeros.
LEMMA SumZero ==
    ASSUME NEW n \in Nat, NEW s \in [1 .. n -> {0}]
    PROVE  Sum(s) = 0
<1>1. s \in [1 .. n -> Int]
  OBVIOUS
<1>2. PICK f : /\ f \in [0 .. n -> Int] /\ f[0] = 0
               /\ \A i \in 1 .. n : f[i] = f[i - 1] + s[i]
               /\ Sum(s) = f[n]
  BY <1>1, SumUpTo, Zenon
<1> DEFINE T == {i \in 0 .. n : f[i] = 0}
<1>3. 0 \in T
  BY <1>2
<1>4. \A i \in 0 .. n - 1 : i \in T => i + 1 \in T
  BY <1>2
<1>5. \A i \in 0 .. n : i \in T
  <2> HIDE DEF T
  <2> QED
    BY <1>3, <1>4, CountUp, Zenon
<1> QED
  BY <1>2, <1>5

\* One element more.
LEMMA AppendIs ==
    ASSUME NEW S, NEW n \in Nat, NEW s \in [1 .. n -> S], NEW t \in [1 .. n + 1 -> S],
           \A i \in 1 .. n : t[i] = s[i]
    PROVE  s \in Seq(S) /\ t = Append(s, t[n + 1])
<1> DEFINE x == t[n + 1]
<1>1. s \in Seq(S) /\ Len(s) = n /\ x \in S
  OBVIOUS
<1>2. /\ Append(s, x) \in [1 .. n + 1 -> S]
      /\ \A i \in 1 .. n : Append(s, x)[i] = s[i]
      /\ Append(s, x)[n + 1] = x
  <2> HIDE DEF x
  <2>1. /\ Append(s, x) \in Seq(S) /\ Len(Append(s, x)) = n + 1
        /\ \A i \in 1 .. n : Append(s, x)[i] = s[i]
        /\ Append(s, x)[n + 1] = x
    BY <1>1
  <2>2. \A u \in Seq(S) : u \in [1 .. Len(u) -> S]
    OBVIOUS
  <2> QED
    BY <2>1, <2>2, Zenon
<1>3. \A i \in 1 .. n + 1 : Append(s, x)[i] = t[i]
  BY <1>2
<1> HIDE DEF x
<1>4. Append(s, x) = t
  BY <1>2, <1>3
<1> QED
  BY <1>1, <1>4 DEF x

\* Two sequences in one.
LEMMA ConcatIs ==
    ASSUME NEW S, NEW s \in Seq(S), NEW t \in Seq(S)
    PROVE  /\ s \o t \in Seq(S) /\ Len(s \o t) = Len(s) + Len(t)
           /\ s \o t = [i \in 1 .. Len(s) + Len(t) |->
                            IF i <= Len(s) THEN s[i] ELSE t[i - Len(s)]]
<1> DEFINE u == s \o t
<1>1. u \in Seq(S) /\ Len(u) = Len(s) + Len(t)
  OBVIOUS
<1>2. \A i \in 1 .. Len(s) + Len(t) : u[i] = IF i <= Len(s) THEN s[i] ELSE t[i - Len(s)]
  OBVIOUS
<1> HIDE DEF u
<1>3. u = [i \in 1 .. Len(s) + Len(t) |-> u[i]]
  BY <1>1
<1>4. u = [i \in 1 .. Len(s) + Len(t) |-> IF i <= Len(s) THEN s[i] ELSE t[i - Len(s)]]
  BY <1>2, <1>3
<1> QED
  BY <1>1, <1>4 DEF u

\* Three sequences in one.
LEMMA ConcatThree ==
    ASSUME NEW S, NEW s \in Seq(S), NEW t \in Seq(S), NEW u \in Seq(S)
    PROVE  (s \o t) \o u = s \o (t \o u)
OBVIOUS

\* One more behind two sequences.
LEMMA AppendBehind ==
    ASSUME NEW S, NEW s \in Seq(S), NEW t \in Seq(S), NEW e \in S
    PROVE  Append(s \o t, e) = s \o (t \o <<e>>)
<1>1. <<e>> \in Seq(S) /\ s \o t \in Seq(S)
  OBVIOUS
<1>2. Append(s \o t, e) = (s \o t) \o <<e>>
  BY <1>1
<1> QED
  BY <1>1, <1>2, ConcatThree

\* Nothing behind a sequence.
LEMMA ConcatNone ==
    ASSUME NEW S, NEW s \in Seq(S)
    PROVE  s \o <<>> = s
OBVIOUS

-----------------------------------------------------------------------------
(***************************************************************************)
(* The entries of a block.                                                 *)
(***************************************************************************)

UserEntry == [tx : Tx, to : {None}, amount : {0}]
PaymentEntry == [tx : {None}, to : Tx \union {FeeRecipient}, amount : Int]
Entry == UserEntry \union PaymentEntry

\* A block in the making.
environment == [ok : BOOLEAN, pool : 0 .. GasLimit, txs : Seq(Entry), coin : Nat]

\* What an order says of an entry.
Slot == (Tx \X {None}) \union ({None} \X (Tx \union {FeeRecipient}))
SlotOf(e) == <<e.tx, e.to>>

SlotGas(slot) == IF slot[1] # None THEN Limit[slot[1]] ELSE PaymentGas

\* The entries of a block so far are the first of those asked for, and all of
\* them as long as there was gas; it fails only for a reason that the order
\* gives; gas and balance are accounted for.
Metered(env) == GasLimit - env.pool <= GasFor(Order(env))

Balanced(env) ==
    env.coin = Earned(env) - Paid(env) - Payments(env) * (TxGas * BaseFee)

\* No transaction that the chain refuses, and none twice.
Clean(env) ==
    /\ \A i \in DOMAIN env.txs : env.txs[i].tx \notin Invalid
    /\ \A i, j \in DOMAIN env.txs :
        IsUser(env.txs[i]) /\ env.txs[i].tx = env.txs[j].tx => i = j

Sound(env, order) ==
    /\ env \in environment /\ order \in Seq(Slot)
    /\ Len(env.txs) <= Len(order)
    /\ \A i \in DOMAIN env.txs : SlotOf(env.txs[i]) = order[i]
    /\ env.ok => Len(env.txs) = Len(order) \/ env.pool < TxGas
    /\ ~env.ok => Refusable(order)
    /\ Metered(env) /\ Balanced(env) /\ Clean(env)

\* The types among this.
LEMMA SoundTypes ==
    ASSUME NEW env, NEW order, Sound(env, order)
    PROVE  /\ env \in environment /\ env.ok \in BOOLEAN /\ env.pool \in 0 .. GasLimit
           /\ env.txs \in Seq(Entry) /\ env.coin \in Nat
           /\ order \in Seq(Slot) /\ Len(order) \in Nat
<1>1. env \in environment /\ order \in Seq(Slot)
  BY Zenon DEF Sound
<1> QED
  BY <1>1 DEF environment

\* An order with one entry more.
LEMMA GasForNext ==
    ASSUME NEW order \in Seq(Slot), NEW slot \in Slot
    PROVE  /\ GasFor(order) \in Int
           /\ SlotGas(slot) \in Nat
           /\ GasFor(Append(order, slot)) = GasFor(order) + SlotGas(slot)
<1> DEFINE n == Len(order)
           next == Append(order, slot)
           s == [i \in DOMAIN order |-> SlotGas(order[i])]
           t == [i \in DOMAIN next |-> SlotGas(next[i])]
<1>1. /\ n \in Nat /\ DOMAIN order = 1 .. n /\ DOMAIN next = 1 .. n + 1
      /\ \A i \in 1 .. n : next[i] = order[i] /\ order[i] \in Slot
      /\ next[n + 1] = slot
  OBVIOUS
<1>2. \A x \in Slot : SlotGas(x) \in Nat
  BY BuilderConstants DEF Slot, SlotGas, PaymentGas
<1>3. /\ s \in [1 .. n -> Int] /\ t \in [1 .. n + 1 -> Int]
      /\ \A i \in 1 .. n : t[i] = s[i]
      /\ t[n + 1] = SlotGas(slot)
  BY <1>1, <1>2
<1>4. GasFor(order) = Sum(s) /\ GasFor(next) = Sum(t)
  BY DEF GasFor, SlotGas
<1> HIDE DEF s, t, n, next
<1>5. Sum(t) = Sum(s) + t[n + 1] /\ Sum(s) \in Int
  BY <1>1, <1>3, SumNext, Zenon
<1> QED
  BY <1>2, <1>3, <1>4, <1>5 DEF next

\* A reason to refuse the first entries of an order is one to refuse it all.
LEMMA RefusableNext ==
    ASSUME NEW order \in Seq(Slot), NEW slot \in Slot, Refusable(order)
    PROVE  Refusable(Append(order, slot))
<1> DEFINE next == Append(order, slot)
<1>1. /\ DOMAIN order \subseteq DOMAIN next
      /\ \A i \in DOMAIN order : next[i] = order[i]
  OBVIOUS
<1>2. GasFor(order) > GasLimit => GasFor(next) > GasLimit
  BY GasForNext, BuilderConstants
<1> HIDE DEF next
<1>3. Refusable(next)
  BY <1>1, <1>2 DEF Refusable
<1> QED
  BY <1>3 DEF next

\* What an entry adds to the accounts of a block.
EntryTip(e) == IF IsUser(e) THEN Tip[e.tx] ELSE 0
EntryCount(e) == IF IsUser(e) THEN 0 ELSE 1

\* The numbers among the constants.
LEMMA Numbers == GasLimit \in Nat /\ BaseFee \in Nat
  BY BuilderConstants, Zenon

\* A payment and its gas, out of a balance that covers the most it may cost.
LEMMA PaymentGain ==
    ASSUME NEW amount \in Int, NEW cost \in Nat, NEW most \in Nat, NEW coin \in Nat,
           cost <= most, most + amount <= coin
    PROVE  /\ -(amount + cost) \in Int /\ coin + (-(amount + cost)) \in Nat
           /\ -(amount + cost) = 0 - amount - cost
  OBVIOUS

\* A block with one entry more.
LEMMA AccountsNext ==
    ASSUME NEW built, NEW next, NEW e \in Entry,
           built.txs \in Seq(Entry), next.txs = Append(built.txs, e)
    PROVE  /\ Paid(built) \in Int /\ Paid(next) = Paid(built) + e.amount
           /\ Earned(built) \in Int /\ Earned(next) = Earned(built) + EntryTip(e)
           /\ Payments(built) \in Int /\ Payments(next) = Payments(built) + EntryCount(e)
           /\ Order(built) \in Seq(Slot) /\ SlotOf(e) \in Slot
           /\ Order(next) = Append(Order(built), SlotOf(e))
<1> DEFINE n == Len(built.txs)
<1>1. /\ n \in Nat /\ DOMAIN built.txs = 1 .. n /\ DOMAIN next.txs = 1 .. n + 1
      /\ \A i \in 1 .. n : next.txs[i] = built.txs[i] /\ built.txs[i] \in Entry
      /\ next.txs[n + 1] = e
  OBVIOUS
<1>a. /\ n + 1 \in 1 .. n + 1 /\ \A i \in 1 .. n : i \in 1 .. n + 1
      /\ \A i \in 1 .. n + 1 : i \in 1 .. n \/ i = n + 1
  BY <1>1
<1>b. \A i \in 1 .. n + 1 : next.txs[i] \in Entry
  BY <1>1, <1>a, Zenon
<1>2. \A x \in Entry : /\ x.amount \in Int /\ EntryTip(x) \in Int /\ EntryCount(x) \in Int
                       /\ SlotOf(x) \in Slot
  BY BuilderConstants DEF Entry, UserEntry, PaymentEntry, EntryTip, EntryCount, IsUser,
                          Slot, SlotOf
<1> HIDE DEF n
<1>3. Paid(built) \in Int /\ Paid(next) = Paid(built) + e.amount
  <2> DEFINE s == [i \in DOMAIN built.txs |-> built.txs[i].amount]
             t == [i \in DOMAIN next.txs |-> next.txs[i].amount]
  <2>1. /\ s \in [1 .. n -> Int] /\ t \in [1 .. n + 1 -> Int]
        /\ \A i \in 1 .. n : t[i] = s[i]
        /\ t[n + 1] = e.amount
    BY <1>1, <1>2, <1>a, <1>b, Zenon
  <2>2. Paid(built) = Sum(s) /\ Paid(next) = Sum(t)
    BY DEF Paid
  <2> HIDE DEF s, t
  <2> QED
    BY <1>1, <2>1, <2>2, SumNext, Zenon
<1>4. Earned(built) \in Int /\ Earned(next) = Earned(built) + EntryTip(e)
  <2> DEFINE s == [i \in DOMAIN built.txs |-> EntryTip(built.txs[i])]
             t == [i \in DOMAIN next.txs |-> EntryTip(next.txs[i])]
  <2>1. /\ s \in [1 .. n -> Int] /\ t \in [1 .. n + 1 -> Int]
        /\ \A i \in 1 .. n : t[i] = s[i]
        /\ t[n + 1] = EntryTip(e)
    BY <1>1, <1>2, <1>a, <1>b, Zenon
  <2>2. Earned(built) = Sum(s) /\ Earned(next) = Sum(t)
    BY DEF Earned, EntryTip
  <2> HIDE DEF s, t
  <2> QED
    BY <1>1, <2>1, <2>2, SumNext, Zenon
<1>5. Payments(built) \in Int /\ Payments(next) = Payments(built) + EntryCount(e)
  <2> DEFINE s == [i \in DOMAIN built.txs |-> EntryCount(built.txs[i])]
             t == [i \in DOMAIN next.txs |-> EntryCount(next.txs[i])]
  <2>1. /\ s \in [1 .. n -> Int] /\ t \in [1 .. n + 1 -> Int]
        /\ \A i \in 1 .. n : t[i] = s[i]
        /\ t[n + 1] = EntryCount(e)
    BY <1>1, <1>2, <1>a, <1>b, Zenon
  <2>2. Payments(built) = Sum(s) /\ Payments(next) = Sum(t)
    BY DEF Payments, EntryCount
  <2> HIDE DEF s, t
  <2> QED
    BY <1>1, <2>1, <2>2, SumNext, Zenon
<1>6. Order(built) \in Seq(Slot) /\ Order(next) = Append(Order(built), SlotOf(e))
  <2>1. /\ Order(built) = [i \in 1 .. n |-> SlotOf(built.txs[i])]
        /\ Order(next) = [i \in 1 .. n + 1 |-> SlotOf(next.txs[i])]
    BY <1>1 DEF Order, SlotOf
  <2> DEFINE s == Order(built)
             t == Order(next)
  <2> HIDE DEF s, t
  <2>a. /\ s = [i \in 1 .. n |-> SlotOf(built.txs[i])]
        /\ t = [i \in 1 .. n + 1 |-> SlotOf(next.txs[i])]
    BY <2>1, Zenon DEF s, t
  <2>b. s \in [1 .. n -> Slot]
    BY <1>1, <1>2, <2>a, Zenon
  <2>c. t \in [1 .. n + 1 -> Slot]
    BY <1>2, <1>b, <2>a, Zenon
  <2>d. (\A i \in 1 .. n : t[i] = s[i]) /\ t[n + 1] = SlotOf(e)
    BY <1>1, <1>a, <2>a, Zenon
  <2>2. /\ Order(built) \in [1 .. n -> Slot] /\ Order(next) \in [1 .. n + 1 -> Slot]
        /\ \A i \in 1 .. n : Order(next)[i] = Order(built)[i]
        /\ Order(next)[n + 1] = SlotOf(e)
    BY <2>b, <2>c, <2>d, Zenon DEF s, t
  <2> QED
    BY <1>1, <2>2, AppendIs
<1> QED
  BY <1>2, <1>3, <1>4, <1>5, <1>6, Zenon

\* The account pays for the gas it sets aside, so that it is never overdrawn.
Funded(env, e) == IsUser(e) \/ PaymentGas * BaseFee + e.amount <= env.coin

\* What an entry takes from the gas pool and gives to the coinbase.
GasUsed(e) == IF IsUser(e) THEN Gas[e.tx] ELSE TxGas
Gain(e) == IF IsUser(e) THEN Tip[e.tx] ELSE -(e.amount + TxGas * BaseFee)

\* An entry that is not refused leaves gas and balance above zero.
LEMMA ApplyTyped ==
    ASSUME NEW env \in environment, NEW e \in Entry, ~Refused(env, e)
    PROVE  /\ Apply(env, e) \in environment
           /\ Apply(env, e).ok = env.ok
           /\ Apply(env, e).pool = env.pool - GasUsed(e)
           /\ Apply(env, e).txs = Append(env.txs, e)
           /\ Apply(env, e).coin = env.coin + Gain(e)
           /\ GasUsed(e) \in Nat /\ GasUsed(e) <= SlotGas(SlotOf(e))
           /\ Gain(e) \in Int /\ (IsUser(e) => Gain(e) \in Nat)
           /\ Gain(e) = EntryTip(e) - e.amount - EntryCount(e) * (TxGas * BaseFee)
<1> DEFINE next == Apply(env, e)
           spent == GasUsed(e)
           gain == Gain(e)
<1>1. /\ env.ok \in BOOLEAN /\ env.pool \in 0 .. GasLimit
      /\ env.txs \in Seq(Entry) /\ env.coin \in Nat
  BY DEF environment
<1>3. next = [ok |-> env.ok, pool |-> env.pool - spent, txs |-> Append(env.txs, e),
              coin |-> env.coin + gain]
  <2>1. next = [env EXCEPT !.txs = Append(@, e), !.pool = @ - spent, !.coin = @ + gain]
    BY DEF Apply, GasUsed, Gain
  <2>2. env = [ok |-> env.ok, pool |-> env.pool, txs |-> env.txs, coin |-> env.coin]
    BY <1>1 DEF environment
  <2> HIDE DEF spent, gain, next
  <2> QED
    BY <1>1, <2>1, <2>2, Zenon
<1>4. /\ spent \in Nat /\ spent <= env.pool /\ spent <= SlotGas(SlotOf(e))
      /\ gain \in Int /\ env.coin + gain \in Nat
      /\ gain = EntryTip(e) - e.amount - EntryCount(e) * (TxGas * BaseFee)
      /\ IsUser(e) => gain \in Nat
  <2>1. CASE IsUser(e)
    <3>1. e.tx \in Tx /\ e.tx # None /\ e.amount = 0
      BY <2>1, BuilderConstants DEF Entry, UserEntry, PaymentEntry, IsUser
    <3>2. Gas[e.tx] \in Nat /\ Limit[e.tx] \in Nat /\ Tip[e.tx] \in Nat /\ Gas[e.tx] <= Limit[e.tx]
      BY <3>1, BuilderConstants, Zenon
    <3>3. Limit[e.tx] <= env.pool
      BY <1>1, <2>1, <3>2 DEF Refused
    <3>4. /\ spent = Gas[e.tx] /\ SlotGas(SlotOf(e)) = Limit[e.tx] /\ gain = Tip[e.tx]
          /\ EntryTip(e) = Tip[e.tx] /\ EntryCount(e) = 0
      BY <2>1 DEF SlotGas, SlotOf, EntryTip, EntryCount, GasUsed, Gain, IsUser
    <3>5. TxGas * BaseFee \in Int
      BY Numbers DEF TxGas
    <3> HIDE DEF spent, gain
    <3>6. spent \in Nat /\ spent <= env.pool /\ spent <= SlotGas(SlotOf(e))
      BY <1>1, <3>2, <3>3, <3>4
    <3> QED
      BY <1>1, <3>1, <3>2, <3>4, <3>5, <3>6
  <2>2. CASE ~IsUser(e)
    <3>1. e.amount \in Int /\ e.tx = None
      BY <2>2, BuilderConstants DEF Entry, UserEntry, PaymentEntry, IsUser
    <3>2. PaymentGas <= env.pool /\ PaymentGas * BaseFee + e.amount <= env.coin
      BY <1>1, <2>2, <3>1, BuilderConstants DEF Refused, PaymentGas
    <3>3. /\ spent = TxGas /\ SlotGas(SlotOf(e)) = PaymentGas
          /\ EntryTip(e) = 0 /\ EntryCount(e) = 1 /\ gain = -(e.amount + TxGas * BaseFee)
      BY <2>2, <3>1 DEF SlotGas, SlotOf, EntryTip, EntryCount, GasUsed, Gain
    <3> HIDE DEF spent, gain
    <3>4. spent \in Nat /\ spent <= env.pool /\ spent <= SlotGas(SlotOf(e))
      <4>1. env.pool \in Nat /\ PaymentGas <= env.pool
        BY <1>1, <3>2
      <4> QED
        BY <3>3, <4>1 DEF TxGas, PaymentGas
    <3>5. /\ gain \in Int /\ env.coin + gain \in Nat
          /\ gain = EntryTip(e) - e.amount - EntryCount(e) * (TxGas * BaseFee)
      <4> DEFINE cost == TxGas * BaseFee
      <4>1. cost \in Nat /\ PaymentGas * BaseFee \in Nat /\ cost <= PaymentGas * BaseFee
        BY Numbers DEF TxGas, PaymentGas
      <4> DEFINE most == PaymentGas * BaseFee
      <4>2. /\ most + e.amount <= env.coin /\ EntryTip(e) = 0 /\ EntryCount(e) = 1
            /\ gain = -(e.amount + cost)
        BY <3>2, <3>3, Zenon
      <4> HIDE DEF cost, most
      <4>3. most \in Nat /\ cost \in Nat /\ cost <= most
        BY <4>1, Zenon DEF cost, most
      <4>a. EntryCount(e) * cost = cost
        BY <4>2, <4>3
      <4>4. /\ gain \in Int /\ env.coin + gain \in Nat
            /\ gain = EntryTip(e) - e.amount - EntryCount(e) * cost
        BY <1>1, <3>1, <4>2, <4>3, <4>a, PaymentGain, Zenon
      <4> QED
        BY <4>4, Zenon DEF cost
    <3> QED
      BY <2>2, <3>4, <3>5
  <2> QED
    BY <2>1, <2>2, Zenon
<1> HIDE DEF next, spent, gain
<1>5. /\ next.ok = env.ok /\ next.pool = env.pool - spent /\ next.coin = env.coin + gain
      /\ next.txs = Append(env.txs, e)
  BY <1>3
<1>6. next \in environment
  <2>1. env.pool - spent \in 0 .. GasLimit
    BY <1>1, <1>4, Numbers
  <2>2. Append(env.txs, e) \in Seq(Entry)
    BY <1>1
  <2> QED
    BY <1>1, <1>3, <1>4, <2>1, <2>2, Zenon DEF environment
<1> QED
  BY <1>4, <1>5, <1>6 DEF next, spent, gain

\* Every round of a loop keeps the types.
LEMMA CommitTyped ==
    ASSUME NEW env \in environment, NEW e \in Entry
    PROVE  commitTransaction(env, e) \in environment
BY ApplyTyped, Zenon DEF commitTransaction, environment

\* An entry that is not refused is neither invalid nor there already.
LEMMA ApplyClean ==
    ASSUME NEW env, env.txs \in Seq(Entry), Clean(env), NEW e \in Entry, ~Refused(env, e),
           NEW next, next.txs = Append(env.txs, e)
    PROVE  Clean(next)
<1> DEFINE n == Len(env.txs)
<1>1. /\ n \in Nat /\ DOMAIN env.txs = 1 .. n /\ DOMAIN next.txs = 1 .. n + 1
      /\ \A i \in 1 .. n : next.txs[i] = env.txs[i]
      /\ next.txs[n + 1] = e
  OBVIOUS
<1>2. e.tx \notin Invalid /\ (IsUser(e) => \A i \in 1 .. n : env.txs[i].tx # e.tx)
  <2>1. ~IsUser(e) => e.tx \notin Invalid
    BY BuilderConstants, Zenon DEF IsUser
  <2> QED
    BY <1>1, <2>1, Zenon DEF Refused
<1> HIDE DEF n
<1>3. \A i \in 1 .. n + 1 : i \in 1 .. n \/ i = n + 1
  BY <1>1
<1>4. \A i \in DOMAIN next.txs : next.txs[i].tx \notin Invalid
  BY <1>1, <1>2, <1>3, Zenon DEF Clean
<1>5. ASSUME NEW i \in 1 .. n + 1, NEW j \in 1 .. n + 1,
             IsUser(next.txs[i]), next.txs[i].tx = next.txs[j].tx
      PROVE  i = j
  <2>1. IsUser(next.txs[j])
    BY <1>5, Zenon DEF IsUser
  <2> QED
    BY <1>1, <1>2, <1>3, <1>5, <2>1, Zenon DEF Clean
<1> QED
  BY <1>1, <1>4, <1>5, Zenon DEF Clean

\* An entry that is not refused.
LEMMA ApplySound ==
    ASSUME NEW env, NEW order, Sound(env, order), NEW e \in Entry,
           env.ok, env.pool >= TxGas, ~Refused(env, e)
    PROVE  /\ Sound(Apply(env, e), Append(order, SlotOf(e)))
           /\ IsUser(e) => env.coin <= Apply(env, e).coin
<1> DEFINE next == Apply(env, e)
           spent == GasUsed(e)
           gain == Gain(e)
<1>1. /\ env \in environment /\ env.ok = TRUE /\ env.pool \in 0 .. GasLimit
      /\ env.txs \in Seq(Entry) /\ env.coin \in Nat
      /\ order \in Seq(Slot)
  BY SoundTypes, Zenon
<1>2. Len(env.txs) = Len(order) /\ \A i \in DOMAIN env.txs : SlotOf(env.txs[i]) = order[i]
  BY <1>1 DEF Sound, TxGas
<1>4. /\ spent \in Nat /\ spent <= SlotGas(SlotOf(e))
      /\ gain \in Int /\ (IsUser(e) => gain \in Nat)
      /\ gain = EntryTip(e) - e.amount - EntryCount(e) * (TxGas * BaseFee)
  BY <1>1, ApplyTyped
<1>5. /\ next.ok = TRUE /\ next.pool = env.pool - spent /\ next.coin = env.coin + gain
      /\ next.txs = Append(env.txs, e)
  BY <1>1, ApplyTyped
<1>6. next \in environment
  BY <1>1, ApplyTyped
<1> HIDE DEF next, spent, gain
<1> DEFINE slot == SlotOf(e)
           all == Append(order, slot)
<1>7. /\ Paid(env) \in Int /\ Paid(next) = Paid(env) + e.amount
      /\ Earned(env) \in Int /\ Earned(next) = Earned(env) + EntryTip(e)
      /\ Payments(env) \in Int /\ Payments(next) = Payments(env) + EntryCount(e)
      /\ Order(env) \in Seq(Slot) /\ slot \in Slot
      /\ Order(next) = Append(Order(env), slot)
  BY <1>1, <1>5, AccountsNext, Zenon
<1>a. slot \in Slot
  BY <1>7, Zenon
<1>8. all \in Seq(Slot) /\ Len(next.txs) = Len(all)
  BY <1>1, <1>2, <1>5, <1>a
<1>9. \A i \in DOMAIN next.txs : SlotOf(next.txs[i]) = all[i]
  <2> DEFINE n == Len(order)
  <2>1. /\ DOMAIN next.txs = 1 .. n + 1 /\ DOMAIN env.txs = 1 .. n
        /\ \A i \in 1 .. n : next.txs[i] = env.txs[i]
        /\ next.txs[n + 1] = e
    BY <1>1, <1>2, <1>5
  <2>2. (\A i \in 1 .. n : all[i] = order[i]) /\ all[n + 1] = slot
    BY <1>1, <1>a
  <2>3. \A i \in 1 .. n + 1 : i \in 1 .. n \/ i = n + 1
    BY <1>1
  <2> QED
    BY <1>2, <2>1, <2>2, <2>3, Zenon
<1>10. GasLimit - next.pool <= GasFor(Order(next))
  <2>1. /\ GasFor(Order(env)) \in Int /\ SlotGas(slot) \in Nat
        /\ GasFor(Order(next)) = GasFor(Order(env)) + SlotGas(slot)
    BY <1>7, GasForNext
  <2>2. GasLimit - env.pool <= GasFor(Order(env))
    BY Zenon DEF Sound, Metered
  <2> QED
    BY <1>1, <1>4, <1>5, <2>1, <2>2, Numbers
<1>11. next.coin = Earned(next) - Paid(next) - Payments(next) * (TxGas * BaseFee)
  <2>1. env.coin = Earned(env) - Paid(env) - Payments(env) * (TxGas * BaseFee)
    BY Zenon DEF Sound, Balanced
  <2> DEFINE cost == TxGas * BaseFee
  <2>2. cost \in Int
    BY Numbers DEF TxGas
  <2>3. EntryCount(e) \in Int /\ EntryTip(e) \in Int /\ e.amount \in Int
    BY BuilderConstants DEF Entry, UserEntry, PaymentEntry, EntryTip, EntryCount, IsUser
  <2>4. gain = EntryTip(e) - e.amount - EntryCount(e) * cost
    BY <1>4
  <2> HIDE DEF cost
  <2>5. Payments(next) * cost = Payments(env) * cost + EntryCount(e) * cost
    BY <1>7, <2>2, <2>3
  <2>6. Payments(env) * cost \in Int /\ EntryCount(e) * cost \in Int
    BY <1>7, <2>2, <2>3
  <2>7. env.coin = Earned(env) - Paid(env) - Payments(env) * cost
    BY <2>1 DEF cost
  <2>8. next.coin = Earned(next) - Paid(next) - Payments(next) * cost
    <3> DEFINE p == Payments(env) * cost
               q == EntryCount(e) * cost
               r == Payments(next) * cost
    <3>1. r = p + q /\ p \in Int /\ q \in Int
      BY <2>5, <2>6
    <3>2. env.coin = Earned(env) - Paid(env) - p /\ gain = EntryTip(e) - e.amount - q
      BY <2>4, <2>7
    <3> HIDE DEF p, q, r
    <3>3. /\ next.coin = env.coin + gain
          /\ Earned(env) \in Int /\ Earned(next) = Earned(env) + EntryTip(e)
          /\ Paid(env) \in Int /\ Paid(next) = Paid(env) + e.amount
      BY <1>5, <1>7
    <3>4. next.coin = Earned(next) - Paid(next) - r
      BY <2>3, <3>1, <3>2, <3>3
    <3> QED
      BY <3>4 DEF r
  <2> QED
    BY <2>8 DEF cost
<1>12. Sound(next, all)
  <2>1. Clean(env)
    BY Zenon DEF Sound
  <2>2. Clean(next)
    BY <1>1, <1>5, <2>1, ApplyClean, Zenon
  <2>3. Metered(next) /\ Balanced(next)
    BY <1>10, <1>11, Zenon DEF Metered, Balanced
  <2>4. Len(next.txs) <= Len(all)
    BY <1>8
  <2> HIDE DEF all
  <2> QED
    BY <1>5, <1>6, <1>8, <1>9, <2>2, <2>3, <2>4, Zenon DEF Sound
<1>13. IsUser(e) => env.coin <= next.coin
  BY <1>1, <1>4, <1>5
<1> QED
  BY <1>5, <1>12, <1>13 DEF next

\* One round of a loop, with an entry that the account can pay for.
LEMMA CommitSound ==
    ASSUME NEW env, NEW order, Sound(env, order), NEW e \in Entry, Funded(env, e)
    PROVE  /\ Sound(commitTransaction(env, e), Append(order, SlotOf(e)))
           /\ IsUser(e) => env.coin <= commitTransaction(env, e).coin
           /\ \/ Len(commitTransaction(env, e).txs) <= Len(order)
              \/ commitTransaction(env, e) = Apply(env, e)
<1> DEFINE next == commitTransaction(env, e)
           slot == SlotOf(e)
           all == Append(order, slot)
<1>1. /\ env \in environment /\ env.ok \in BOOLEAN /\ env.pool \in 0 .. GasLimit
      /\ env.txs \in Seq(Entry) /\ env.coin \in Nat
      /\ order \in Seq(Slot)
  BY SoundTypes, Zenon
<1>2. slot \in Slot
  BY DEF Entry, UserEntry, PaymentEntry, Slot, SlotOf
<1>3. /\ all \in Seq(Slot) /\ Len(all) = Len(order) + 1 /\ Len(order) \in Nat
      /\ \A i \in 1 .. Len(order) : all[i] = order[i]
      /\ all[Len(order) + 1] = slot
  BY <1>1, <1>2
<1>4. /\ Len(env.txs) <= Len(order) /\ Len(env.txs) \in Nat
      /\ \A i \in DOMAIN env.txs : SlotOf(env.txs[i]) = order[i] /\ i \in 1 .. Len(order)
  BY <1>1 DEF Sound
<1>5. CASE ~env.ok \/ env.pool < TxGas
  <2>1. next = env
    BY <1>5 DEF commitTransaction
  <2>2. ~env.ok => Refusable(all)
    BY <1>1, <1>2, RefusableNext, Zenon DEF Sound
  <2>3. /\ Len(env.txs) <= Len(all)
        /\ \A i \in DOMAIN env.txs : SlotOf(env.txs[i]) = all[i]
    <3>1. Len(env.txs) <= Len(order) + 1
      BY <1>3, <1>4
    <3> QED
      BY <1>3, <1>4, <3>1, Zenon
  <2>4. Sound(env, all)
    BY <1>3, <1>5, <2>2, <2>3, Zenon DEF Sound
  <2> QED
    BY <1>1, <1>4, <2>1, <2>4
<1>6. CASE env.ok /\ ~(env.pool < TxGas) /\ Refused(env, e)
  <2>1. next = [env EXCEPT !.ok = FALSE]
    BY <1>6 DEF commitTransaction
  <2>2. Len(env.txs) = Len(order)
    BY <1>6 DEF Sound
  <2>3. Refusable(all)
    <3>1. Order(env) = order
      <4>1. Order(env) = [i \in 1 .. Len(order) |-> SlotOf(env.txs[i])]
        BY <1>1, <2>2 DEF Order, SlotOf
      <4>2. \A i \in 1 .. Len(order) : Order(env)[i] = order[i]
        BY <1>1, <1>4, <2>2, <4>1
      <4>3. order = [i \in 1 .. Len(order) |-> order[i]]
        BY <1>1
      <4> QED
        BY <4>1, <4>2, <4>3
    <3>2. /\ GasFor(order) \in Int /\ SlotGas(slot) \in Nat
          /\ GasFor(all) = GasFor(order) + SlotGas(slot)
      BY <1>1, <1>2, GasForNext
    <3>3. GasLimit - env.pool <= GasFor(order)
      BY <3>1, Zenon DEF Sound, Metered
    <3>4. SlotGas(slot) > env.pool => GasFor(all) > GasLimit
      BY <1>1, <3>2, <3>3, Numbers
    <3>5. CASE IsUser(e)
      <4>1. e \in UserEntry /\ slot = <<e.tx, None>> /\ e.tx # None
        BY <3>5, BuilderConstants, Zenon DEF Entry, UserEntry, PaymentEntry, IsUser, SlotOf
      <4>2. CASE e.tx \in Invalid
        <5>1. Len(order) + 1 \in DOMAIN all
          BY <1>3
        <5>2. all[Len(order) + 1][1] = e.tx
          <6>1. <<e.tx, None>>[1] = e.tx
            OBVIOUS
          <6> QED
            BY <1>3, <4>1, <6>1, Zenon
        <5> QED
          BY <4>2, <5>1, <5>2, Zenon DEF Refusable
      <4>3. ASSUME NEW i \in DOMAIN env.txs, env.txs[i].tx = e.tx
            PROVE  Refusable(all)
        <5>1. env.txs[i] \in Entry
          BY <1>1
        <5>2. SlotOf(env.txs[i]) = slot
          BY <4>1, <4>3, <5>1 DEF Entry, UserEntry, PaymentEntry, SlotOf
        <5>3. all[i] = slot /\ i \in 1 .. Len(order)
          BY <1>3, <1>4, <5>2
        <5>4. /\ i \in DOMAIN all /\ Len(order) + 1 \in DOMAIN all
              /\ i # Len(order) + 1 /\ all[i][1] # None
          BY <1>3, <4>1, <5>3
        <5> QED
          BY <1>3, <5>3, <5>4, Zenon DEF Refusable
      <4>4. CASE Limit[e.tx] > env.pool
        <5>1. SlotGas(slot) = Limit[e.tx]
          BY <4>1 DEF SlotGas
        <5> QED
          BY <3>4, <4>4, <5>1 DEF Refusable
      <4> QED
        BY <1>6, <3>5, <4>2, <4>3, <4>4, Zenon DEF Refused
    <3>6. CASE ~IsUser(e)
      <4>1. e.tx = None /\ e.amount \in Int
        BY <3>6, BuilderConstants DEF Entry, UserEntry, PaymentEntry, IsUser
      <4>2. PaymentGas * BaseFee + e.amount <= env.coin
        BY <3>6, Zenon DEF Funded
      <4>3. ~(env.coin < PaymentGas * BaseFee + e.amount)
        BY <1>1, <4>1, <4>2, BuilderConstants DEF PaymentGas
      <4>4. PaymentGas > env.pool
        BY <1>6, <3>6, <4>3, Zenon DEF Refused
      <4>5. SlotGas(slot) = PaymentGas
        BY <4>1 DEF SlotGas, SlotOf
      <4> QED
        BY <3>4, <4>4, <4>5, Zenon DEF Refusable
    <3> QED
      BY <3>5, <3>6
  <2>4. /\ next \in environment /\ next.ok = FALSE /\ next.txs = env.txs
        /\ next.pool = env.pool /\ next.coin = env.coin
    BY <1>1, <2>1, Zenon DEF environment
  <2>5. /\ Order(next) = Order(env) /\ Earned(next) = Earned(env)
        /\ Paid(next) = Paid(env) /\ Payments(next) = Payments(env)
    BY <2>4, Zenon DEF Order, Earned, Paid, Payments
  <2>6. Sound(next, all)
    <3>1. Len(next.txs) <= Len(all) /\ \A i \in DOMAIN next.txs : SlotOf(next.txs[i]) = all[i]
      BY <1>3, <1>4, <2>4
    <3>2. Metered(next) /\ Balanced(next) /\ Clean(next)
      BY <2>4, <2>5, Zenon DEF Sound, Metered, Balanced, Clean
    <3> HIDE DEF next, all
    <3> QED
      BY <1>3, <2>3, <2>4, <3>1, <3>2, Zenon DEF Sound
  <2> QED
    BY <1>1, <1>4, <2>4, <2>6
<1>7. CASE env.ok /\ ~(env.pool < TxGas) /\ ~Refused(env, e)
  <2>1. next = Apply(env, e)
    BY <1>7 DEF commitTransaction
  <2>2. env.pool >= TxGas
    BY <1>1, <1>7 DEF TxGas
  <2> QED
    BY <1>7, <2>1, <2>2, ApplySound
<1> QED
  BY <1>1, <1>5, <1>6, <1>7

\* The entries of users.
LEMMA UserIsEntry ==
    ASSUME NEW t \in Tx
    PROVE  /\ User(t) \in Entry /\ IsUser(User(t))
           /\ SlotOf(User(t)) = <<t, None>>
BY BuilderConstants, Zenon DEF User, Entry, UserEntry, IsUser, SlotOf

\* The loop of rawCommitTransactions, round by round.
LEMMA RawRounds ==
    ASSUME NEW env \in environment, NEW txs \in Seq(Tx)
    PROVE  \E after : /\ after[0] = env
                      /\ \A i \in 1 .. Len(txs) :
                            after[i] = commitTransaction(after[i - 1], User(txs[i]))
                      /\ rawCommitTransactions(env, txs) = after[Len(txs)]
                      /\ rawCommitTransactions(env, txs) \in environment
<1> DEFINE n == Len(txs)
           after[i \in 0 .. n] ==
              IF i = 0 THEN env ELSE commitTransaction(after[i - 1], User(txs[i]))
           step == [i \in 1 .. n |-> [x \in environment |-> commitTransaction(x, User(txs[i]))]]
<1>1. rawCommitTransactions(env, txs) = after[n]
  BY Zenon DEF rawCommitTransactions
<1>2. n \in Nat /\ \A i \in 1 .. n : User(txs[i]) \in Entry
  <2>1. n \in Nat /\ \A i \in 1 .. n : txs[i] \in Tx
    OBVIOUS
  <2> QED
    BY <2>1, UserIsEntry, Zenon
<1>3. step \in [1 .. n -> [environment -> environment]]
  BY <1>2, CommitTyped
<1>4. PICK f : Rounds(f, environment, n, env, step)
  <2> HIDE DEF step, n
  <2> QED
    BY <1>2, <1>3, LoopEnds
<1>5. ASSUME NEW i \in 1 .. n
      PROVE  f[i] = commitTransaction(f[i - 1], User(txs[i]))
  <2>1. f[i - 1] \in environment /\ f[i] = step[i][f[i - 1]]
    <3> HIDE DEF step, after, n
    <3> QED
      BY <1>2, <1>4 DEF Rounds
  <2> QED
    BY <2>1
<1>6. f = [i \in 0 .. n |-> IF i = 0 THEN env ELSE commitTransaction(f[i - 1], User(txs[i]))]
  BY <1>4, <1>5 DEF Rounds
<1>7. after = [i \in 0 .. n |->
                  IF i = 0 THEN env ELSE commitTransaction(after[i - 1], User(txs[i]))]
  BY <1>6, Zenon
<1> HIDE DEF after, n
<1> DEFINE T == {i \in 0 .. n : after[i] \in environment}
<1>8. 0 \in T
  BY <1>2, <1>7
<1>9. ASSUME NEW i \in 0 .. n - 1, i \in T
      PROVE  i + 1 \in T
  BY <1>2, <1>7, <1>9, CommitTyped
<1>10. \A i \in 0 .. n : i \in T
  <2> HIDE DEF T
  <2> QED
    BY <1>2, <1>8, <1>9, CountUp, Zenon
<1>11. after[n] \in environment
  BY <1>2, <1>10
<1>12. after[0] = env /\ \A i \in 1 .. n : after[i] = commitTransaction(after[i - 1], User(txs[i]))
  BY <1>2, <1>7
<1> QED
  BY <1>1, <1>11, <1>12, Zenon DEF n

\* The order after the first transactions of a bundle.
OrderUpTo(order, txs, n) ==
    [i \in 1 .. Len(order) + n |->
        IF i <= Len(order) THEN order[i] ELSE <<txs[i - Len(order)], None>>]

\* It grows by one transaction at a time.
LEMMA OrderUpToNext ==
    ASSUME NEW order \in Seq(Slot), NEW txs \in Seq(Tx), NEW i \in 0 .. Len(txs) - 1
    PROVE  OrderUpTo(order, txs, i + 1) = Append(OrderUpTo(order, txs, i), <<txs[i + 1], None>>)
<1> DEFINE m == Len(order)
           s == OrderUpTo(order, txs, i)
           r == OrderUpTo(order, txs, i + 1)
<1>1. m \in Nat /\ m + i \in Nat /\ m + (i + 1) = (m + i) + 1 /\ i + 1 \in 1 .. Len(txs)
  OBVIOUS
<1>2. \A j \in 1 .. Len(txs) : <<txs[j], None>> \in Slot
  BY DEF Slot
<1>3. \A j \in 1 .. m + (i + 1) : j <= m \/ j - m \in 1 .. Len(txs)
  BY <1>1
<1>4. \A j \in 1 .. m : order[j] \in Slot
  OBVIOUS
<1>5. s \in [1 .. m + i -> Slot] /\ r \in [1 .. m + (i + 1) -> Slot]
  <2>1. 1 .. m + i \subseteq 1 .. m + (i + 1)
    BY <1>1
  <2>2. \A j \in 1 .. m + (i + 1) : j <= m => j \in 1 .. m
    BY <1>1
  <2> QED
    BY <1>2, <1>3, <1>4, <2>1, <2>2, Zenon DEF OrderUpTo
<1>6. \A j \in 1 .. m + i : r[j] = s[j]
  BY <1>1 DEF OrderUpTo
<1>7. r[(m + i) + 1] = <<txs[i + 1], None>>
  BY <1>1 DEF OrderUpTo
<1> HIDE DEF m, s, r
<1>8. r = Append(s, <<txs[i + 1], None>>)
  BY <1>1, <1>5, <1>6, <1>7, AppendIs
<1> QED
  BY <1>8, Zenon DEF s, r

\* The transactions of a bundle are committed in one piece and in order.
LEMMA RawSound ==
    ASSUME NEW env, NEW order, Sound(env, order), NEW txs \in Seq(Tx)
    PROVE  /\ Sound(rawCommitTransactions(env, txs),
                    order \o [i \in DOMAIN txs |-> <<txs[i], None>>])
           /\ env.coin <= rawCommitTransactions(env, txs).coin
<1> DEFINE n == Len(txs)
           sofar(i) == OrderUpTo(order, txs, i)
<1>1. env \in environment /\ env.coin \in Nat /\ order \in Seq(Slot) /\ Len(order) \in Nat
  BY SoundTypes, Zenon
<1>2. n \in Nat /\ \A i \in 1 .. n : txs[i] \in Tx
  OBVIOUS
<1>3. PICK after :
          /\ after[0] = env
          /\ \A i \in 1 .. n : after[i] = commitTransaction(after[i - 1], User(txs[i]))
          /\ rawCommitTransactions(env, txs) = after[n]
  BY <1>1, RawRounds
<1> DEFINE T == {i \in 0 .. n : Sound(after[i], sofar(i)) /\ env.coin <= after[i].coin}
<1>4. sofar(0) = order
  BY <1>1 DEF OrderUpTo
<1>5. 0 \in T
  BY <1>1, <1>2, <1>3, <1>4
<1>6. ASSUME NEW i \in 0 .. n - 1, i \in T
      PROVE  i + 1 \in T
  <2> DEFINE t == txs[i + 1]
  <2>1. /\ i + 1 \in 1 .. n /\ t \in Tx
        /\ after[i + 1] = commitTransaction(after[i], User(t))
    BY <1>2, <1>3
  <2>2. /\ User(t) \in Entry /\ IsUser(User(t)) /\ SlotOf(User(t)) = <<t, None>>
        /\ Funded(after[i], User(t))
    BY <2>1, UserIsEntry DEF Funded
  <2>3. sofar(i + 1) = Append(sofar(i), <<t, None>>)
    BY <1>1, OrderUpToNext, Zenon
  <2>4. Sound(after[i], sofar(i)) /\ env.coin <= after[i].coin
    BY <1>6
  <2>5. Sound(after[i + 1], sofar(i + 1)) /\ after[i].coin <= after[i + 1].coin
    BY <2>1, <2>2, <2>3, <2>4, CommitSound, Zenon
  <2>6. after[i].coin \in Nat /\ after[i + 1].coin \in Nat
    BY <2>4, <2>5, SoundTypes, Zenon
  <2>7. env.coin <= after[i + 1].coin
    BY <1>1, <2>4, <2>5, <2>6
  <2> QED
    BY <2>1, <2>5, <2>7
<1>7. \A i \in 0 .. n : i \in T
  <2> HIDE DEF T, n
  <2> QED
    BY <1>2, <1>5, <1>6, CountUp, Zenon
<1>8. Sound(after[n], sofar(n)) /\ env.coin <= after[n].coin
  BY <1>2, <1>7
<1>9. sofar(n) = order \o [i \in DOMAIN txs |-> <<txs[i], None>>]
  <2> DEFINE s == [i \in DOMAIN txs |-> <<txs[i], None>>]
  <2>1. s \in Seq(Slot) /\ Len(s) = n
    BY <1>2 DEF Slot
  <2>2. \A i \in 1 .. n : s[i] = <<txs[i], None>>
    BY <1>2
  <2> HIDE DEF s
  <2>3. order \o s = [i \in 1 .. Len(order) + n |->
                          IF i <= Len(order) THEN order[i] ELSE s[i - Len(order)]]
    BY <1>1, <2>1, ConcatIs, ZenonT(40)
  <2>4. order \o s = sofar(n)
    <3>1. \A i \in 1 .. Len(order) + n :
              i <= Len(order) \/ s[i - Len(order)] = <<txs[i - Len(order)], None>>
      BY <1>1, <1>2, <2>2
    <3> QED
      BY <2>3, <3>1, Zenon DEF OrderUpTo
  <2> QED
    BY <2>4, Zenon DEF s
<1> QED
  BY <1>3, <1>8, <1>9

\* RefundPercent divides: it is not zero, and the part is not more than the whole.
LEMMA ShareOfProfit ==
    ASSUME NEW bundle \in Bundle, WantsRefund(bundle), NEW profit \in Int
    PROVE  /\ bundle.txs[1] \in Tx
           /\ profit \div RefundShare(bundle) \in Int
           /\ profit >= 0 => profit \div RefundShare(bundle) <= profit
<1>1. bundle.txs \in Seq(Tx) /\ bundle.percent \in Nat \union {NoRefund}
  BY DEF Bundle
<1>2. bundle.txs[1] \in Tx
  BY <1>1 DEF WantsRefund
<1>3. RefundShare(bundle) \in Nat \ {0}
  BY <1>1 DEF WantsRefund, RefundShare
<1>4. \A b \in Nat \ {0} : profit \div b \in Int
  OBVIOUS
<1>5. ASSUME NEW b \in Nat \ {0}, profit >= 0
      PROVE  profit \div b <= profit
  BY <1>5
<1> QED
  BY <1>2, <1>3, <1>4, <1>5

\* What is left of a balance that is paid out but for the cost of the payment,
\* which was reckoned with more gas than it uses.
LEMMA LeftBehind ==
    ASSUME NEW coin \in Nat, NEW amount, amount = coin - PaymentGas * BaseFee
    PROVE  coin - (amount + TxGas * BaseFee) = (PaymentGas - TxGas) * BaseFee
BY BuilderConstants DEF PaymentGas, TxGas

\* The payment of a refund.
LEMMA RefundIsEntry ==
    ASSUME NEW t \in Tx \union {FeeRecipient}, NEW amount \in Int
    PROVE  /\ Payment(t, amount) \in Entry /\ ~IsUser(Payment(t, amount))
           /\ Payment(t, amount).amount = amount
           /\ SlotOf(Payment(t, amount)) = <<None, t>>
BY DEF Payment, Entry, PaymentEntry, IsUser, SlotOf

\* A bundle keeps the types.
LEMMA BundleTyped ==
    ASSUME NEW env \in environment, NEW bundle \in Bundle
    PROVE  commitBundle(env, bundle) \in environment
<1> DEFINE after == rawCommitTransactions(env, bundle.txs)
           profit == after.coin - env.coin
           refundAmt == profit \div RefundShare(bundle) - refundTransferCost
<1>1. after \in environment
  BY RawRounds, Zenon DEF Bundle
<1>2. profit \in Int /\ refundTransferCost \in Int
  BY <1>1, BuilderConstants DEF environment, refundTransferCost, PaymentGas
<1>3. CASE WantsRefund(bundle)
  <2>1. bundle.txs[1] \in Tx /\ refundAmt \in Int
    <3> HIDE DEF profit
    <3>1. bundle.txs[1] \in Tx /\ profit \div RefundShare(bundle) \in Int
      BY <1>2, <1>3, ShareOfProfit, Zenon
    <3> QED
      BY <1>2, <3>1
  <2>2. commitBundle(env, bundle) = commitTransaction(after, Payment(bundle.txs[1], refundAmt))
    BY <1>3, Zenon DEF commitBundle
  <2> HIDE DEF after, refundAmt
  <2> QED
    BY <1>1, <2>1, <2>2, RefundIsEntry, CommitTyped, Zenon
<1>4. CASE ~WantsRefund(bundle)
  BY <1>1, <1>4 DEF commitBundle
<1> QED
  BY <1>3, <1>4

\* A bundle is committed in one piece, with its refund behind it.
LEMMA BundleSound ==
    ASSUME NEW env, NEW order, Sound(env, order), NEW bundle \in Bundle
    PROVE  Sound(commitBundle(env, bundle), order \o BundleOrder(bundle))
<1> DEFINE after == rawCommitTransactions(env, bundle.txs)
           profit == after.coin - env.coin
           share == profit \div RefundShare(bundle)
           refundAmt == share - refundTransferCost
           users == [i \in DOMAIN bundle.txs |-> <<bundle.txs[i], None>>]
<1>1. bundle.txs \in Seq(Tx)
  BY DEF Bundle
<1>2. Sound(after, order \o users) /\ env.coin <= after.coin
  BY <1>1, RawSound, Zenon
<1>3. /\ order \in Seq(Slot) /\ env.coin \in Nat /\ after.coin \in Nat
      /\ profit \in Nat /\ profit <= after.coin
  <2> HIDE DEF after
  <2>1. order \in Seq(Slot) /\ env.coin \in Nat /\ after.coin \in Nat
    BY <1>2, SoundTypes, Zenon
  <2> QED
    BY <1>2, <2>1
<1>4. users \in Seq(Slot)
  BY <1>1 DEF Slot
<1>5. CASE WantsRefund(bundle)
  <2> DEFINE e == Payment(bundle.txs[1], refundAmt)
             slot == <<None, bundle.txs[1]>>
  <2>1. bundle.txs[1] \in Tx /\ share \in Int /\ share <= profit
    <3> HIDE DEF profit
    <3> QED
      BY <1>3, <1>5, ShareOfProfit
  <2>2. refundTransferCost \in Int /\ refundTransferCost = PaymentGas * BaseFee
    BY Numbers DEF refundTransferCost, PaymentGas
  <2>3. refundAmt \in Int /\ refundTransferCost + refundAmt <= after.coin
    <3> HIDE DEF share, profit
    <3> QED
      BY <1>3, <2>1, <2>2
  <2>4. commitBundle(env, bundle) = commitTransaction(after, e)
    BY <1>5 DEF commitBundle
  <2>5. BundleOrder(bundle) = users \o <<slot>>
    BY <1>5, Zenon DEF BundleOrder
  <2> HIDE DEF after, refundAmt, users
  <2>6. e \in Entry /\ e.amount = refundAmt /\ SlotOf(e) = slot /\ ~IsUser(e)
    BY <2>1, <2>3, RefundIsEntry, Zenon
  <2>7. Funded(after, e)
    BY <2>2, <2>3, <2>6 DEF Funded
  <2>8. Sound(commitTransaction(after, e), Append(order \o users, slot))
    <3> HIDE DEF e, slot
    <3> QED
      BY <1>2, <2>6, <2>7, CommitSound
  <2>9. slot \in Slot
    BY <2>1 DEF Slot
  <2>10. Append(order \o users, slot) = order \o (users \o <<slot>>)
    <3> HIDE DEF slot
    <3> QED
      BY <1>3, <1>4, <2>9, AppendBehind, Zenon
  <2> QED
    BY <2>4, <2>5, <2>8, <2>10, Zenon
<1>6. CASE ~WantsRefund(bundle)
  <2>1. commitBundle(env, bundle) = after
    BY <1>6 DEF commitBundle
  <2>2. BundleOrder(bundle) = users \o <<>>
    BY <1>6 DEF BundleOrder
  <2> HIDE DEF after, users
  <2>3. users \o <<>> = users
    BY <1>4, ConcatNone
  <2> QED
    BY <1>2, <2>1, <2>2, <2>3, Zenon
<1> QED
  BY <1>5, <1>6

\* An empty block.
LEMMA EmptyIsSound == prepareWork \in environment /\ Sound(prepareWork, <<>>)
<1>1. prepareWork \in environment
  <2>1. <<>> \in Seq(Entry) /\ 0 \in Nat
    OBVIOUS
  <2>2. GasLimit \in 0 .. GasLimit
    BY Numbers
  <2> QED
    BY <2>1, <2>2, Zenon DEF prepareWork, environment
<1>2. /\ Order(prepareWork) = <<>>
      /\ Earned(prepareWork) = Sum(<<>>) /\ Paid(prepareWork) = Sum(<<>>)
      /\ Payments(prepareWork) = Sum(<<>>) /\ GasFor(<<>>) = Sum(<<>>)
  BY DEF prepareWork, Order, Earned, Paid, Payments, GasFor
<1>3. 0 * (TxGas * BaseFee) = 0
  BY BuilderConstants DEF TxGas
<1>4. 0 = Earned(prepareWork) - Paid(prepareWork) - Payments(prepareWork) * (TxGas * BaseFee)
  BY <1>2, <1>3, SumEmpty
<1>5. GasLimit - GasLimit <= GasFor(Order(prepareWork))
  BY <1>2, SumEmpty, BuilderConstants
<1>6. <<>> \in Seq(Slot) /\ Len(<<>>) = 0
  OBVIOUS
<1>7. /\ prepareWork.ok = TRUE /\ prepareWork.pool = GasLimit /\ prepareWork.txs = <<>>
      /\ prepareWork.coin = 0
  BY Zenon DEF prepareWork
<1>8. Sound(prepareWork, <<>>)
  <2>1. Metered(prepareWork) /\ Balanced(prepareWork)
    BY <1>4, <1>5, <1>7, Zenon DEF Metered, Balanced
  <2>2. DOMAIN prepareWork.txs = {}
    BY <1>7
  <2>3. Clean(prepareWork)
    BY <2>2, Zenon DEF Clean
  <2> QED
    BY <1>1, <1>6, <1>7, <2>1, <2>2, <2>3 DEF Sound
<1> QED
  BY <1>1, <1>8, Zenon

\* The loop over the bundles, round by round.
LEMMA BundleRounds ==
    ASSUME NEW bundles \in Seq(Bundle)
    PROVE  \E after : /\ after[0] = prepareWork
                      /\ \A i \in 1 .. Len(bundles) :
                            after[i] = commitBundle(after[i - 1], bundles[i])
                      /\ commitBundles(bundles) = after[Len(bundles)]
<1> DEFINE n == Len(bundles)
           after[i \in 0 .. n] ==
              IF i = 0 THEN prepareWork ELSE commitBundle(after[i - 1], bundles[i])
           step == [i \in 1 .. n |-> [x \in environment |-> commitBundle(x, bundles[i])]]
<1>1. commitBundles(bundles) = after[n]
  BY DEF commitBundles
<1>2. n \in Nat /\ \A i \in 1 .. n : bundles[i] \in Bundle
  OBVIOUS
<1>3. step \in [1 .. n -> [environment -> environment]]
  BY <1>2, BundleTyped
<1>4. PICK f : Rounds(f, environment, n, prepareWork, step)
  <2> HIDE DEF step, n
  <2> QED
    BY <1>2, <1>3, EmptyIsSound, LoopEnds
<1>5. ASSUME NEW i \in 1 .. n
      PROVE  f[i] = commitBundle(f[i - 1], bundles[i])
  <2>1. f[i - 1] \in environment /\ f[i] = step[i][f[i - 1]]
    <3> HIDE DEF step, after, n
    <3> QED
      BY <1>2, <1>4 DEF Rounds
  <2> QED
    BY <2>1
<1>6. f = [i \in 0 .. n |-> IF i = 0 THEN prepareWork ELSE commitBundle(f[i - 1], bundles[i])]
  BY <1>4, <1>5 DEF Rounds
<1>7. after = [i \in 0 .. n |->
                  IF i = 0 THEN prepareWork ELSE commitBundle(after[i - 1], bundles[i])]
  BY <1>6, Zenon
<1> HIDE DEF after, n
<1>8. /\ after[0] = prepareWork
      /\ \A i \in 1 .. n : after[i] = commitBundle(after[i - 1], bundles[i])
  BY <1>2, <1>7
<1> QED
  BY <1>1, <1>8 DEF n

\* The slots of a bundle.
LEMMA BundleSlots ==
    ASSUME NEW bundle \in Bundle
    PROVE  BundleOrder(bundle) \in Seq(Slot)
<1> DEFINE users == [i \in DOMAIN bundle.txs |-> <<bundle.txs[i], None>>]
           refund == IF WantsRefund(bundle) THEN << <<None, bundle.txs[1]>> >> ELSE <<>>
<1>1. bundle.txs \in Seq(Tx)
  BY DEF Bundle
<1>2. users \in Seq(Slot)
  BY <1>1 DEF Slot
<1>3. refund \in Seq(Slot)
  <2>1. <<>> \in Seq(Slot)
    OBVIOUS
  <2>2. WantsRefund(bundle) => <<None, bundle.txs[1]>> \in Slot
    BY <1>1 DEF WantsRefund, Slot
  <2> QED
    BY <2>1, <2>2
<1>4. BundleOrder(bundle) = users \o refund
  BY DEF BundleOrder
<1> HIDE DEF users, refund
<1> QED
  BY <1>2, <1>3, <1>4, ConcatIs

\* The order of the bundles, bundle by bundle.
LEMMA OrderRounds ==
    ASSUME NEW bundles \in Seq(Bundle)
    PROVE  \E upTo : /\ upTo[0] = <<>>
                     /\ \A i \in 1 .. Len(bundles) :
                           upTo[i] = upTo[i - 1] \o BundleOrder(bundles[i])
                     /\ BundlesOrder(bundles) = upTo[Len(bundles)]
<1> DEFINE n == Len(bundles)
           upTo[i \in 0 .. n] ==
              IF i = 0 THEN <<>> ELSE upTo[i - 1] \o BundleOrder(bundles[i])
           step == [i \in 1 .. n |-> [x \in Seq(Slot) |-> x \o BundleOrder(bundles[i])]]
<1>1. BundlesOrder(bundles) = upTo[n]
  BY DEF BundlesOrder
<1>2. n \in Nat /\ \A i \in 1 .. n : BundleOrder(bundles[i]) \in Seq(Slot)
  BY BundleSlots
<1>3. step \in [1 .. n -> [Seq(Slot) -> Seq(Slot)]]
  <2>1. \A i \in 1 .. n : \A x \in Seq(Slot) : x \o BundleOrder(bundles[i]) \in Seq(Slot)
    BY <1>2, ConcatIs
  <2> QED
    BY <2>1
<1>4. PICK f : Rounds(f, Seq(Slot), n, <<>>, step)
  <2> HIDE DEF step, n
  <2> DEFINE Q == Seq(Slot)
             x0 == <<>>
  <2>1. x0 \in Q
    OBVIOUS
  <2>2. step \in [1 .. n -> [Q -> Q]]
    BY <1>3
  <2>3. \E f : Rounds(f, Q, n, x0, step)
    <3> HIDE DEF Q, x0
    <3> QED
      BY <1>2, <2>1, <2>2, LoopEnds, Zenon
  <2> QED
    BY <2>3
<1>5. ASSUME NEW i \in 1 .. n
      PROVE  f[i] = f[i - 1] \o BundleOrder(bundles[i])
  <2>1. f[i - 1] \in Seq(Slot) /\ f[i] = step[i][f[i - 1]]
    <3> HIDE DEF step, upTo, n
    <3> QED
      BY <1>2, <1>4 DEF Rounds
  <2> QED
    BY <2>1, Zenon
<1>6. f = [i \in 0 .. n |-> IF i = 0 THEN <<>> ELSE f[i - 1] \o BundleOrder(bundles[i])]
  <2>1. f = [i \in 0 .. n |-> f[i]] /\ f[0] = <<>>
    BY <1>4 DEF Rounds
  <2>2. \A i \in 0 .. n : i # 0 => i \in 1 .. n
    BY <1>2
  <2> HIDE DEF upTo, n, step
  <2> QED
    BY <1>5, <2>1, <2>2, Zenon
<1>7. upTo = [i \in 0 .. n |->
                 IF i = 0 THEN <<>> ELSE upTo[i - 1] \o BundleOrder(bundles[i])]
  BY <1>6, Zenon
<1> HIDE DEF upTo, n
<1>8. /\ upTo[0] = <<>>
      /\ \A i \in 1 .. n : upTo[i] = upTo[i - 1] \o BundleOrder(bundles[i])
  BY <1>2, <1>7
<1> QED
  BY <1>1, <1>8, Zenon DEF n

\* The bundles are committed one behind the other.
LEMMA BundlesSound ==
    ASSUME NEW bundles \in Seq(Bundle)
    PROVE  Sound(commitBundles(bundles), BundlesOrder(bundles))
<1> DEFINE n == Len(bundles)
<1>1. n \in Nat /\ \A i \in 1 .. n : bundles[i] \in Bundle
  OBVIOUS
<1>2. PICK upTo : /\ upTo[0] = <<>>
                  /\ \A i \in 1 .. n : upTo[i] = upTo[i - 1] \o BundleOrder(bundles[i])
                  /\ BundlesOrder(bundles) = upTo[n]
  BY OrderRounds, Zenon
<1>3. PICK after : /\ after[0] = prepareWork
                   /\ \A i \in 1 .. n : after[i] = commitBundle(after[i - 1], bundles[i])
                   /\ commitBundles(bundles) = after[n]
  BY BundleRounds, Zenon
<1> HIDE DEF n
<1> DEFINE T == {i \in 0 .. n : Sound(after[i], upTo[i])}
<1>4. 0 \in T
  BY <1>1, <1>2, <1>3, EmptyIsSound
<1>5. ASSUME NEW i \in 0 .. n - 1, i \in T
      PROVE  i + 1 \in T
  <2>1. i + 1 \in 1 .. n /\ (i + 1) - 1 = i /\ i + 1 \in 0 .. n
    BY <1>1
  <2>2. /\ after[i + 1] = commitBundle(after[i], bundles[i + 1])
        /\ upTo[i + 1] = upTo[i] \o BundleOrder(bundles[i + 1])
        /\ bundles[i + 1] \in Bundle
    BY <1>1, <1>2, <1>3, <2>1, Zenon
  <2>3. Sound(after[i + 1], upTo[i + 1])
    BY <1>5, <2>2, BundleSound
  <2> QED
    BY <2>1, <2>3
<1>6. \A i \in 0 .. n : i \in T
  <2> HIDE DEF T
  <2> QED
    BY <1>1, <1>4, <1>5, CountUp, Zenon
<1>7. Sound(after[n], upTo[n])
  <2>1. n \in 0 .. n
    BY <1>1
  <2> QED
    BY <1>6, <2>1, Zenon
<1> QED
  BY <1>2, <1>3, <1>7

\* The first elements of a sequence.
LEMMA FirstElements ==
    ASSUME NEW S, NEW s \in Seq(S), NEW n \in 0 .. Len(s) - 1
    PROVE  SubSeq(s, 1, n) = [i \in 1 .. n |-> s[i]]
  OBVIOUS

\* A block that is sound for an order is the first part of it, and all of it if
\* there was gas.
LEMMA FirstOfOrder ==
    ASSUME NEW env, NEW order, Sound(env, order), NEW built, built.txs = env.txs
    PROVE  /\ Order(built) = [i \in 1 .. Len(env.txs) |-> order[i]]
           /\ env.ok => \/ Order(built) = order
                        \/ /\ \E n \in 0 .. Len(order) - 1 : Order(built) = SubSeq(order, 1, n)
                           /\ env.pool < TxGas
<1> DEFINE first == Order(built)
           n == Len(env.txs)
<1>1. env.txs \in Seq(Entry) /\ order \in Seq(Slot) /\ n <= Len(order)
  <2>1. n <= Len(order)
    BY Zenon DEF Sound
  <2> QED
    BY <2>1, SoundTypes, Zenon
<1>2. n \in Nat /\ DOMAIN env.txs = 1 .. n
  BY <1>1
<1>3. first = [i \in 1 .. n |-> order[i]]
  <2>1. \A i \in DOMAIN env.txs : SlotOf(env.txs[i]) = order[i]
    BY Zenon DEF Sound
  <2>2. first = [i \in DOMAIN env.txs |-> SlotOf(env.txs[i])]
    BY Zenon DEF Order, SlotOf
  <2> QED
    BY <1>2, <2>1, <2>2, Zenon
<1> HIDE DEF first, n
<1>4. first \in Seq(Slot) /\ Len(first) = n
  BY <1>1, <1>2, <1>3
<1>5. CASE n = Len(order)
  <2>1. first = order
    BY <1>1, <1>3, <1>5
  <2> QED
    BY <1>3, <2>1, Zenon DEF first, n
<1>6. CASE n # Len(order)
  <2>1. env.ok => env.pool < TxGas
    BY <1>6, Zenon DEF Sound, n
  <2>2. n \in 0 .. Len(order) - 1
    BY <1>1, <1>2, <1>6
  <2>3. first = SubSeq(order, 1, n)
    <3>1. SubSeq(order, 1, n) = [i \in 1 .. n |-> order[i]]
      BY <1>1, <2>2, FirstElements, Zenon
    <3> QED
      BY <1>3, <3>1, Zenon
  <2> QED
    BY <1>3, <2>1, <2>2, <2>3, Zenon DEF first, n
<1> QED
  BY <1>5, <1>6, Zenon

\* What buildBlockFromBundles returns for any bundles: all of them in order, or what
\* there was gas for; an error only for a reason that the bundles give; and all
\* that they paid is accounted for.
THEOREM BlockFacts ==
    ASSUME NEW bundles \in Seq(Bundle)
    PROVE  LET built == buildBlockFromBundles(bundles)
               order == BlockOrder(bundles)
           IN  /\ built.pool \in 0 .. GasLimit /\ built.value \in Int
               /\ built.ok => \/ Order(built) = order
                              \/ /\ \E n \in 0 .. Len(order) - 1 : Order(built) = SubSeq(order, 1, n)
                                 /\ built.pool < TxGas
               /\ ~built.ok => Refusable(order)
               /\ Clean(built)
               /\ Order(built) = order =>
                    /\ built.value = built.txs[Len(built.txs)].amount
                    /\ Earned(built) = Paid(built) + Payments(built) * TxGas * BaseFee
                                        + (PaymentGas - TxGas) * BaseFee
<1> DEFINE work == commitBundles(bundles)
           profit == work.coin - refundTransferCost
           e == Payment(FeeRecipient, profit)
           env == commitTransaction(work, e)
           built == buildBlockFromBundles(bundles)
           order == BlockOrder(bundles)
           front == BundlesOrder(bundles)
           slot == <<None, FeeRecipient>>
<1>1. Sound(work, front)
  BY BundlesSound, Zenon
<1>2. built = [ok |-> env.ok, pool |-> env.pool, txs |-> env.txs, value |-> profit]
  BY DEF buildBlockFromBundles
<1>3. order = front \o <<slot>>
  BY DEF BlockOrder
<1> HIDE DEF work, built, order, front
<1>4. work \in environment /\ work.coin \in Nat /\ front \in Seq(Slot) /\ slot \in Slot
  BY <1>1, SoundTypes, Zenon DEF Slot
<1>5. refundTransferCost = PaymentGas * BaseFee /\ refundTransferCost \in Nat /\ profit \in Int
  BY <1>4, BuilderConstants DEF refundTransferCost, PaymentGas
<1>6. order = Append(front, slot)
  <2> HIDE DEF slot
  <2> QED
    BY <1>3, <1>4
<1>7. e \in Entry /\ ~IsUser(e) /\ e.amount = profit /\ SlotOf(e) = slot
  <2> HIDE DEF profit
  <2> QED
    BY <1>5, RefundIsEntry, Zenon
<1>8. Funded(work, e)
  <2>1. PaymentGas * BaseFee + profit <= work.coin
    BY <1>4, <1>5
  <2> HIDE DEF e, profit
  <2> QED
    BY <1>7, <2>1 DEF Funded
<1> HIDE DEF e, slot, profit
<1>9. /\ Sound(env, order)
      /\ Len(env.txs) <= Len(front) \/ env = Apply(work, e)
  BY <1>1, <1>6, <1>7, <1>8, CommitSound
<1> HIDE DEF env
<1>10. /\ env \in environment /\ env.pool \in 0 .. GasLimit /\ env.txs \in Seq(Entry)
       /\ env.ok \in BOOLEAN /\ order \in Seq(Slot) /\ Len(env.txs) <= Len(order)
  <2>1. Len(env.txs) <= Len(order)
    BY <1>9, Zenon DEF Sound
  <2> QED
    BY <1>9, <2>1, SoundTypes, Zenon
<1>11. /\ built.ok = env.ok /\ built.pool = env.pool /\ built.txs = env.txs
       /\ built.value = profit
  BY <1>2, Zenon
<1>12. Order(built) = [i \in 1 .. Len(env.txs) |-> order[i]]
  BY <1>9, <1>11, FirstOfOrder
<1>13. env.ok => \/ Order(built) = order
                 \/ /\ \E n \in 0 .. Len(order) - 1 : Order(built) = SubSeq(order, 1, n)
                    /\ built.pool < TxGas
  BY <1>9, <1>11, FirstOfOrder
<1>14. ASSUME Order(built) = order
       PROVE  /\ built.value = built.txs[Len(built.txs)].amount
              /\ Earned(built) = Paid(built) + Payments(built) * TxGas * BaseFee
                                  + (PaymentGas - TxGas) * BaseFee
  <2>1. Len(env.txs) = Len(front) + 1
    BY <1>4, <1>6, <1>10, <1>12, <1>14
  <2>2. env = Apply(work, e)
    BY <1>4, <1>9, <2>1
  <2>3. /\ env.txs = Append(work.txs, e) /\ work.txs \in Seq(Entry)
        /\ env.coin = work.coin - (profit + TxGas * BaseFee)
    BY <1>4, <1>5, <1>7, <2>2, BuilderConstants, Zenon DEF Apply, environment, TxGas
  <2>4. env.txs[Len(env.txs)] = e
    BY <1>7, <2>3
  <2>5. env.coin = (PaymentGas - TxGas) * BaseFee
    <3>1. work.coin \in Nat /\ profit = work.coin - PaymentGas * BaseFee
      BY <1>4, <1>5, Zenon DEF profit
    <3> QED
      BY <2>3, <3>1, LeftBehind, Zenon
  <2>6. Earned(built) = Earned(env) /\ Paid(built) = Paid(env) /\ Payments(built) = Payments(env)
    BY <1>11 DEF Earned, Paid, Payments
  <2>7. env.coin = Earned(env) - Paid(env) - Payments(env) * (TxGas * BaseFee)
    BY <1>9, Zenon DEF Sound, Balanced
  <2>8. Earned(env) \in Int /\ Paid(env) \in Int /\ Payments(env) \in Int
    <3>1. Append(env.txs, e) \in Seq(Entry)
      BY <1>7, <1>10
    <3> DEFINE next == [txs |-> Append(env.txs, e)]
    <3>2. next.txs = Append(env.txs, e)
      OBVIOUS
    <3> HIDE DEF next
    <3> QED
      BY <1>7, <1>10, <3>2, AccountsNext, Zenon
  <2>9. Payments(env) * (TxGas * BaseFee) = Payments(env) * TxGas * BaseFee
    BY <2>8, BuilderConstants DEF TxGas
  <2>10. Earned(env) = Paid(env) + Payments(env) * TxGas * BaseFee + (PaymentGas - TxGas) * BaseFee
    <3> DEFINE p == Payments(env) * TxGas * BaseFee
               rest == (PaymentGas - TxGas) * BaseFee
    <3>1. p \in Int /\ rest \in Int
      BY <2>8, BuilderConstants DEF TxGas, PaymentGas
    <3>2. rest = Earned(env) - Paid(env) - p
      BY <2>5, <2>7, <2>9
    <3> HIDE DEF p, rest
    <3>3. Earned(env) = Paid(env) + p + rest
      BY <2>8, <3>1, <3>2
    <3> QED
      BY <3>3 DEF p, rest
  <2> QED
    BY <1>7, <1>11, <2>4, <2>6, <2>10
<1>15. ~env.ok => Refusable(order)
  BY <1>9, Zenon DEF Sound
<1>16. /\ built.pool \in 0 .. GasLimit /\ built.value \in Int
       /\ built.ok => \/ Order(built) = order
                      \/ /\ \E n \in 0 .. Len(order) - 1 : Order(built) = SubSeq(order, 1, n)
                         /\ built.pool < TxGas
       /\ ~built.ok => Refusable(order)
  BY <1>5, <1>10, <1>11, <1>13, <1>15
<1>17. Clean(built)
  BY <1>9, <1>11, Zenon DEF Sound, Clean
<1> QED
  BY <1>14, <1>16, <1>17 DEF built, order

\* The order of transactions without payments.
TxsOrder(txs) == [i \in DOMAIN txs |-> <<txs[i], None>>]

\* What buildBlockFromTxs returns for any transactions: all of them in order, or
\* what there was gas for; an error only for a reason that they give; and the
\* value is what they pay.  It is empty only if there are none, or if the gas of
\* the whole block is not enough for one.
THEOREM SimulationFacts ==
    ASSUME NEW txs \in Seq(Tx)
    PROVE  LET built == buildBlockFromTxs(txs)
               order == TxsOrder(txs)
           IN  /\ built.pool \in 0 .. GasLimit /\ built.value \in Nat
               /\ built.ok => \/ Order(built) = order
                              \/ /\ \E n \in 0 .. Len(order) - 1 : Order(built) = SubSeq(order, 1, n)
                                 /\ built.pool < TxGas
               /\ ~built.ok => Refusable(order)
               /\ Clean(built)
               /\ built.value = Earned(built)
               /\ built.ok /\ built.txs = <<>> => txs = <<>> \/ GasLimit < TxGas
<1> DEFINE env == rawCommitTransactions(prepareWork, txs)
           built == buildBlockFromTxs(txs)
           order == TxsOrder(txs)
<1>1. built = [ok |-> env.ok, pool |-> env.pool, txs |-> env.txs, value |-> env.coin]
  BY DEF buildBlockFromTxs
<1>2. order \in Seq(Slot) /\ Len(order) = Len(txs) /\ \A i \in 1 .. Len(txs) : order[i][2] = None
  BY DEF TxsOrder, Slot
<1>3. Sound(env, order)
  <2> DEFINE none == <<>>
  <2>1. Sound(prepareWork, none)
    BY EmptyIsSound
  <2>2. none \o order = order
    BY <1>2
  <2> HIDE DEF none
  <2>3. Sound(env, none \o order)
    BY <2>1, RawSound, Zenon DEF TxsOrder
  <2> QED
    BY <2>2, <2>3, Zenon
<1> HIDE DEF env, built, order
<1>4. /\ built.ok = env.ok /\ built.pool = env.pool /\ built.txs = env.txs
      /\ built.value = env.coin
  BY <1>1, Zenon
<1>5. /\ env.pool \in 0 .. GasLimit /\ env.coin \in Nat /\ env.txs \in Seq(Entry)
      /\ Len(env.txs) <= Len(order)
  <2>1. Len(env.txs) <= Len(order)
    BY <1>3, Zenon DEF Sound
  <2> QED
    BY <1>3, <2>1, SoundTypes, Zenon
<1>6. built.ok => \/ Order(built) = order
                  \/ /\ \E n \in 0 .. Len(order) - 1 : Order(built) = SubSeq(order, 1, n)
                     /\ built.pool < TxGas
  <2>1. built.txs = env.txs
    BY <1>4
  <2>2. env.ok => \/ Order(built) = order
                  \/ /\ \E n \in 0 .. Len(order) - 1 : Order(built) = SubSeq(order, 1, n)
                     /\ env.pool < TxGas
    BY <1>3, <2>1, FirstOfOrder
  <2> QED
    BY <1>4, <2>2, Zenon
<1>7. (~built.ok => Refusable(order)) /\ Clean(built)
  BY <1>3, <1>4, Zenon DEF Sound, Clean
<1> DEFINE n == Len(env.txs)
<1>8. n \in Nat /\ DOMAIN env.txs = 1 .. n
  BY <1>5
<1>9. built.value = Earned(built)
  <2>1. ASSUME NEW i \in 1 .. n
        PROVE  env.txs[i].amount = 0 /\ IsUser(env.txs[i])
    <3>1. env.txs[i] \in Entry /\ SlotOf(env.txs[i]) = order[i] /\ order[i][2] = None
      <4>1. /\ Len(env.txs) <= Len(order)
            /\ \A j \in DOMAIN env.txs : SlotOf(env.txs[j]) = order[j]
        BY <1>3, Zenon DEF Sound
      <4>2. env.txs[i] \in Entry /\ i \in DOMAIN env.txs
        BY <1>5, <2>1
      <4>3. i \in 1 .. Len(txs)
        BY <1>2, <1>5, <2>1, <4>1
      <4> QED
        BY <1>2, <4>1, <4>2, <4>3, Zenon
    <3>2. env.txs[i].to = None
      BY <3>1 DEF SlotOf
    <3>3. order[i] \in Tx \X {None}
      BY <1>2, <1>5, <2>1 DEF TxsOrder, order
    <3>4. env.txs[i].tx \in Tx
      BY <3>1, <3>3 DEF SlotOf
    <3> QED
      BY <3>1, <3>4, BuilderConstants, Zenon DEF Entry, UserEntry, PaymentEntry, IsUser
  <2>2. Paid(env) = 0
    <3> DEFINE z == [i \in DOMAIN env.txs |-> env.txs[i].amount]
    <3>1. z \in [1 .. n -> {0}]
      BY <1>8, <2>1, Zenon
    <3> HIDE DEF z, n
    <3> QED
      BY <1>8, <3>1, SumZero, Zenon DEF Paid, z
  <2>3. Payments(env) = 0
    <3> DEFINE z == [i \in DOMAIN env.txs |-> IF IsUser(env.txs[i]) THEN 0 ELSE 1]
    <3>1. z \in [1 .. n -> {0}]
      BY <1>8, <2>1, Zenon
    <3> HIDE DEF z, n
    <3> QED
      BY <1>8, <3>1, SumZero, Zenon DEF Payments, z
  <2>4. env.coin = Earned(env) - Paid(env) - Payments(env) * (TxGas * BaseFee)
    BY <1>3, Zenon DEF Sound, Balanced
  <2>5. Earned(env) \in Int
    <3>1. \A i \in 1 .. n : EntryTip(env.txs[i]) \in Int
      BY <1>5, BuilderConstants DEF Entry, UserEntry, PaymentEntry, EntryTip, IsUser
    <3> DEFINE z == [i \in DOMAIN env.txs |-> EntryTip(env.txs[i])]
    <3>2. z \in [1 .. n -> Int] /\ Earned(env) = Sum(z)
      BY <1>8, <3>1, Zenon DEF Earned, EntryTip
    <3> HIDE DEF z, n
    <3> QED
      BY <1>8, <3>2, SumInt, Zenon
  <2>6. TxGas * BaseFee \in Int
    BY BuilderConstants DEF TxGas
  <2>7. env.coin = Earned(env)
    BY <2>2, <2>3, <2>4, <2>5, <2>6
  <2>8. Earned(built) = Earned(env)
    BY <1>4, Zenon DEF Earned
  <2> QED
    BY <1>4, <2>7, <2>8, Zenon
<1>10. ASSUME built.ok, built.txs = <<>>
       PROVE  txs = <<>> \/ GasLimit < TxGas
  <2>1. n = 0 /\ env.txs = <<>>
    BY <1>4, <1>10
  <2>2. env.pool >= GasLimit
    <3>1. Order(env) = <<>>
      BY <2>1 DEF Order
    <3>2. GasFor(<<>>) = Sum(<<>>)
      BY DEF GasFor
    <3>3. GasLimit - env.pool <= 0
      BY <1>3, <3>1, <3>2, SumEmpty, Zenon DEF Sound, Metered
    <3> QED
      BY <1>5, <3>3, Numbers
  <2>3. n = Len(order) \/ env.pool < TxGas
    BY <1>3, <1>4, <1>10, Zenon DEF Sound
  <2> QED
    BY <1>2, <1>5, <2>1, <2>2, <2>3, Numbers DEF TxGas
<1> QED
  BY <1>4, <1>5, <1>6, <1>7, <1>9, <1>10, Zenon DEF built, order

\* buildEthBlock reads one bundle for each bid.
LEMMA BundlesTyped ==
    ASSUME NEW b \in BidId, CanMerge(b)
    PROVE  mergedBundles(b) \in Seq(Bundle)
<1>1. bidIds(b) \in Seq(BidId)
  <2>1. mergedBids[b] # None => mergedBids[b] \in Seq(BidId)
    BY BuilderConstants, Zenon
  <2>2. <<b>> \in Seq(BidId)
    OBVIOUS
  <2> QED
    BY <2>1, <2>2, Zenon DEF bidIds
<1>2. ASSUME NEW i \in DOMAIN bidIds(b)
      PROVE  mergedBundles(b)[i] \in Bundle
  <2> DEFINE id == bidIds(b)[i]
  <2>1. id \in BidId /\ Readable(id)
    BY <1>1, <1>2 DEF CanMerge
  <2>2. mergedBundles(b)[i] = IF version[id] = "mevshare:v0:matchBids"
                              THEN Matched(matchedBids[id]) ELSE ethBundles[id]
    BY <1>2 DEF mergedBundles
  <2> HIDE DEF id
  <2>3. CASE version[id] = "mevshare:v0:matchBids"
    <3>1. /\ matchedBids[id] \in BidId \X BidId
          /\ ethBundles[matchedBids[id][1]] # None /\ ethBundles[matchedBids[id][2]] # None
      <4>1. matchedBids[id] # None => matchedBids[id] \in BidId \X BidId
        BY <2>1, BuilderConstants, Zenon
      <4> QED
        BY <2>1, <2>3, <4>1 DEF Readable
    <3>2. ethBundles[matchedBids[id][1]] \in Bundle /\ ethBundles[matchedBids[id][2]] \in Bundle
      BY <3>1, BuilderConstants
    <3> DEFINE u == ethBundles[matchedBids[id][1]]
               v == ethBundles[matchedBids[id][2]]
               txs == u.txs \o v.txs
    <3>3. Matched(matchedBids[id]) = [u EXCEPT !.txs = txs]
      BY <3>2, Zenon DEF Matched, Bundle
    <3>4. u \in Bundle /\ u.txs \in Seq(Tx) /\ v.txs \in Seq(Tx)
      BY <3>2 DEF Bundle
    <3> HIDE DEF u, v
    <3>5. txs \in Seq(Tx)
      BY <3>4
    <3> HIDE DEF txs
    <3>6. Matched(matchedBids[id]) \in Bundle
      BY <3>3, <3>4, <3>5, Zenon DEF Bundle
    <3> QED
      BY <2>2, <2>3, <3>6, Zenon
  <2>4. CASE version[id] # "mevshare:v0:matchBids"
    BY <2>1, <2>2, <2>4, BuilderConstants DEF Readable
  <2> QED
    BY <2>3, <2>4
<1>3. mergedBundles(b) = [i \in 1 .. Len(bidIds(b)) |-> mergedBundles(b)[i]]
  <2>1. mergedBundles(b) = [i \in DOMAIN bidIds(b) |-> mergedBundles(b)[i]]
    BY Zenon DEF mergedBundles
  <2> QED
    BY <1>1, <2>1
<1>4. Len(bidIds(b)) \in Nat /\ \A i \in 1 .. Len(bidIds(b)) : mergedBundles(b)[i] \in Bundle
  BY <1>1, <1>2
<1> DEFINE f == mergedBundles(b)
           n == Len(bidIds(b))
<1> HIDE DEF f, n
<1>5. f \in Seq(Bundle)
  BY <1>3, <1>4 DEF f, n
<1> QED
  BY <1>5 DEF f

\* The server's answer has the type of a block.
LEMMA ServeTyped ==
    ASSUME NEW r, Sendable(r)
    PROVE  Serve(r).pool \in 0 .. GasLimit /\ Serve(r).value \in Int
<1>1. CASE r.op = "build"
  <2>1. Bundles(r) \in Seq(Bundle) /\ Serve(r) = buildBlockFromBundles(Bundles(r))
    BY <1>1, BundlesTyped DEF Sendable, Request, Bundles, Serve
  <2> QED
    BY <2>1, BlockFacts, Zenon
<1>2. CASE r.op # "build"
  <2>1. r.bundle.txs \in Seq(Tx) /\ Serve(r) = buildBlockFromTxs(r.bundle.txs)
    BY <1>2 DEF Sendable, Request, Bundle, Serve
  <2>2. Serve(r).pool \in 0 .. GasLimit /\ Serve(r).value \in Nat
    BY <2>1, SimulationFacts, Zenon
  <2> QED
    BY <2>2
<1> QED
  BY <1>1, <1>2, Zenon
-----------------------------------------------------------------------------
(***************************************************************************)
(* The blocks that the calls get.                                          *)
(***************************************************************************)

\* The block of a build is the one that the builder makes of its bundles.
LEMMA BuiltBlock ==
    ASSUME Answered, NEW c \in Caller, BuiltFor(c)
    PROVE  /\ Bundles(request[c]) \in Seq(Bundle)
           /\ block[c] = buildBlockFromBundles(Bundles(request[c]))
BY BundlesTyped, Zenon DEF Answered, BuiltFor, Sendable, Request, Bundles, Serve

\* The types of EthBackend, the blocks' included: however the build went, the gas
\* left is not negative and not more than the limit.
THEOREM TypeCorrect == Spec => []TypeOK
<1>1. IInv /\ Answered => TypeOK
  BY ServeTyped, Zenon DEF IInv, Typed, Answered, TypeOK
<1> QED
  BY <1>1, AnsweredHolds, PTL

\* A block that buildEthBlock gets holds all bundles in order and the payment to the
\* proposer, or it stops where less than a transfer's gas is left.
THEOREM BlocksAreWhole == Spec => []BlockIsWhole
<1>1. Answered => BlockIsWhole
  BY BuiltBlock, BlockFacts, Zenon DEF BlockIsWhole
<1> QED
  BY <1>1, AnsweredHolds, PTL

\* buildBlockFromBundles never fails for want of money: refunds and the payment to
\* the proposer are covered, whatever the bundles, their refund shares and the base
\* fee are.
THEOREM PaymentsAreFunded == Spec => []PaymentsFunded
<1>1. Answered => PaymentsFunded
  BY BuiltBlock, BlockFacts, Zenon DEF PaymentsFunded
<1> QED
  BY <1>1, AnsweredHolds, PTL

\* The profit that a whole block reports is what it pays the proposer, and nothing
\* else of what the bundles paid is left over but the unused gas of that payment.
THEOREM ProfitIsPaid == Spec => []ValueIsPaid
<1>1. Answered => ValueIsPaid
  BY BuiltBlock, BlockFacts, Zenon DEF ValueIsPaid
<1> QED
  BY <1>1, AnsweredHolds, PTL

\* No block holds a transaction that the chain refuses, or one twice, however the
\* bundles that were merged or matched overlap.
BlocksClean == \A c \in Caller : block[c] # None => Clean(block[c])

\* This holds of every block a call gets, from bundles or for a simulation, and
\* also of the one left behind by a build that failed.
THEOREM BlocksAreClean == Spec => []BlocksClean
<1>1. ASSUME NEW r, Sendable(r) PROVE Clean(Serve(r))
  <2>1. CASE r.op = "build"
    <3>1. Bundles(r) \in Seq(Bundle) /\ Serve(r) = buildBlockFromBundles(Bundles(r))
      BY <1>1, <2>1, BundlesTyped DEF Sendable, Request, Bundles, Serve
    <3> QED
      BY <3>1, BlockFacts, Zenon
  <2>2. CASE r.op # "build"
    <3>1. r.bundle.txs \in Seq(Tx) /\ Serve(r) = buildBlockFromTxs(r.bundle.txs)
      BY <1>1, <2>2 DEF Sendable, Request, Bundle, Serve
    <3> QED
      BY <3>1, SimulationFacts, Zenon
  <2> QED
    BY <2>1, <2>2, Zenon
<1>2. Answered => BlocksClean
  BY <1>1, Zenon DEF Answered, BlocksClean
<1> QED
  BY <1>2, AnsweredHolds, PTL

\* The block of a simulation holds the transactions of the bundle in order, or it
\* stops where less than a transfer's gas is left; it fails only for a reason that
\* they give; and its value is what they pay.
SimulationIsWhole ==
    \A c \in Caller :
        pc[c] # "idle" /\ request[c].op = "simulate" /\ block[c] # None =>
            LET order == TxsOrder(request[c].bundle.txs)
            IN  /\ block[c].ok =>
                    \/ Order(block[c]) = order
                    \/ /\ \E n \in 0 .. Len(order) - 1 : Order(block[c]) = SubSeq(order, 1, n)
                       /\ block[c].pool < TxGas
                /\ ~block[c].ok => Refusable(order)
                /\ block[c].value = Earned(block[c])

\* What simulateBundle learns of a bundle is what the builder's rules say of it.
THEOREM SimulationsAreWhole == Spec => []SimulationIsWhole
<1>1. ASSUME Answered, NEW c \in Caller,
             pc[c] # "idle", request[c].op = "simulate", block[c] # None
      PROVE  /\ request[c].bundle.txs \in Seq(Tx)
             /\ block[c] = buildBlockFromTxs(request[c].bundle.txs)
  <2>1. Sendable(request[c]) /\ block[c] = Serve(request[c])
    BY <1>1, Zenon DEF Answered
  <2> QED
    BY <1>1, <2>1 DEF Sendable, Request, Bundle, Serve
<1>2. Answered => SimulationIsWhole
  BY <1>1, SimulationFacts, Zenon DEF SimulationIsWhole
<1> QED
  BY <1>2, AnsweredHolds, PTL

\* A call that returned without an error reports what the block says.
Reported ==
    \A c \in Caller : result[c] \in {"ok", "nilPrice"} =>
        /\ Sendable(request[c]) /\ Serve(request[c]).ok
        /\ result[c] = Outcome(request[c], Serve(request[c]))

\* It reports it once.
LEMMA ReportedInv ==
    ASSUME IInv, Answered, Reported, NEW c \in Caller, Step(c)
    PROVE  Reported'
<1> SUFFICES ASSUME NEW d \in Caller, result'[d] \in {"ok", "nilPrice"}
             PROVE  /\ Sendable(request'[d]) /\ Serve(request'[d]).ok
                    /\ result'[d] = Outcome(request'[d], Serve(request'[d]))
  BY Zenon DEF Reported
<1>t. /\ pc \in [Caller -> Steps] /\ result \in [Caller -> Results] /\ DOMAIN request = Caller
      /\ pc[c] # "done" => result[c] = "none"
  BY Zenon DEF IInv, Typed, CallSoFar, Answered
<1> USE DEF GoTo, Return
<1>1. ASSUME NEW r \in Asks[c], Begin(c, r)
      PROVE  result'[d] = result[d] /\ request'[d] = request[d]
  <2>1. pc[c] = "idle" /\ request' = [request EXCEPT ![c] = r]
    BY <1>1, Zenon DEF Begin
  <2>2. result' = result \/ result' = [result EXCEPT ![c] = "error"]
    BY <1>1, Zenon DEF Begin
  <2>3. d # c
    BY <1>t, <2>1, <2>2
  <2> QED
    BY <1>t, <2>1, <2>2, <2>3
<1>2. CASE Check(c) \/ Dial(c) \/ DialFails(c) \/ Assign(c) \/ Use(c)
  <2>1. /\ request' = request
        /\ \/ result' = result
           \/ result' = [result EXCEPT ![c] = "error"]
           \/ result' = [result EXCEPT ![c] = "panic"]
    BY <1>2, Zenon DEF Check, Dial, DialFails, Assign, Use
  <2>2. result'[d] = result[d]
    BY <1>t, <2>1, Zenon
  <2> QED
    BY <2>1, <2>2, Zenon DEF Reported
<1>3. CASE Answer(c)
  <2>1. /\ pc[c] = "wait" /\ Serve(request[c]).ok /\ UNCHANGED request
        /\ result' = [result EXCEPT ![c] = Outcome(request[c], Serve(request[c]))]
    BY <1>3, Zenon DEF Answer
  <2>2. Sendable(request[c])
    BY <2>1 DEF Answered, Active
  <2>3. CASE d = c
    BY <1>t, <2>1, <2>2, <2>3, Zenon
  <2>4. CASE d # c
    BY <1>t, <2>1, <2>4, Zenon DEF Reported
  <2> QED
    BY <2>3, <2>4
<1>4. CASE AnswerError(c) \/ Fail(c) \/ Read(c) \/ Clear(c) \/ Close(c)
  <2>1. /\ request' = request
        /\ \/ result' = result
           \/ result' = [result EXCEPT ![c] = "error"]
           \/ result' = [result EXCEPT ![c] = "panic"]
    BY <1>4, Zenon DEF AnswerError, Fail, Read, Clear, Close
  <2>2. result'[d] = result[d]
    BY <1>t, <2>1
  <2> QED
    BY <2>1, <2>2, Zenon DEF Reported
<1>5. ASSUME NEW r \in Asks[c], Begin(c, r)
      PROVE  /\ Sendable(request'[d]) /\ Serve(request'[d]).ok
             /\ result'[d] = Outcome(request'[d], Serve(request'[d]))
  BY <1>1, <1>5, Zenon DEF Reported
<1> QED
  BY <1>2, <1>3, <1>4, <1>5, Zenon DEF Step

\* simulateBundle has no price only for a bundle without transactions, or when the
\* whole block has less gas than a transfer uses.
NoPriceForNothing ==
    \A c \in Caller : result[c] = "nilPrice" =>
        request[c].bundle.txs = <<>> \/ GasLimit < TxGas

\* Whatever the transactions of a bundle are: if one of them is refused the call
\* ends with an error, and otherwise gas was used and there is a price.
THEOREM PriceIsThere == Spec => []NoPriceForNothing
<1>1. Init => Reported
  BY DEF Init, Reported
<1>2. ASSUME IInv, Answered, Reported, [Next]_vars PROVE Reported'
  <2>1. CASE UNCHANGED vars
    BY <1>2, <2>1, Zenon DEF vars, callVars, Reported
  <2> QED
    BY <1>2, <2>1, ReportedInv, Zenon DEF Next, Step
<1>3. ASSUME Reported, NEW c \in Caller, result[c] = "nilPrice"
      PROVE  request[c].bundle.txs = <<>> \/ GasLimit < TxGas
  <2>1. /\ Sendable(request[c]) /\ Serve(request[c]).ok
        /\ Outcome(request[c], Serve(request[c])) = "nilPrice"
    BY <1>3, Zenon DEF Reported
  <2>2. request[c].op = "simulate" /\ Serve(request[c]).txs = <<>>
    BY <2>1, Zenon DEF Outcome
  <2>3. /\ request[c].bundle.txs \in Seq(Tx)
        /\ Serve(request[c]) = buildBlockFromTxs(request[c].bundle.txs)
    BY <2>1, <2>2 DEF Sendable, Request, Bundle, Serve
  <2> QED
    BY <2>1, <2>2, <2>3, SimulationFacts, Zenon
<1>4. Reported => NoPriceForNothing
  BY <1>3, Zenon DEF NoPriceForNothing
<1> QED
  BY <1>1, <1>2, <1>4, AnsweredHolds, PTL DEF Spec
=============================================================================
