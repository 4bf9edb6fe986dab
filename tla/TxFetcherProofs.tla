---------------------------- MODULE TxFetcherProofs ---------------------------
(***************************************************************************)
(* Proofs about TxFetcher, for any set of peers, any finite set of hashes  *)
(* and any limits.  The handlers prepare a queue, a record, and give it to *)
(* scheduleFetches; so the invariant is stated for such a record.          *)
(***************************************************************************)
EXTENDS TxFetcher, FiniteSetTheorems, TLAPS

QTyped(q) ==
    /\ q.announces \in [Peer -> SUBSET Hash]
    /\ q.announced \in [Hash -> SUBSET Peer]
    /\ q.fetching \in [Hash -> Peer \union {None}]
    /\ q.requests \in [Peer -> Request]
    /\ q.alternates \in [Hash -> SUBSET Peer]

\* A request that is not live has nothing left to bring.
QRequests(q) ==
    \A p \in Peer :
        /\ Cardinality(q.requests[p].hashes) <= MaxTxRetrievals
        /\ q.requests[p].state # "live" => q.requests[p].hashes = {}

\* A hash is queued or fetched; alternates belong to what is fetched.
QStages(q) ==
    \A h \in Hash :
        /\ q.announced[h] # {} => q.fetching[h] = None
        /\ q.alternates[h] # {} <=> q.fetching[h] # None

\* What is fetched is what the requests have to bring.
QFetching(q) ==
    \A h \in Hash, p \in Peer :
        /\ q.fetching[h] = p <=> h \in q.requests[p].hashes \ q.requests[p].stolen
        /\ q.fetching[h] = p => p \in q.alternates[h]

\* The slots of a peer are tracked.
QSlots(q) ==
    \A p \in Peer : \A h \in q.announces[p] : p \in q.announced[h] \union q.alternates[h]

QInv(q) == QTyped(q) /\ QRequests(q) /\ QStages(q) /\ QFetching(q) /\ QSlots(q)

\* What waits in w is neither queued nor fetched.
Apart(q, w) == \A h \in Hash : w[h] # {} => q.announced[h] = {} /\ q.fetching[h] = None

\* The queue as it is.
Current == Queue(announces, announced, fetching, requests, alternates)

Waiting ==
    /\ waitlist \in [Hash -> SUBSET Peer]
    /\ waitslots \in [Peer -> SUBSET Hash]
    /\ \A p \in Peer : waitslots[p] = {h \in Hash : p \in waitlist[h]}

Flags == waitTimer \in BOOLEAN /\ timeoutTimer \in BOOLEAN /\ panicked \in BOOLEAN

IInv == Flags /\ NoPanic /\ Waiting /\ Apart(Current, waitlist) /\ QInv(Current)

\* No idle peer is left that a queued hash could be asked from.
AllAsked == \A h \in Hash : ~Askable(h)

\* What makes the loop go on: the wait timer runs when a hash waits, and the
\* timeout timer when a request is out or a hash is queued.  (It is started with
\* the first request, and after that whenever it fires.)
TimersRun ==
    /\ \A h \in Hash : waitlist[h] # {} => waitTimer
    /\ \A p \in Peer : requests[p].state # "none" => timeoutTimer
    /\ \A h \in Hash : announced[h] # {} => timeoutTimer
-----------------------------------------------------------------------------
(***************************************************************************)
(* scheduleFetches.                                                        *)
(***************************************************************************)

LEMMA EmptyIsWithinLimit == Cardinality({}) <= MaxTxRetrievals
<1>1. Cardinality({}) = 0
  BY FS_EmptySet
<1> QED
  BY <1>1, FetcherConstants

\* A hash is given to an idle peer that it is queued for.
LEMMA GivenIsQueued ==
    ASSUME NEW q, QInv(q), NEW who \in SUBSET Peer,
           NEW to \in [Hash -> Idle(q, who) \union {None}], NEW rank,
           IsAllocation(q, who, rank, to),
           NEW h \in Hash, to[h] # None
    PROVE  /\ to[h] \in Peer /\ q.requests[to[h]].state = "none"
           /\ q.fetching[h] = None /\ q.alternates[h] = {} /\ to[h] \in q.announced[h]
<1>1. to[h] \in Idle(q, who)
  OBVIOUS
<1>2. h \in Free(q, to[h])
  BY <1>1, Zenon DEF IsAllocation
<1> QED
  BY <1>1, <1>2 DEF Idle, Free, QInv, QTyped, QStages, QSlots

\* A request does not exceed its limit.
LEMMA GivenIsWithinLimit ==
    ASSUME NEW q, QInv(q), NEW who \in SUBSET Peer,
           NEW to \in [Hash -> Idle(q, who) \union {None}], NEW rank,
           IsAllocation(q, who, rank, to),
           NEW p \in Idle(q, who)
    PROVE  Cardinality({h \in Hash : to[h] = p}) <= MaxTxRetrievals
<1> DEFINE left == {h \in Free(q, p) : to[h] # None => rank[to[h]] >= rank[p]}
<1>1. left \subseteq Hash
  BY DEF Free, Idle, QInv, QTyped
<1>2. Cardinality(left) \in Nat
  BY <1>1, FetcherConstants, FS_Subset, FS_CardinalityType
<1>3. Cardinality({h \in Hash : to[h] = p}) =
        IF Cardinality(left) < MaxTxRetrievals THEN Cardinality(left) ELSE MaxTxRetrievals
  BY DEF IsAllocation
<1> HIDE DEF left
<1> QED
  BY <1>2, <1>3, FetcherConstants

\* An idle peer with a hash that nobody gets is given something itself.
LEMMA FreeIsGiven ==
    ASSUME NEW q, q.announces \in [Peer -> SUBSET Hash], NEW who \in SUBSET Peer,
           NEW to \in [Hash -> Idle(q, who) \union {None}], NEW rank,
           IsAllocation(q, who, rank, to),
           NEW p \in Idle(q, who), NEW h \in Free(q, p), to[h] = None
    PROVE  \E g \in Hash : to[g] = p
<1> SUFFICES ASSUME ~ \E g \in Hash : to[g] = p PROVE FALSE
  OBVIOUS
<1> DEFINE left == {g \in Free(q, p) : to[g] # None => rank[to[g]] >= rank[p]}
<1>1. left \subseteq Hash /\ h \in left
  BY DEF Free, Idle
<1>2. Cardinality({g \in Hash : to[g] = p}) =
        IF Cardinality(left) < MaxTxRetrievals THEN Cardinality(left) ELSE MaxTxRetrievals
  BY DEF IsAllocation
<1>3. Cardinality({g \in Hash : to[g] = p}) = 0
  <2>1. {g \in Hash : to[g] = p} = {}
    BY Zenon
  <2> QED
    BY <2>1, FS_EmptySet, Zenon
<1> HIDE DEF left
<1>4. IsFiniteSet(left) /\ Cardinality(left) \in Nat
  BY <1>1, FetcherConstants, FS_Subset, FS_CardinalityType
<1>5. Cardinality(left) # 0
  BY <1>1, <1>4, FS_EmptySet, Zenon
<1> QED
  BY <1>2, <1>3, <1>4, <1>5, FetcherConstants

\* What scheduleFetches makes of a queue is again one.
LEMMA AllocateInv ==
    ASSUME NEW q, QInv(q), NEW w, Apart(q, w), NEW who \in SUBSET Peer,
           NEW to \in [Hash -> Idle(q, who) \union {None}], NEW rank,
           IsAllocation(q, who, rank, to)
    PROVE  QInv(Allocate(q, to)) /\ Apart(Allocate(q, to), w)
<1> USE FetcherConstants
<1>1. \A h \in Hash : to[h] # None =>
        /\ to[h] \in Peer /\ q.requests[to[h]].state = "none"
        /\ q.fetching[h] = None /\ q.alternates[h] = {} /\ to[h] \in q.announced[h]
  BY GivenIsQueued
<1>2. \A p \in Peer : (\E h \in Hash : to[h] = p) => q.requests[p].hashes = {}
  BY <1>1 DEF QInv, QRequests
<1>3. QTyped(Allocate(q, to))
  BY <1>1 DEF QInv, QTyped, Allocate, Queue, Request, Live
<1>4. QRequests(Allocate(q, to))
  <2> SUFFICES ASSUME NEW p \in Peer
               PROVE  LET r == Allocate(q, to).requests[p]
                      IN  /\ Cardinality(r.hashes) <= MaxTxRetrievals
                          /\ r.state # "live" => r.hashes = {}
    BY DEF QRequests
  <2>1. CASE \E h \in Hash : to[h] = p
    <3>1. p \in Idle(q, who)
      BY <2>1
    <3>2. Cardinality({h \in Hash : to[h] = p}) <= MaxTxRetrievals
      BY <3>1, GivenIsWithinLimit
    <3> QED
      BY <2>1, <3>2 DEF Allocate, Queue, Live
  <2>2. CASE ~ \E h \in Hash : to[h] = p
    BY <2>2 DEF QInv, QRequests, Allocate, Queue
  <2> QED
    BY <2>1, <2>2
<1>5. QStages(Allocate(q, to))
  BY <1>1 DEF QInv, QTyped, QStages, Allocate, Queue
<1>6. QFetching(Allocate(q, to))
  <2> SUFFICES ASSUME NEW h \in Hash, NEW p \in Peer
               PROVE  LET n == Allocate(q, to)
                      IN  /\ n.fetching[h] = p <=> h \in n.requests[p].hashes \ n.requests[p].stolen
                          /\ n.fetching[h] = p => p \in n.alternates[h]
    BY DEF QFetching
  <2>1. CASE \E g \in Hash : to[g] = p
    <3>1. q.fetching[h] # p
      BY <1>2, <2>1, Zenon DEF QInv, QFetching
    <3> QED
      BY <1>1, <2>1, <3>1 DEF Allocate, Queue, Live
  <2>2. CASE ~ \E g \in Hash : to[g] = p
    BY <1>1, <2>2 DEF QInv, QFetching, Allocate, Queue
  <2> QED
    BY <2>1, <2>2
<1>7. QSlots(Allocate(q, to))
  BY <1>1 DEF QInv, QTyped, QSlots, Allocate, Queue
<1>8. Apart(Allocate(q, to), w)
  BY <1>1 DEF Apart, Allocate, Queue
<1> QED
  BY <1>3, <1>4, <1>5, <1>6, <1>7, <1>8 DEF QInv
\* A handler that has prepared the queue q keeps the invariant, whether or not it
\* goes on to schedule.
LEMMA SetInv ==
    ASSUME NEW q, QInv(q), NEW w, Apart(q, w), SetQueue(q)
    PROVE  QInv(Current)' /\ Apart(Current', w)
BY DEF SetQueue, Current, Queue, QInv, QTyped, QRequests, QStages, QFetching, QSlots, Apart

LEMMA ScheduleInv ==
    ASSUME NEW q, QInv(q), NEW w, Apart(q, w), NEW who \in SUBSET Peer, NEW timer,
           NoPanic, scheduleFetches(q, who, timer)
    PROVE  QInv(Current)' /\ Apart(Current', w) /\ NoPanic'
<1>1. PICK to \in [Hash -> Idle(q, who) \union {None}] :
        /\ \E rank \in Ranks(Idle(q, who)) : IsAllocation(q, who, rank, to)
        /\ SetQueue(Allocate(q, to))
        /\ panicked' = (panicked \/ \E h \in Hash : to[h] # None /\ q.alternates[h] # {})
  BY Zenon DEF scheduleFetches
<1>2. PICK rank \in Ranks(Idle(q, who)) : IsAllocation(q, who, rank, to)
  BY <1>1
<1>3. QInv(Allocate(q, to)) /\ Apart(Allocate(q, to), w)
  BY <1>2, AllocateInv
<1>4. \A h \in Hash : to[h] # None => q.alternates[h] = {}
  BY <1>2, GivenIsQueued
<1>5. NoPanic'
  BY <1>1, <1>4, Zenon DEF NoPanic
<1>6. QInv(Current)' /\ Apart(Current', w)
  BY <1>1, <1>3, SetInv
<1> QED
  BY <1>5, <1>6

\* After scheduleFetches for all peers nobody is left to be asked.
LEMMA ScheduleAsks ==
    ASSUME NEW q, QInv(q), NEW timer, scheduleFetches(q, Peer, timer)
    PROVE  AllAsked'
<1>1. PICK to \in [Hash -> Idle(q, Peer) \union {None}] :
        /\ \E rank \in Ranks(Idle(q, Peer)) : IsAllocation(q, Peer, rank, to)
        /\ SetQueue(Allocate(q, to))
  BY Zenon DEF scheduleFetches
<1>2. PICK rank \in Ranks(Idle(q, Peer)) : IsAllocation(q, Peer, rank, to)
  BY <1>1
<1> SUFFICES ASSUME NEW h \in Hash, announced'[h] # {},
                    NEW p \in Peer, h \in announces'[p], requests'[p].state = "none"
             PROVE  FALSE
  BY Zenon DEF AllAsked, Askable
<1>3. /\ announces' = q.announces
      /\ announced'[h] = IF to[h] # None THEN {} ELSE q.announced[h]
      /\ requests'[p] = IF \E g \in Hash : to[g] = p
                        THEN Live({g \in Hash : to[g] = p}) ELSE q.requests[p]
  BY <1>1 DEF SetQueue, Allocate, Queue
<1>4. ~ \E g \in Hash : to[g] = p
  BY <1>3 DEF Live
<1>5. to[h] = None /\ q.fetching[h] = None
  <2>1. to[h] = None /\ q.announced[h] # {}
    BY <1>3, Zenon
  <2> QED
    BY <2>1, Zenon DEF QInv, QStages
<1>6. p \in Idle(q, Peer) /\ h \in Free(q, p)
  BY <1>3, <1>4, <1>5, Zenon DEF Idle, Free
<1>7. q.announces \in [Peer -> SUBSET Hash]
  BY Zenon DEF QInv, QTyped
<1> QED
  BY <1>2, <1>4, <1>5, <1>6, <1>7, FreeIsGiven

\* Before the timeout timer runs, there is no request.  When scheduleFetches is
\* called for all that could be asked, it starts the timer or has nothing to do.
LEMMA ScheduleTimer ==
    ASSUME NEW q, q.announces \in [Peer -> SUBSET Hash], NEW who \in SUBSET Peer,
           scheduleFetches(q, who, FALSE),
           \A p \in Peer : q.requests[p].state = "none",
           \A h \in Hash : q.announced[h] # {} => \E p \in who : h \in Free(q, p)
    PROVE  \/ timeoutTimer'
           \/ /\ \A p \in Peer : requests'[p].state = "none"
              /\ \A h \in Hash : announced'[h] = {}
<1>1. PICK to \in [Hash -> Idle(q, who) \union {None}] :
        /\ \E rank \in Ranks(Idle(q, who)) : IsAllocation(q, who, rank, to)
        /\ SetQueue(Allocate(q, to))
        /\ timeoutTimer' = \E h \in Hash : to[h] # None
  BY Zenon DEF scheduleFetches
<1>2. PICK rank \in Ranks(Idle(q, who)) : IsAllocation(q, who, rank, to)
  BY <1>1
<1> SUFFICES ASSUME \A h \in Hash : to[h] = None
             PROVE  /\ \A p \in Peer : requests'[p].state = "none"
                    /\ \A h \in Hash : announced'[h] = {}
  BY <1>1, Zenon
<1>3. ASSUME NEW p \in Peer PROVE requests'[p].state = "none"
  <2>1. requests'[p] = q.requests[p]
    BY <1>1, <1>3, FetcherConstants DEF SetQueue, Allocate, Queue
  <2> QED
    BY <2>1, Zenon
<1>4. ASSUME NEW h \in Hash PROVE announced'[h] = {}
  <2> SUFFICES ASSUME q.announced[h] # {} PROVE FALSE
    BY <1>1 DEF SetQueue, Allocate, Queue
  <2>1. PICK p \in who : h \in Free(q, p)
    BY Zenon
  <2>2. p \in Idle(q, who) /\ p # None
    BY <2>1, FetcherConstants, Zenon DEF Idle
  <2> QED
    BY <1>2, <2>1, <2>2, FreeIsGiven
<1> QED
  BY <1>3, <1>4, Zenon
-----------------------------------------------------------------------------
(***************************************************************************)
(* The handlers.                                                           *)
(***************************************************************************)

\* Nothing is announced yet.
LEMMA InitInv == Init => IInv
<1> SUFFICES ASSUME Init PROVE IInv
  OBVIOUS
<1> USE FetcherConstants
<1>1. Flags /\ NoPanic
  BY Zenon DEF Init, Flags, NoPanic
<1>2. Waiting /\ Apart(Current, waitlist)
  BY DEF Init, Waiting, Apart, Current, Queue
<1>3. QRequests(Current)
  BY EmptyIsWithinLimit, Zenon DEF Init, Current, Queue, QRequests, NoRequest
<1>4. QInv(Current)
  BY <1>3 DEF Init, Current, Queue, QInv, QTyped, QStages, QFetching, QSlots, NoRequest, Request
<1> QED
  BY <1>1, <1>2, <1>4 DEF IInv

\* The flags are flags.
LEMMA FlagsInv ==
    ASSUME Flags, Next
    PROVE  Flags'
<1> USE DEF Flags, scheduleFetches
<1>1. ASSUME NEW p \in Peer, NEW hs \in SUBSET Hash \ {{}}, Notify(p, hs) PROVE Flags'
  BY <1>1, Zenon DEF Notify
<1>2. ASSUME NEW due \in SUBSET Hash, waitTrigger(due) PROVE Flags'
  BY <1>2, Zenon DEF waitTrigger
<1>3. ASSUME NEW late \in SUBSET Peer, timeoutTrigger(late) PROVE Flags'
  BY <1>3, Zenon DEF timeoutTrigger, waitVars
<1>4. ASSUME NEW p \in Peer, NEW hs \in SUBSET Hash, NEW direct \in BOOLEAN,
             Enqueue(p, hs, direct)
      PROVE  Flags'
  BY <1>4, Zenon DEF Enqueue
<1>5. ASSUME NEW p \in Peer, Drop(p) PROVE Flags'
  BY <1>5, Zenon DEF Drop
<1> QED
  BY <1>1, <1>2, <1>3, <1>4, <1>5, Zenon DEF Next

\* A hash that is announced again joins the stage it is in.
LEMMA NotifyInv ==
    ASSUME IInv, NEW p \in Peer, NEW hs \in SUBSET Hash, Notify(p, hs)
    PROVE  NoPanic' /\ Waiting' /\ Apart(Current', waitlist') /\ QInv(Current)'
<1> USE FetcherConstants
<1>1. PICK kept \in Kept(p, hs) :
        LET flying == {h \in kept : alternates[h] # {}}
            queued == {h \in kept \ flying : announced[h] # {}}
            waits == kept \ (flying \union queued)
            q == Queue([announces EXCEPT ![p] = @ \union flying \union queued],
                       [h \in Hash |-> announced[h] \union (IF h \in queued THEN {p} ELSE {})],
                       fetching, requests,
                       [h \in Hash |-> alternates[h] \union (IF h \in flying THEN {p} ELSE {})])
        IN  /\ waitlist' = [h \in Hash |-> waitlist[h] \union (IF h \in waits THEN {p} ELSE {})]
            /\ waitslots' = [waitslots EXCEPT ![p] = @ \union waits]
            /\ IF announces[p] = {} /\ q.announces[p] # {}
               THEN scheduleFetches(q, {p}, timeoutTimer)
               ELSE SetQueue(q) /\ UNCHANGED <<timeoutTimer, panicked>>
  BY Zenon DEF Notify
<1> DEFINE flying == {h \in kept : alternates[h] # {}}
           queued == {h \in kept \ flying : announced[h] # {}}
           waits == kept \ (flying \union queued)
           q == Queue([announces EXCEPT ![p] = @ \union flying \union queued],
                      [h \in Hash |-> announced[h] \union (IF h \in queued THEN {p} ELSE {})],
                      fetching, requests,
                      [h \in Hash |-> alternates[h] \union (IF h \in flying THEN {p} ELSE {})])
<1>2. kept \subseteq Hash
  BY Zenon DEF Kept
<1>3. Waiting'
  BY <1>1, <1>2 DEF IInv, Waiting
<1>4. Apart(q, waitlist')
  BY <1>1, <1>2, Zenon DEF IInv, Apart, Current, Queue, QInv, QStages, Waiting
<1>5. QInv(q)
  <2> USE DEF IInv, Current, Queue, QInv
  <2>1. QTyped(q)
    BY <1>2, Zenon DEF QTyped
  <2>2. QRequests(q)
    BY Zenon DEF QRequests
  <2>3. QStages(q)
    BY <1>2, Zenon DEF QTyped, QStages
  <2>4. QFetching(q)
    BY <1>2 DEF QTyped, QFetching
  <2>5. QSlots(q)
    BY <1>2 DEF QTyped, QSlots
  <2> QED
    BY <2>1, <2>2, <2>3, <2>4, <2>5, Zenon
<1>6. \/ scheduleFetches(q, {p}, timeoutTimer)
      \/ SetQueue(q) /\ panicked' = panicked
  BY <1>1
<1> HIDE DEF q
<1> QED
  BY <1>3, <1>4, <1>5, <1>6, SetInv, ScheduleInv DEF IInv, NoPanic

\* A hash whose waiting time is over is queued for those that announced it.
LEMMA WaitTriggerInv ==
    ASSUME IInv, NEW due \in SUBSET Hash, waitTrigger(due)
    PROVE  NoPanic' /\ Waiting' /\ Apart(Current', waitlist') /\ QInv(Current)'
<1> USE FetcherConstants
<1> DEFINE actives == UNION {waitlist[h] : h \in due}
           q == Queue([p \in Peer |-> announces[p] \union {h \in due : p \in waitlist[h]}],
                      [h \in Hash |-> IF h \in due THEN waitlist[h] ELSE announced[h]],
                      fetching, requests, alternates)
<1>1. /\ due \subseteq {h \in Hash : waitlist[h] # {}}
      /\ waitlist' = [h \in Hash |-> IF h \in due THEN {} ELSE waitlist[h]]
      /\ waitslots' = [p \in Peer |-> waitslots[p] \ due]
  BY DEF waitTrigger
<1>2. scheduleFetches(q, actives, timeoutTimer)
  <2>1. ~ \E h \in due : announced[h] # {}
    BY <1>1 DEF IInv, Apart, Current, Queue
  <2> QED
    BY <2>1, Zenon DEF waitTrigger
<1>3. actives \in SUBSET Peer
  BY DEF IInv, Waiting
<1>4. Waiting'
  BY <1>1 DEF IInv, Waiting
<1>5. Apart(q, waitlist')
  BY <1>1, Zenon DEF IInv, Apart, Current, Queue
<1>6. QInv(q)
  <2> USE DEF IInv, Current, Queue, QInv
  <2>1. QTyped(q)
    BY Zenon DEF QTyped, Waiting
  <2>2. QRequests(q)
    BY Zenon DEF QRequests
  <2>3. QStages(q)
    BY <1>1, Zenon DEF QStages, Apart
  <2>4. QFetching(q)
    BY DEF QFetching
  <2>5. QSlots(q)
    BY <1>1 DEF QTyped, QSlots, Apart, Waiting
  <2> QED
    BY <2>1, <2>2, <2>3, <2>4, <2>5, Zenon
<1> HIDE DEF q, actives
<1> QED
  BY <1>2, <1>3, <1>4, <1>5, <1>6, ScheduleInv DEF IInv
-----------------------------------------------------------------------------
\* The types of the queue as it is.
LEMMA CurrentTyped ==
    ASSUME IInv
    PROVE  /\ announces \in [Peer -> SUBSET Hash] /\ announced \in [Hash -> SUBSET Peer]
           /\ fetching \in [Hash -> Peer \union {None}] /\ requests \in [Peer -> Request]
           /\ alternates \in [Hash -> SUBSET Peer]
BY DEF IInv, QInv, QTyped, Current, Queue

\* What the invariant says of its requests,
LEMMA CurrentRequests ==
    ASSUME IInv, NEW x \in Peer
    PROVE  /\ Cardinality(requests[x].hashes) <= MaxTxRetrievals
           /\ requests[x].state # "live" => requests[x].hashes = {}
BY DEF IInv, QInv, QRequests, Current, Queue

\* of the stages of a hash,
LEMMA CurrentStages ==
    ASSUME IInv, NEW h \in Hash
    PROVE  /\ announced[h] # {} => fetching[h] = None
           /\ alternates[h] # {} <=> fetching[h] # None
           /\ waitlist[h] # {} => announced[h] = {} /\ fetching[h] = None
<1>1. /\ announced[h] # {} => fetching[h] = None
      /\ alternates[h] # {} <=> fetching[h] # None
  BY DEF IInv, QInv, QStages, Current, Queue
<1>2. waitlist[h] # {} => announced[h] = {} /\ fetching[h] = None
  BY DEF IInv, Apart, Current, Queue
<1> QED
  BY <1>1, <1>2

\* of what is fetched,
LEMMA CurrentFetching ==
    ASSUME IInv, NEW h \in Hash, NEW x \in Peer
    PROVE  /\ h \in Open(x) <=> fetching[h] = x
           /\ fetching[h] = x => x \in alternates[h]
BY DEF IInv, QInv, QFetching, Current, Queue, Open

\* and of the slots of a peer.
LEMMA CurrentSlots ==
    ASSUME IInv, NEW x \in Peer, NEW h \in announces[x]
    PROVE  x \in announced[h] \union alternates[h]
BY DEF IInv, QInv, QSlots, Current, Queue

\* The hashes that a request has to bring are hashes.
LEMMA OpenTyped ==
    ASSUME IInv, NEW x \in Peer
    PROVE  Open(x) \subseteq Hash
BY CurrentTyped DEF Open, Request

\* What late requests did not bring is queued for the others that announced it.
LEMMA TimeoutTriggerInv ==
    ASSUME IInv, NEW late \in SUBSET Peer, timeoutTrigger(late)
    PROVE  /\ NoPanic' /\ Waiting' /\ Apart(Current', waitlist') /\ QInv(Current)'
           /\ AllAsked'
<1> USE FetcherConstants
<1> DEFINE back == UNION {Open(p) : p \in late}
           as == [p \in Peer |-> announces[p] \ (IF p \in late THEN Open(p) ELSE {})]
           ad == [h \in Hash |-> IF h \in back
                      THEN alternates[h] \ {p \in late : h \in Open(p)} ELSE announced[h]]
           f == [h \in Hash |-> IF h \in back THEN None ELSE fetching[h]]
           r == [p \in Peer |-> IF p \in late THEN Dangling ELSE requests[p]]
           al == [h \in Hash |-> IF h \in back THEN {} ELSE alternates[h]]
           q == Queue(as, ad, f, r, al)
<1>1. back \subseteq Hash /\ \A h \in Hash : h \in back <=> fetching[h] \in late
  BY CurrentFetching, OpenTyped
<1>2. scheduleFetches(q, Peer, TRUE)
  <2>1. ~ \E h \in back : announced[h] # {}
    BY <1>1, CurrentStages, Zenon
  <2> QED
    BY <2>1, Zenon DEF timeoutTrigger
<1>3. Waiting' /\ waitlist' = waitlist
  BY DEF timeoutTrigger, waitVars, IInv, Waiting
<1> HIDE DEF back
<1>4. QTyped(q)
  <2>1. as \in [Peer -> SUBSET Hash] /\ ad \in [Hash -> SUBSET Peer]
    BY CurrentTyped
  <2>2. f \in [Hash -> Peer \union {None}] /\ al \in [Hash -> SUBSET Peer]
    BY CurrentTyped
  <2>3. r \in [Peer -> Request]
    BY CurrentTyped DEF Dangling, Request
  <2> HIDE DEF as, ad, f, r, al
  <2> QED
    BY <2>1, <2>2, <2>3, Zenon DEF QTyped, Queue
<1>5. /\ q.announces = as /\ q.announced = ad /\ q.fetching = f /\ q.requests = r
      /\ q.alternates = al
  <2> HIDE DEF as, ad, f, r, al
  <2> QED
    BY Zenon DEF Queue
<1> HIDE DEF q
<1>6. Apart(q, waitlist)
  BY <1>1, <1>5, CurrentStages DEF Apart
<1>7. QRequests(q)
  BY <1>5, CurrentRequests, EmptyIsWithinLimit DEF QRequests, Dangling
<1>8. QStages(q)
  BY <1>1, <1>5, CurrentTyped, CurrentStages DEF QStages
<1>9. QFetching(q)
  <2> HIDE DEF f, r, al
  <2> SUFFICES ASSUME NEW h \in Hash, NEW p \in Peer
               PROVE  /\ f[h] = p <=> h \in r[p].hashes \ r[p].stolen
                      /\ f[h] = p => p \in al[h]
    BY <1>5, ZenonT(40) DEF QFetching
  <2>1. f[h] = p <=> fetching[h] = p /\ p \notin late
    BY <1>1 DEF f
  <2>2. h \in r[p].hashes \ r[p].stolen <=> h \in Open(p) /\ p \notin late
    BY DEF r, Dangling, Open
  <2>3. fetching[h] = p /\ p \notin late => p \in al[h]
    BY <1>1, CurrentFetching DEF al
  <2> QED
    BY <2>1, <2>2, <2>3, CurrentFetching, Zenon
<1>10. QSlots(q)
  <2> SUFFICES ASSUME NEW p \in Peer, NEW h \in as[p]
               PROVE  p \in ad[h] \union al[h]
    BY <1>5, Zenon DEF QSlots
  <2>1. h \in Hash /\ h \in announces[p] /\ (p \in late => h \notin Open(p))
    BY CurrentTyped
  <2>2. p \in announced[h] \union alternates[h]
    BY <2>1, CurrentSlots, Zenon
  <2>3. p \in late => fetching[h] # p
    BY <2>1, CurrentFetching, Zenon
  <2>4. h \in back => announced[h] = {}
    BY <1>1, <2>1, CurrentStages
  <2> QED
    BY <2>1, <2>2, <2>3, <2>4, CurrentFetching
<1>11. QInv(q)
  BY <1>4, <1>7, <1>8, <1>9, <1>10, Zenon DEF QInv
<1>12. AllAsked'
  BY <1>2, <1>11, ScheduleAsks, Zenon
<1> QED
  BY <1>2, <1>3, <1>6, <1>11, <1>12, ScheduleInv, ZenonT(40) DEF IInv

\* The peer leaves, and what its request has to bring is queued for the others.
LEMMA DropInv ==
    ASSUME IInv, NEW p \in Peer, Drop(p)
    PROVE  /\ NoPanic' /\ Waiting' /\ Apart(Current', waitlist') /\ QInv(Current)'
           /\ requests[p].state # "none" => AllAsked'
<1> USE FetcherConstants
<1> DEFINE back == Open(p)
           al == [h \in Hash |-> IF h \in back THEN {} ELSE alternates[h]]
           ad == [h \in Hash |-> IF h \in back /\ alternates[h] \ {p} # {}
                                 THEN alternates[h] \ {p} ELSE announced[h]]
           as == [announces EXCEPT ![p] = {}]
           an == [h \in Hash |-> ad[h] \ (IF h \in announces[p] THEN {p} ELSE {})]
           f == [h \in Hash |-> IF h \in back THEN None ELSE fetching[h]]
           r == [requests EXCEPT ![p] = NoRequest]
           q == Queue(as, an, f, r, al)
<1>1. back \subseteq Hash /\ \A h \in Hash : h \in back <=> fetching[h] = p
  BY CurrentFetching, OpenTyped
<1>2. /\ waitlist' = [h \in Hash |-> waitlist[h] \ (IF h \in waitslots[p] THEN {p} ELSE {})]
      /\ waitslots' = [waitslots EXCEPT ![p] = {}]
      /\ \/ SetQueue(q) /\ panicked' = panicked /\ requests[p].state = "none"
         \/ scheduleFetches(q, Peer, TRUE)
  BY Zenon DEF Drop
<1>3. Waiting'
  BY <1>2, ZenonT(40) DEF IInv, Waiting
<1> HIDE DEF back
<1>4. QTyped(q)
  <2>1. as \in [Peer -> SUBSET Hash] /\ an \in [Hash -> SUBSET Peer]
    BY CurrentTyped
  <2>2. f \in [Hash -> Peer \union {None}] /\ al \in [Hash -> SUBSET Peer]
    BY CurrentTyped
  <2>3. r \in [Peer -> Request]
    BY CurrentTyped DEF NoRequest, Request
  <2> HIDE DEF as, an, f, r, al
  <2> QED
    BY <2>1, <2>2, <2>3, Zenon DEF QTyped, Queue
<1>5. /\ q.announces = as /\ q.announced = an /\ q.fetching = f /\ q.requests = r
      /\ q.alternates = al
  <2> HIDE DEF as, an, f, r, al
  <2> QED
    BY Zenon DEF Queue
<1> HIDE DEF q
<1>6. Apart(q, waitlist')
  <2> SUFFICES ASSUME NEW h \in Hash, waitlist'[h] # {}
               PROVE  an[h] = {} /\ f[h] = None
    BY <1>5, Zenon DEF Apart
  <2>1. waitlist[h] # {}
    BY <1>2
  <2>2. announced[h] = {} /\ fetching[h] = None
    BY <2>1, CurrentStages, Zenon
  <2> QED
    BY <1>1, <2>2, FetcherConstants
<1>7. QRequests(q)
  BY <1>5, CurrentTyped, CurrentRequests, EmptyIsWithinLimit DEF QRequests, NoRequest
<1>8. QStages(q)
  BY <1>1, <1>5, CurrentTyped, CurrentStages DEF QStages
<1>9. QFetching(q)
  <2> HIDE DEF f, r, al
  <2> SUFFICES ASSUME NEW h \in Hash, NEW x \in Peer
               PROVE  /\ f[h] = x <=> h \in r[x].hashes \ r[x].stolen
                      /\ f[h] = x => x \in al[h]
    BY <1>5, ZenonT(40) DEF QFetching
  <2>1. f[h] = x <=> fetching[h] = x /\ x # p
    BY <1>1 DEF f
  <2>2. h \in r[x].hashes \ r[x].stolen <=> h \in Open(x) /\ x # p
    BY CurrentTyped DEF r, NoRequest, Open
  <2>3. fetching[h] = x /\ x # p => x \in al[h]
    BY <1>1, CurrentFetching DEF al
  <2> QED
    BY <2>1, <2>2, <2>3, CurrentFetching, Zenon
<1>10. QSlots(q)
  <2> SUFFICES ASSUME NEW x \in Peer, NEW h \in as[x]
               PROVE  x \in an[h] \union al[h]
    BY <1>5, Zenon DEF QSlots
  <2>1. x # p /\ h \in announces[x] /\ h \in Hash
    BY CurrentTyped
  <2>2. x \in announced[h] \union alternates[h]
    BY <2>1, CurrentSlots, Zenon
  <2>3. h \in back => announced[h] = {}
    BY <1>1, <2>1, CurrentStages
  <2> QED
    BY <2>1, <2>2, <2>3
<1>11. QInv(q)
  BY <1>4, <1>7, <1>8, <1>9, <1>10, Zenon DEF QInv
<1>12. CASE SetQueue(q) /\ panicked' = panicked /\ requests[p].state = "none"
  BY <1>3, <1>6, <1>11, <1>12, SetInv, ZenonT(40) DEF IInv, NoPanic
<1>13. CASE scheduleFetches(q, Peer, TRUE)
  <2>1. AllAsked'
    BY <1>11, <1>13, ScheduleAsks, Zenon
  <2> QED
    BY <1>3, <1>6, <1>11, <1>13, <2>1, ScheduleInv, ZenonT(40) DEF IInv
<1> QED
  BY <1>2, <1>12, <1>13, Zenon
-----------------------------------------------------------------------------
\* Transactions that arrive outside of the request that has to bring them are
\* taken out of it.
LEMMA UntrackInv ==
    ASSUME IInv, NEW p \in Peer, NEW direct \in BOOLEAN, NEW gone \in SUBSET Hash,
           ~direct \/ requests[p].state = "none"
    PROVE  QInv(Untrack(p, direct, gone))
<1> USE FetcherConstants
<1> USE DEF IInv, Current, Queue, QInv, Untrack
<1>1. requests[p].state = "none" => \A h \in Hash : fetching[h] # p
  BY DEF QRequests, QFetching
<1>2. QTyped(Untrack(p, direct, gone))
  BY DEF QTyped, Request
<1>3. QRequests(Untrack(p, direct, gone))
  BY DEF QTyped, QRequests, Request
<1>4. QStages(Untrack(p, direct, gone))
  BY DEF QTyped, QStages
<1>5. QFetching(Untrack(p, direct, gone))
  BY <1>1 DEF QTyped, QFetching, Request
<1>6. QSlots(Untrack(p, direct, gone))
  BY Zenon DEF QTyped, QSlots
<1> QED
  BY <1>2, <1>3, <1>4, <1>5, <1>6, Zenon

\* The answer to a request ends it, and what it did not bring is queued for the
\* others, or for all, that announced it.
LEMMA AnswerInv ==
    ASSUME IInv, NEW p \in Peer, NEW hs \in SUBSET Hash, NEW gone \in SUBSET hs,
           \A h \in hs \ gone : waitlist[h] # {},
           NEW skipped \in SUBSET (Open(p) \ hs)
    PROVE  QInv(Answer(Untrack(p, TRUE, gone), p, Open(p) \ hs, skipped))
<1> USE FetcherConstants
<1> DEFINE back == Open(p) \ hs
           q == Answer(Untrack(p, TRUE, gone), p, back, skipped)
<1>1. \A h \in Hash : h \in Open(p) <=> fetching[h] = p
  BY CurrentFetching, Zenon
<1>2. \A h \in Hash : fetching[h] = p => h \in gone \/ h \in back
  BY <1>1, CurrentStages, FetcherConstants
<1>3. /\ back \subseteq Hash
      /\ \A h \in back : fetching[h] = p /\ announced[h] = {} /\ h \notin gone
  BY <1>1, CurrentFetching, CurrentStages, OpenTyped
<1>4. skipped \subseteq back
  OBVIOUS
<1> HIDE DEF back
<1> USE DEF IInv, Current, Queue, QInv, Untrack, Answer, Others
<1>5. QTyped(q)
  <2>1. q.requests \in [Peer -> Request]
    <3>1. Untrack(p, TRUE, gone).requests \in [Peer -> Request]
      BY DEF QTyped, Request
    <3>2. NoRequest \in Request
      BY DEF NoRequest, Request
    <3> QED
      BY <3>1, <3>2
  <2>2. q.announces \in [Peer -> SUBSET Hash] /\ q.announced \in [Hash -> SUBSET Peer]
    BY DEF QTyped
  <2>3. q.fetching \in [Hash -> Peer \union {None}] /\ q.alternates \in [Hash -> SUBSET Peer]
    BY DEF QTyped
  <2> QED
    BY <2>1, <2>2, <2>3 DEF QTyped
<1>6. QRequests(q)
  <2>1. ASSUME NEW x \in Peer
        PROVE  /\ Cardinality(q.requests[x].hashes) <= MaxTxRetrievals
               /\ q.requests[x].state # "live" => q.requests[x].hashes = {}
    <3>1. /\ x = p => q.requests[x] = NoRequest
          /\ x # p => /\ q.requests[x].hashes = requests[x].hashes
                      /\ q.requests[x].state = requests[x].state
      BY CurrentTyped DEF Request
    <3> HIDE DEF q, IInv, Current, Queue, QInv, Untrack, Answer, Others
    <3>2. NoRequest.hashes = {}
      BY Zenon DEF NoRequest
    <3>3. CASE x = p
      BY <3>1, <3>2, <3>3, EmptyIsWithinLimit, Zenon
    <3>4. CASE x # p
      BY <3>1, <3>4, CurrentRequests, Zenon
    <3> QED
      BY <3>3, <3>4, Zenon
  <2> HIDE DEF q
  <2> QED
    BY <2>1, Zenon DEF QRequests
<1>7. QStages(q)
  BY <1>3 DEF QTyped, QStages
<1>8. QFetching(q)
  <2>1. ASSUME NEW h \in Hash, NEW x \in Peer
        PROVE  /\ q.fetching[h] = x <=> h \in q.requests[x].hashes \ q.requests[x].stolen
               /\ q.fetching[h] = x => x \in q.alternates[h]
    <3>1. /\ q.fetching[h] = IF h \in back \/ h \in gone THEN None ELSE fetching[h]
          /\ q.alternates[h] = IF h \in back \/ h \in gone THEN {} ELSE alternates[h]
      OBVIOUS
    <3>2. h \in q.requests[x].hashes \ q.requests[x].stolen
              <=> x # p /\ h \in Open(x) /\ ~ (h \in gone /\ fetching[h] = x)
      BY CurrentTyped DEF Request, NoRequest, Open
    <3> HIDE DEF q, IInv, Current, Queue, QInv, Untrack, Answer, Others
    <3> QED
      BY <1>2, <1>3, <3>1, <3>2, CurrentFetching
  <2> HIDE DEF q
  <2> QED
    BY <2>1, Zenon DEF QFetching
<1>9. QSlots(q)
  BY <1>3, <1>4 DEF QTyped, QSlots
<1> QED
  BY <1>5, <1>6, <1>7, <1>8, <1>9, Zenon DEF back

\* A delivery, of whatever and for whatever request, keeps the invariant.
LEMMA EnqueueInv ==
    ASSUME IInv, NEW p \in Peer, NEW hs \in SUBSET Hash, NEW direct \in BOOLEAN,
           Enqueue(p, hs, direct)
    PROVE  /\ NoPanic' /\ Waiting' /\ Apart(Current', waitlist') /\ QInv(Current)'
           /\ direct /\ requests[p].state # "none" => AllAsked'
<1> USE FetcherConstants
<1> DEFINE waits == {h \in hs : waitlist[h] # {}}
           q == Untrack(p, direct, hs \ waits)
           back == Open(p) \ hs
<1>1. /\ waitlist' = [h \in Hash |-> IF h \in waits THEN {} ELSE waitlist[h]]
      /\ waitslots' = [o \in Peer |-> waitslots[o] \ waits]
  BY DEF Enqueue
<1>2. Waiting'
  BY <1>1 DEF IInv, Waiting
<1>3. Apart(q, waitlist')
  BY <1>1 DEF IInv, Apart, Current, Queue, Untrack
<1>4. CASE /\ ~direct \/ requests[p].state = "none"
           /\ SetQueue(q) /\ panicked' = panicked
  <2>1. QInv(q)
    BY <1>4, UntrackInv
  <2> HIDE DEF q
  <2> QED
    BY <1>2, <1>3, <1>4, <2>1, SetInv DEF IInv, NoPanic
<1>5. ASSUME direct,
             NEW skipped \in IF requests[p].hashes \intersect hs = {} THEN {back}
                             ELSE SUBSET back,
             IF \E h \in back : q.announced[h] # {} /\ Others(p, h, skipped) # {}
             THEN panicked' = TRUE /\ UNCHANGED <<queueVars, timeoutTimer>>
             ELSE scheduleFetches(Answer(q, p, back, skipped), Peer, timeoutTimer)
      PROVE  NoPanic' /\ Apart(Current', waitlist') /\ QInv(Current)' /\ AllAsked'
  <2> DEFINE n == Answer(q, p, back, skipped)
  <2>1. skipped \in SUBSET back
    BY <1>5
  <2>2. direct = TRUE
    BY <1>5
  <2>3. QInv(n)
    BY <2>1, <2>2, AnswerInv, ZenonT(40)
  <2>4. \A h \in back : h \in Hash /\ fetching[h] = p
    BY CurrentFetching, OpenTyped
  <2>5. Apart(n, waitlist')
    BY <1>1, <1>3, <2>4, Zenon DEF IInv, Apart, Current, Queue, Answer
  <2>6. \A h \in back : q.announced[h] = {}
    BY <2>4, CurrentStages, CurrentTyped DEF Untrack, Queue
  <2>7. scheduleFetches(n, Peer, timeoutTimer)
    BY <1>5, <2>6, Zenon
  <2> HIDE DEF n
  <2>8. AllAsked'
    BY <2>3, <2>7, ScheduleAsks, Zenon
  <2> QED
    BY <2>3, <2>5, <2>7, <2>8, ScheduleInv, Zenon DEF IInv
<1>6. \/ /\ ~direct \/ requests[p].state = "none"
         /\ SetQueue(q) /\ panicked' = panicked
      \/ /\ direct
         /\ \E skipped \in IF requests[p].hashes \intersect hs = {} THEN {back} ELSE SUBSET back :
                IF \E h \in back : q.announced[h] # {} /\ Others(p, h, skipped) # {}
                THEN panicked' = TRUE /\ UNCHANGED <<queueVars, timeoutTimer>>
                ELSE scheduleFetches(Answer(q, p, back, skipped), Peer, timeoutTimer)
  BY Zenon DEF Enqueue
<1> HIDE DEF q, back
<1> QED
  BY <1>2, <1>4, <1>5, <1>6, ZenonT(40)
-----------------------------------------------------------------------------
\* The invariant holds throughout.
LEMMA Invariance == Spec => []IInv
<1>1. ASSUME IInv, [Next]_vars PROVE IInv'
  <2>1. CASE UNCHANGED vars
    BY <1>1, <2>1, ZenonT(40)
       DEF vars, waitVars, queueVars, IInv, Flags, NoPanic, Waiting, Apart, Current, QInv,
           QTyped, QRequests, QStages, QFetching, QSlots
  <2>2. CASE Next
    <3>1. Flags'
      BY <1>1, <2>2, FlagsInv DEF IInv
    <3>2. NoPanic' /\ Waiting' /\ Apart(Current', waitlist') /\ QInv(Current)'
      BY <1>1, <2>2, NotifyInv, WaitTriggerInv, TimeoutTriggerInv, EnqueueInv, DropInv DEF Next
    <3> QED
      BY <3>1, <3>2 DEF IInv
  <2> QED
    BY <1>1, <2>1, <2>2
<1> QED
  BY <1>1, InitInv, PTL DEF Spec

\* The loop of the fetcher never reaches one of its panics, whatever the peers
\* announce, deliver or fail to deliver, and in whatever order.
THEOREM NeverPanics == Spec => []NoPanic
<1>1. IInv => NoPanic
  BY DEF IInv
<1> QED
  BY <1>1, Invariance, PTL

\* The maps of the loop keep their shape, whatever peers announce, deliver and
\* drop, and no request has more hashes than its limit.
THEOREM TypeCorrect == Spec => []TypeOK
<1>1. IInv => TypeOK
  BY CurrentTyped, CurrentRequests, Zenon DEF IInv, Flags, Waiting, TypeOK
<1> QED
  BY <1>1, Invariance, PTL

\* Each hash is in one stage, and its alternates are with the third.
THEOREM StagesAreDisjoint == Spec => []OneStage
<1>1. IInv => OneStage
  BY CurrentStages, Zenon DEF OneStage
<1> QED
  BY <1>1, Invariance, PTL

\* fetching and the open requests say the same.
THEOREM FetchingMatchesRequests == Spec => []FetchingIsRequested
<1>1. IInv => FetchingIsRequested
  BY CurrentFetching, Zenon DEF FetchingIsRequested
<1> QED
  BY <1>1, Invariance, PTL

\* What counts against the cap of a peer is tracked for it.
THEOREM SlotsTracked == Spec => []SlotsAreTracked
<1>1. IInv => SlotsAreTracked
  BY CurrentSlots, Zenon DEF IInv, Waiting, SlotsAreTracked
<1> QED
  BY <1>1, Invariance, PTL
-----------------------------------------------------------------------------
(***************************************************************************)
(* Why the loop goes on.                                                   *)
(***************************************************************************)

\* The timeout timer runs for good once it was started.
LEMMA TimeoutStays ==
    ASSUME timeoutTimer = TRUE, Next
    PROVE  timeoutTimer' = TRUE
<1> USE DEF scheduleFetches
<1>1. ASSUME NEW p \in Peer, NEW hs \in SUBSET Hash \ {{}}, Notify(p, hs)
      PROVE  timeoutTimer' = TRUE
  BY <1>1, Zenon DEF Notify
<1>2. ASSUME NEW due \in SUBSET Hash, waitTrigger(due) PROVE timeoutTimer' = TRUE
  BY <1>2, Zenon DEF waitTrigger
<1>3. ASSUME NEW late \in SUBSET Peer, timeoutTrigger(late) PROVE timeoutTimer' = TRUE
  BY <1>3, Zenon DEF timeoutTrigger
<1>4. ASSUME NEW p \in Peer, NEW hs \in SUBSET Hash, NEW direct \in BOOLEAN,
             Enqueue(p, hs, direct)
      PROVE  timeoutTimer' = TRUE
  BY <1>4, Zenon DEF Enqueue
<1>5. ASSUME NEW p \in Peer, Drop(p) PROVE timeoutTimer' = TRUE
  BY <1>5, Zenon DEF Drop
<1> QED
  BY <1>1, <1>2, <1>3, <1>4, <1>5, Zenon DEF Next

\* Whenever a hash waits, the wait timer runs.
LEMMA WaitTimerInv ==
    ASSUME IInv, TimersRun, Next, NEW h \in Hash, waitlist'[h] # {}
    PROVE  waitTimer'
<1> USE DEF TimersRun
<1>1. ASSUME NEW p \in Peer, NEW hs \in SUBSET Hash \ {{}}, Notify(p, hs)
      PROVE  waitTimer'
  BY <1>1, Zenon DEF Notify
<1>2. ASSUME NEW due \in SUBSET Hash, waitTrigger(due) PROVE waitTimer'
  BY <1>2, Zenon DEF waitTrigger
<1>3. ASSUME NEW late \in SUBSET Peer, timeoutTrigger(late) PROVE waitTimer'
  BY <1>3, Zenon DEF timeoutTrigger, waitVars
<1>4. ASSUME NEW p \in Peer, NEW hs \in SUBSET Hash, NEW direct \in BOOLEAN,
             Enqueue(p, hs, direct)
      PROVE  waitTimer'
  BY <1>4, Zenon DEF Enqueue
<1>5. ASSUME NEW p \in Peer, Drop(p) PROVE waitTimer'
  BY <1>5, Zenon DEF Drop
<1> QED
  BY <1>1, <1>2, <1>3, <1>4, <1>5, Zenon DEF Next

\* Nothing is queued, fetched or asked for.
NothingOut ==
    /\ \A p \in Peer : requests[p].state = "none"
    /\ \A h \in Hash : announced[h] = {}

\* With the timeout timer off the queue is empty: nobody has been asked, so
\* nothing is being fetched, and no slot is taken by anything but what waits.
LEMMA OffIsEmpty ==
    ASSUME IInv, NothingOut
    PROVE  /\ \A h \in Hash : fetching[h] = None /\ alternates[h] = {}
           /\ \A p \in Peer : announces[p] = {} /\ Open(p) = {}
<1>1. ASSUME NEW p \in Peer PROVE Open(p) = {}
  <2>1. requests[p].hashes = {}
    BY <1>1, CurrentRequests DEF NothingOut
  <2> QED
    BY <2>1 DEF Open
<1>2. ASSUME NEW h \in Hash PROVE fetching[h] = None /\ alternates[h] = {}
  <2>1. fetching[h] \in Peer \union {None}
    BY <1>2, CurrentTyped
  <2>2. \A p \in Peer : fetching[h] # p
    BY <1>1, <1>2, CurrentFetching, Zenon
  <2>3. fetching[h] = None
    BY <2>1, <2>2, Zenon
  <2> QED
    BY <1>2, <2>3, CurrentStages, Zenon
<1>3. ASSUME NEW p \in Peer PROVE announces[p] = {}
  <2> SUFFICES ASSUME NEW h \in announces[p] PROVE FALSE
    BY Zenon
  <2>1. h \in Hash
    BY <1>3, CurrentTyped
  <2> QED
    BY <1>2, <1>3, <2>1, CurrentSlots, Zenon DEF NothingOut
<1> QED
  BY <1>1, <1>2, <1>3, Zenon

\* Setting the queue sets its maps.
LEMMA QueueSet ==
    ASSUME NEW as, NEW ad, NEW f, NEW r, NEW al, SetQueue(Queue(as, ad, f, r, al))
    PROVE  announces' = as /\ announced' = ad /\ requests' = r
BY DEF SetQueue, Queue

\* The timeout timer is started before anything is out.
LEMMA TimeoutTimerInv ==
    ASSUME IInv, NothingOut, timeoutTimer = FALSE, Next
    PROVE  timeoutTimer' \/ NothingOut'
<1>0. /\ \A h \in Hash : fetching[h] = None /\ alternates[h] = {}
      /\ \A p \in Peer : announces[p] = {} /\ Open(p) = {}
  BY OffIsEmpty, Zenon
<1>n. /\ \A p \in Peer : requests[p].state = "none"
      /\ \A h \in Hash : announced[h] = {}
  BY Zenon DEF NothingOut
<1>1. ASSUME NEW p \in Peer, NEW hs \in SUBSET Hash \ {{}}, Notify(p, hs)
      PROVE  timeoutTimer' \/ NothingOut'
  <2>1. PICK kept \in Kept(p, hs) :
        LET flying == {h \in kept : alternates[h] # {}}
            queued == {h \in kept \ flying : announced[h] # {}}
            q == Queue([announces EXCEPT ![p] = @ \union flying \union queued],
                       [h \in Hash |-> announced[h] \union (IF h \in queued THEN {p} ELSE {})],
                       fetching, requests,
                       [h \in Hash |-> alternates[h] \union (IF h \in flying THEN {p} ELSE {})])
        IN  IF announces[p] = {} /\ q.announces[p] # {}
            THEN scheduleFetches(q, {p}, timeoutTimer)
            ELSE SetQueue(q) /\ UNCHANGED <<timeoutTimer, panicked>>
    BY <1>1, Zenon DEF Notify
  <2>2. kept \subseteq Hash
    BY <1>1, Zenon DEF Kept
  <2> DEFINE flying == {h \in kept : alternates[h] # {}}
             queued == {h \in kept \ flying : announced[h] # {}}
             q == Queue([announces EXCEPT ![p] = @ \union flying \union queued],
                        [h \in Hash |-> announced[h] \union (IF h \in queued THEN {p} ELSE {})],
                        fetching, requests,
                        [h \in Hash |-> alternates[h] \union (IF h \in flying THEN {p} ELSE {})])
  <2>3. flying = {} /\ queued = {}
    BY <1>0, <1>n, <2>2, Zenon
  <2>4. q.announces[p] = announces[p] \union flying \union queued
    <3>1. announces \in [Peer -> SUBSET Hash]
      BY CurrentTyped, Zenon
    <3>2. q.announces = [announces EXCEPT ![p] = @ \union flying \union queued]
      BY Zenon DEF Queue
    <3> HIDE DEF q, flying, queued
    <3> QED
      BY <1>1, <3>1, <3>2
  <2>5. q.announces[p] = {}
    BY <1>0, <1>1, <2>3, <2>4
  <2>6. SetQueue(q)
    BY <2>1, <2>5, Zenon
  <2> HIDE DEF flying, queued
  <2>7. /\ requests' = requests
        /\ announced' = [h \in Hash |-> announced[h] \union (IF h \in queued THEN {p} ELSE {})]
    BY <2>6, QueueSet, Zenon DEF q
  <2> HIDE DEF q
  <2>8. ASSUME NEW h \in Hash PROVE announced'[h] = {}
    <3>1. announced'[h] = announced[h] \union (IF h \in queued THEN {p} ELSE {})
      BY <2>7, <2>8, Zenon
    <3> QED
      BY <1>n, <2>3, <2>8, <3>1, Zenon
  <2> QED
    BY <1>n, <2>7, <2>8, Zenon DEF NothingOut
<1>2. ASSUME NEW due \in SUBSET Hash, waitTrigger(due)
      PROVE  timeoutTimer' \/ NothingOut'
  <2> DEFINE actives == UNION {waitlist[h] : h \in due}
             q == Queue([p \in Peer |-> announces[p] \union {h \in due : p \in waitlist[h]}],
                        [h \in Hash |-> IF h \in due THEN waitlist[h] ELSE announced[h]],
                        fetching, requests, alternates)
  <2>1. scheduleFetches(q, actives, FALSE)
    BY <1>2, <1>n, Zenon DEF waitTrigger
  <2>2. waitlist \in [Hash -> SUBSET Peer]
    BY Zenon DEF IInv, Waiting
  <2>3. actives \in SUBSET Peer
    BY <1>2, <2>2
  <2>4. q.announces \in [Peer -> SUBSET Hash]
    BY <1>2, CurrentTyped, Zenon DEF Queue
  <2>5. \A p \in Peer : q.requests[p].state = "none"
    BY <1>n DEF Queue
  <2>6. ASSUME NEW h \in Hash, q.announced[h] # {}
        PROVE  \E p \in actives : h \in Free(q, p)
    <3>1. h \in due /\ waitlist[h] # {}
      BY <1>n, <2>6 DEF Queue
    <3>2. PICK p \in waitlist[h] : TRUE
      BY <3>1, Zenon
    <3>3. p \in actives /\ p \in Peer
      BY <2>2, <3>1, <3>2, Zenon
    <3>4. h \in Free(q, p)
      BY <1>0, <3>1, <3>2, <3>3 DEF Free, Queue
    <3> QED
      BY <3>3, <3>4, Zenon
  <2> HIDE DEF q, actives
  <2> QED
    BY <2>1, <2>3, <2>4, <2>5, <2>6, ScheduleTimer, Zenon DEF NothingOut
<1>3. ASSUME NEW p \in Peer, NEW hs \in SUBSET Hash, NEW direct \in BOOLEAN,
             Enqueue(p, hs, direct)
      PROVE  NothingOut'
  <2> DEFINE gone == hs \ {h \in hs : waitlist[h] # {}}
  <2>1. SetQueue(Untrack(p, direct, gone))
    BY <1>3, <1>n, Zenon DEF Enqueue
  <2>2. \A h \in Hash : announced'[h] = {}
    BY <1>n, <2>1 DEF SetQueue, Untrack, Queue
  <2>3. \A o \in Peer : requests'[o] = [requests[o] EXCEPT !.stolen =
                @ \union {h \in gone : fetching[h] = o /\ (o # p \/ ~direct)}]
    BY <2>1 DEF SetQueue, Untrack, Queue
  <2>4. ASSUME NEW o \in Peer PROVE requests'[o].state = requests[o].state
    <3>1. requests[o] \in Request
      BY CurrentTyped, Zenon
    <3> HIDE DEF gone
    <3> QED
      BY <2>3, <3>1, Zenon DEF Request
  <2> QED
    BY <1>n, <2>2, <2>4, Zenon DEF NothingOut
<1>4. ASSUME NEW p \in Peer, Drop(p) PROVE NothingOut'
  <2> DEFINE back == Open(p)
             al == [h \in Hash |-> IF h \in back THEN {} ELSE alternates[h]]
             ad == [h \in Hash |-> IF h \in back /\ alternates[h] \ {p} # {}
                                   THEN alternates[h] \ {p} ELSE announced[h]]
             q == Queue([announces EXCEPT ![p] = {}],
                        [h \in Hash |-> ad[h] \ (IF h \in announces[p] THEN {p} ELSE {})],
                        [h \in Hash |-> IF h \in back THEN None ELSE fetching[h]],
                        [requests EXCEPT ![p] = NoRequest], al)
  <2>1. SetQueue(q)
    BY <1>4, <1>n, Zenon DEF Drop
  <2>2. /\ requests' = [requests EXCEPT ![p] = NoRequest]
        /\ announced' = [h \in Hash |-> ad[h] \ (IF h \in announces[p] THEN {p} ELSE {})]
    <3> HIDE DEF ad, al
    <3> QED
      BY <2>1, QueueSet, Zenon
  <2>4. \A h \in Hash : ad[h] = {}
    BY <1>0, <1>n, <1>4, Zenon
  <2> HIDE DEF ad, q
  <2>5. \A h \in Hash : announced'[h] = {}
    BY <2>2, <2>4, Zenon
  <2>6. \A o \in Peer : requests'[o].state = "none"
    BY <1>n, <2>2, CurrentTyped DEF NoRequest
  <2> QED
    BY <2>5, <2>6, Zenon DEF NothingOut
<1>5. ASSUME NEW late \in SUBSET Peer PROVE ~timeoutTrigger(late)
  BY Zenon DEF timeoutTrigger
<1> QED
  BY <1>1, <1>2, <1>3, <1>4, <1>5, Zenon DEF Next

\* A timer runs whenever something waits for it: the wait timer while a hash is
\* on the waiting list, the timeout timer while a request is out or a hash is
\* queued.  So no order of announcements, deliveries, timeouts and drops leaves
\* the loop with work and nothing to wake it (the safety half of MovesOn).
THEOREM TimersKeepRunning == Spec => []TimersRun
<1>1. Init => TimersRun
  BY DEF Init, TimersRun, NoRequest
<1>2. ASSUME IInv, TimersRun, [Next]_vars PROVE TimersRun'
  <2>1. CASE UNCHANGED vars
    BY <1>2, <2>1, Zenon DEF vars, waitVars, queueVars, TimersRun
  <2>2. CASE Next
    <3>1. \A h \in Hash : waitlist'[h] # {} => waitTimer'
      BY <1>2, <2>2, WaitTimerInv, Zenon
    <3>2. timeoutTimer' \/ NothingOut'
      <4>1. CASE timeoutTimer = TRUE
        BY <2>2, <4>1, TimeoutStays, Zenon
      <4>2. CASE timeoutTimer = FALSE
        <5>1. NothingOut
          BY <1>2, <4>2, Zenon DEF TimersRun, NothingOut
        <5> QED
          BY <1>2, <2>2, <4>2, <5>1, TimeoutTimerInv, Zenon
      <4> QED
        BY <1>2, <4>1, <4>2, Zenon DEF IInv, Flags
    <3> QED
      BY <3>1, <3>2, Zenon DEF TimersRun, NothingOut
  <2> QED
    BY <1>2, <2>1, <2>2, Zenon
<1> QED
  BY <1>1, <1>2, Invariance, PTL DEF Spec

\* A delivery, a drop or a timeout that frees a peer leaves no queued hash that
\* an idle peer could be asked for.
AsksAll ==
    \/ \E late \in SUBSET Peer : timeoutTrigger(late)
    \/ \E p \in Peer, hs \in SUBSET Hash : requests[p].state # "none" /\ Enqueue(p, hs, TRUE)
    \/ \E p \in Peer : requests[p].state # "none" /\ Drop(p)

\* Whenever the timeout timer fires, a request is answered or a peer with a
\* request is dropped, the loop asks for all it can: afterwards no hash is queued
\* that one of the idle peers has announced (with TimersKeepRunning, why a hash
\* that can be asked for does not stay queued).
THEOREM FreedPeersAreAsked == Spec => [][AsksAll => AllAsked']_vars
<1>1. ASSUME IInv, AsksAll PROVE AllAsked'
  <2>1. ASSUME NEW late \in SUBSET Peer, timeoutTrigger(late) PROVE AllAsked'
    BY <1>1, <2>1, TimeoutTriggerInv, Zenon
  <2>2. ASSUME NEW p \in Peer, NEW hs \in SUBSET Hash,
               requests[p].state # "none", Enqueue(p, hs, TRUE)
        PROVE  AllAsked'
    BY <1>1, <2>2, EnqueueInv, Zenon
  <2>3. ASSUME NEW p \in Peer, requests[p].state # "none", Drop(p) PROVE AllAsked'
    BY <1>1, <2>3, DropInv, Zenon
  <2> QED
    BY <1>1, <2>1, <2>2, <2>3, Zenon DEF AsksAll
<1> QED
  BY <1>1, Invariance, PTL
=============================================================================
