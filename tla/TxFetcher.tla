------------------------------ MODULE TxFetcher -----------------------------
(***************************************************************************)
(* TxFetcher (eth/fetcher/tx_fetcher.go): one loop that decides from which *)
(* peer to ask for a transaction that peers have announced by its hash.    *)
(*                                                                         *)
(* A hash waits for a while in case it is broadcast (waitlist), is then    *)
(* queued for a peer that announced it and has no request under way        *)
(* (announced), and is fetched (fetching).  A request ends by a direct     *)
(* delivery, a timeout or the drop of the peer, and what it did not bring  *)
(* is queued again for the other peers that announced it (alternates).     *)
(* One step here is one case of the loop.                                  *)
(*                                                                         *)
(* Left out: the order of a packet (any part of it may be cut off) and of  *)
(* a request, which is that of a Go map and decides only what Deliver      *)
(* calls skipped; the clock, for which any due subset may time out; the    *)
(* transaction pool and the set of underpriced hashes, a filter in front   *)
(* of Notify that any hash may have passed before the loop sees it.        *)
(***************************************************************************)
EXTENDS Naturals, FiniteSets

CONSTANTS
    Peer,
    Hash,
    MaxTxAnnounces,     \* hashes a peer may have announced
    MaxTxRetrievals,    \* hashes in one request
    None

VARIABLES
    waitlist,       \* [Hash -> SUBSET Peer], stage 1; {} where Go has no entry
    waitslots,      \* [Peer -> SUBSET Hash], the same by peer
    announced,      \* [Hash -> SUBSET Peer], stage 2
    announces,      \* [Peer -> SUBSET Hash], stages 2 and 3 by peer
    fetching,       \* [Hash -> Peer or None], stage 3
    requests,       \* [Peer -> Request]
    alternates,     \* [Hash -> SUBSET Peer], who announced what is fetched
    waitTimer,      \* BOOLEAN, waitTrigger will fire
    timeoutTimer,   \* BOOLEAN, timeoutTrigger will fire
    panicked        \* BOOLEAN, one of the loop's panics was reached

waitVars == <<waitlist, waitslots, waitTimer>>
queueVars == <<announced, announces, fetching, requests, alternates>>
vars == <<waitVars, queueVars, timeoutTimer, panicked>>

ASSUME FetcherConstants ==
    /\ None \notin Peer
    /\ IsFiniteSet(Hash)
    /\ MaxTxAnnounces \in Nat \ {0} /\ MaxTxRetrievals \in Nat \ {0}

\* A request that timed out stays, with no hashes, until it is answered.
Request == [state : {"none", "live", "dangling"},
            hashes : SUBSET Hash, stolen : SUBSET Hash]
NoRequest == [state |-> "none", hashes |-> {}, stolen |-> {}]
Dangling == [state |-> "dangling", hashes |-> {}, stolen |-> {}]
Live(hs) == [state |-> "live", hashes |-> hs, stolen |-> {}]

TypeOK ==
    /\ waitlist \in [Hash -> SUBSET Peer]
    /\ waitslots \in [Peer -> SUBSET Hash]
    /\ announced \in [Hash -> SUBSET Peer]
    /\ announces \in [Peer -> SUBSET Hash]
    /\ fetching \in [Hash -> Peer \union {None}]
    /\ requests \in [Peer -> Request]
    /\ alternates \in [Hash -> SUBSET Peer]
    /\ waitTimer \in BOOLEAN /\ timeoutTimer \in BOOLEAN /\ panicked \in BOOLEAN
    /\ \A p \in Peer :
        /\ Cardinality(requests[p].hashes) <= MaxTxRetrievals
        /\ requests[p].state # "live" => requests[p].hashes = {}

Init ==
    /\ waitlist = [h \in Hash |-> {}]
    /\ waitslots = [p \in Peer |-> {}]
    /\ announced = [h \in Hash |-> {}]
    /\ announces = [p \in Peer |-> {}]
    /\ fetching = [h \in Hash |-> None]
    /\ requests = [p \in Peer |-> NoRequest]
    /\ alternates = [h \in Hash |-> {}]
    /\ waitTimer = FALSE
    /\ timeoutTimer = FALSE
    /\ panicked = FALSE
-----------------------------------------------------------------------------
(***************************************************************************)
(* scheduleFetches.  The handlers change the queue and then schedule, in   *)
(* one step, so the queue is passed on as a record.                        *)
(***************************************************************************)

Queue(as, ad, f, r, al) ==
    [announces |-> as, announced |-> ad, fetching |-> f, requests |-> r, alternates |-> al]

SetQueue(q) ==
    /\ announces' = q.announces
    /\ announced' = q.announced
    /\ fetching' = q.fetching
    /\ requests' = q.requests
    /\ alternates' = q.alternates

\* The peers in who that are idle, and what could be asked from each.
Idle(q, who) == {p \in who : q.requests[p].state = "none"}
Free(q, p) == {h \in q.announces[p] : q.fetching[h] = None}

\* Mutant: the loop ends after the limit has been passed.
IsAllocationOver(q, who, rank, to) ==
    \A p \in Idle(q, who) :
        LET got == {h \in Hash : to[h] = p}
            left == {h \in Free(q, p) : to[h] # None => rank[to[h]] >= rank[p]}
        IN  /\ got \subseteq Free(q, p)
            /\ Cardinality(got) = IF Cardinality(left) < MaxTxRetrievals + 1
                                  THEN Cardinality(left) ELSE MaxTxRetrievals + 1

\* to gives the hashes to peers as a loop over the peers in the order of rank
\* does: each takes as many of those still free as fit in a request.
IsAllocation(q, who, rank, to) ==
    \A p \in Idle(q, who) :
        LET got == {h \in Hash : to[h] = p}
            left == {h \in Free(q, p) : to[h] # None => rank[to[h]] >= rank[p]}
        IN  /\ got \subseteq Free(q, p)
            /\ Cardinality(got) = IF Cardinality(left) < MaxTxRetrievals
                                  THEN Cardinality(left) ELSE MaxTxRetrievals

Ranks(S) == {r \in [S -> 1..Cardinality(S)] : \A p, o \in S : r[p] = r[o] => p = o}

Allocate(q, to) ==
    Queue(q.announces,
          [h \in Hash |-> IF to[h] # None THEN {} ELSE q.announced[h]],
          [h \in Hash |-> IF to[h] # None THEN to[h] ELSE q.fetching[h]],
          [p \in Peer |-> IF \E h \in Hash : to[h] = p
                          THEN Live({h \in Hash : to[h] = p}) ELSE q.requests[p]],
          [h \in Hash |-> IF to[h] # None THEN q.announced[h] ELSE q.alternates[h]])

\* timer tells whether the timeout timer runs without this call, which starts it
\* with the first request only.
scheduleFetches(q, who, timer) ==
    \E to \in [Hash -> Idle(q, who) \union {None}] :
        /\ \E rank \in Ranks(Idle(q, who)) : IsAllocation(q, who, rank, to)
        /\ SetQueue(Allocate(q, to))
        /\ timeoutTimer' = (timer \/
                            ((\A p \in Peer : q.requests[p].state = "none")
                             /\ \E h \in Hash : to[h] # None))
        /\ panicked' = (panicked \/ \E h \in Hash : to[h] # None /\ q.alternates[h] # {})
-----------------------------------------------------------------------------
(***************************************************************************)
(* Announcements.                                                          *)
(***************************************************************************)

Used(p) == Cardinality(waitslots[p]) + Cardinality(announces[p])

\* What is kept of a packet.  At the cap the code keeps as many hashes as the
\* packet is over the cap, not as many as there is room for.
Kept(p, hs) ==
    {kept \in SUBSET hs :
        Cardinality(kept) = IF Used(p) + Cardinality(hs) > MaxTxAnnounces
                            THEN Used(p) + Cardinality(hs) - MaxTxAnnounces
                            ELSE Cardinality(hs)}

\* Mutant: no look at what is being fetched.
NotifyQueued(p, hs) ==
    /\ Used(p) < MaxTxAnnounces
    /\ \E kept \in Kept(p, hs) :
        LET queued == {h \in kept : announced[h] # {}}
            waits == kept \ queued
        IN  /\ waitlist' = [h \in Hash |-> waitlist[h] \union (IF h \in waits THEN {p} ELSE {})]
            /\ waitslots' = [waitslots EXCEPT ![p] = @ \union waits]
            /\ waitTimer' = (waitTimer \/ waits # {})
            /\ announces' = [announces EXCEPT ![p] = @ \union queued]
            /\ announced' = [h \in Hash |-> announced[h] \union (IF h \in queued THEN {p} ELSE {})]
            /\ UNCHANGED <<fetching, requests, alternates, timeoutTimer, panicked>>

\* The hashes in hs join the stage they are in, or the waiting list.
Notify(p, hs) ==
    /\ Used(p) < MaxTxAnnounces
    /\ \E kept \in Kept(p, hs) :
        LET flying == {h \in kept : alternates[h] # {}}
            queued == {h \in kept \ flying : announced[h] # {}}
            waits == kept \ (flying \union queued)
            q == Queue([announces EXCEPT ![p] = @ \union flying \union queued],
                       [h \in Hash |-> announced[h] \union (IF h \in queued THEN {p} ELSE {})],
                       fetching, requests,
                       [h \in Hash |-> alternates[h] \union (IF h \in flying THEN {p} ELSE {})])
        IN  /\ waitlist' = [h \in Hash |-> waitlist[h] \union (IF h \in waits THEN {p} ELSE {})]
            /\ waitslots' = [waitslots EXCEPT ![p] = @ \union waits]
            /\ waitTimer' = (waitTimer \/ ((\A h \in Hash : waitlist[h] = {}) /\ waits # {}))
            /\ IF announces[p] = {} /\ q.announces[p] # {}
               THEN scheduleFetches(q, {p}, timeoutTimer)
               ELSE SetQueue(q) /\ UNCHANGED <<timeoutTimer, panicked>>

\* The waiting time of the hashes in due is over.  None may be due: the timer
\* may have been started for a hash that has left the list.
waitTrigger(due) ==
    /\ waitTimer
    /\ due \subseteq {h \in Hash : waitlist[h] # {}}
    /\ LET actives == UNION {waitlist[h] : h \in due}
           q == Queue([p \in Peer |-> announces[p] \union {h \in due : p \in waitlist[h]}],
                      [h \in Hash |-> IF h \in due THEN waitlist[h] ELSE announced[h]],
                      fetching, requests, alternates)
       IN  /\ waitlist' = [h \in Hash |-> IF h \in due THEN {} ELSE waitlist[h]]
           /\ waitslots' = [p \in Peer |-> waitslots[p] \ due]
           /\ waitTimer' = \E h \in Hash \ due : waitlist[h] # {}
           /\ IF \E h \in due : announced[h] # {}
              THEN panicked' = TRUE /\ UNCHANGED <<queueVars, timeoutTimer>>
              ELSE scheduleFetches(q, actives, timeoutTimer)
-----------------------------------------------------------------------------
(***************************************************************************)
(* The ends of a request.                                                  *)
(***************************************************************************)

\* What a request still has to bring.
Open(p) == requests[p].hashes \ requests[p].stolen

\* Mutant: the timer is not started again.
timeoutTriggerOnce(late) ==
    /\ timeoutTimer
    /\ late \subseteq {p \in Peer : requests[p].state = "live"}
    /\ LET back == UNION {Open(p) : p \in late}
           q == Queue([p \in Peer |-> announces[p] \ (IF p \in late THEN Open(p) ELSE {})],
                      [h \in Hash |-> IF h \in back
                            THEN alternates[h] \ {p \in late : h \in Open(p)} ELSE announced[h]],
                      [h \in Hash |-> IF h \in back THEN None ELSE fetching[h]],
                      [p \in Peer |-> IF p \in late THEN Dangling ELSE requests[p]],
                      [h \in Hash |-> IF h \in back THEN {} ELSE alternates[h]])
       IN  IF \E h \in back : announced[h] # {}
           THEN panicked' = TRUE /\ UNCHANGED <<queueVars, timeoutTimer>>
           ELSE scheduleFetches(q, Peer, FALSE)
    /\ UNCHANGED waitVars

\* Mutant: the late hashes still count for the late peers.
timeoutTriggerSlots(late) ==
    /\ timeoutTimer
    /\ late \subseteq {p \in Peer : requests[p].state = "live"}
    /\ LET back == UNION {Open(p) : p \in late}
           q == Queue(announces,
                      [h \in Hash |-> IF h \in back
                            THEN alternates[h] \ {p \in late : h \in Open(p)} ELSE announced[h]],
                      [h \in Hash |-> IF h \in back THEN None ELSE fetching[h]],
                      [p \in Peer |-> IF p \in late THEN Dangling ELSE requests[p]],
                      [h \in Hash |-> IF h \in back THEN {} ELSE alternates[h]])
       IN  IF \E h \in back : announced[h] # {}
           THEN panicked' = TRUE /\ UNCHANGED <<queueVars, timeoutTimer>>
           ELSE scheduleFetches(q, Peer, TRUE)
    /\ UNCHANGED waitVars

\* The requests of the peers in late have timed out.  Their hashes are queued
\* again for the other peers.  None may be late, as above.
timeoutTrigger(late) ==
    /\ timeoutTimer
    /\ late \subseteq {p \in Peer : requests[p].state = "live"}
    /\ LET back == UNION {Open(p) : p \in late}
           q == Queue([p \in Peer |-> announces[p] \ (IF p \in late THEN Open(p) ELSE {})],
                      [h \in Hash |-> IF h \in back
                            THEN alternates[h] \ {p \in late : h \in Open(p)} ELSE announced[h]],
                      [h \in Hash |-> IF h \in back THEN None ELSE fetching[h]],
                      [p \in Peer |-> IF p \in late THEN Dangling ELSE requests[p]],
                      [h \in Hash |-> IF h \in back THEN {} ELSE alternates[h]])
       IN  IF \E h \in back : announced[h] # {}
           THEN panicked' = TRUE /\ UNCHANGED <<queueVars, timeoutTimer>>
           ELSE scheduleFetches(q, Peer, TRUE)
    /\ UNCHANGED waitVars

\* Mutant: nothing is marked as stolen.
UntrackUnmarked(p, direct, gone) ==
    Queue([o \in Peer |-> announces[o] \ gone],
          [h \in Hash |-> IF h \in gone THEN {} ELSE announced[h]],
          [h \in Hash |-> IF h \in gone THEN None ELSE fetching[h]],
          requests,
          [h \in Hash |-> IF h \in gone THEN {} ELSE alternates[h]])

\* Transactions arrived from p, by broadcast or as the answer to a request.
\* They leave the stage they are in; the request that was to bring them from
\* another peer, or by another way, has them marked as stolen.
Untrack(p, direct, gone) ==
    Queue([o \in Peer |-> announces[o] \ gone],
          [h \in Hash |-> IF h \in gone THEN {} ELSE announced[h]],
          [h \in Hash |-> IF h \in gone THEN None ELSE fetching[h]],
          [o \in Peer |-> [requests[o] EXCEPT !.stolen =
                @ \union {h \in gone : fetching[h] = o /\ (o # p \/ ~direct)}]],
          [h \in Hash |-> IF h \in gone THEN {} ELSE alternates[h]])

\* Who is left to ask for a hash that p did not bring.
Others(p, h, skipped) == alternates[h] \ (IF h \in skipped THEN {p} ELSE {})

\* Mutant: the missing hashes stay marked as being fetched.
AnswerFetching(q, p, back, skipped) ==
    Queue([q.announces EXCEPT ![p] = @ \ skipped],
          [h \in Hash |-> q.announced[h] \union
                (IF h \in back THEN Others(p, h, skipped) ELSE {})],
          q.fetching,
          [q.requests EXCEPT ![p] = NoRequest],
          [h \in Hash |-> IF h \in back THEN {} ELSE q.alternates[h]])

\* The request of p was answered.  The hashes in back did not come.  For those
\* in skipped, which the request names before something that did come, p is not
\* asked again.
Answer(q, p, back, skipped) ==
    Queue([q.announces EXCEPT ![p] = @ \ skipped],
          [h \in Hash |-> q.announced[h] \union
                (IF h \in back THEN Others(p, h, skipped) ELSE {})],
          [h \in Hash |-> IF h \in back THEN None ELSE q.fetching[h]],
          [q.requests EXCEPT ![p] = NoRequest],
          [h \in Hash |-> IF h \in back THEN {} ELSE q.alternates[h]])

\* cleanup, for the hashes hs that Enqueue has given to the pool.
Enqueue(p, hs, direct) ==
    LET waits == {h \in hs : waitlist[h] # {}}
        q == Untrack(p, direct, hs \ waits)
        back == Open(p) \ hs
    IN  /\ waitlist' = [h \in Hash |-> IF h \in waits THEN {} ELSE waitlist[h]]
        /\ waitslots' = [o \in Peer |-> waitslots[o] \ waits]
        /\ UNCHANGED waitTimer
        /\ \/ /\ ~direct \/ requests[p].state = "none"
              /\ SetQueue(q)
              /\ UNCHANGED <<timeoutTimer, panicked>>
           \/ /\ direct /\ requests[p].state # "none"
              /\ \E skipped \in IF requests[p].hashes \intersect hs = {} THEN {back}
                                ELSE SUBSET back :
                    IF \E h \in back : q.announced[h] # {} /\ Others(p, h, skipped) # {}
                    THEN panicked' = TRUE /\ UNCHANGED <<queueVars, timeoutTimer>>
                    ELSE scheduleFetches(Answer(q, p, back, skipped), Peer, timeoutTimer)

\* The peer is gone, or a request could not be sent to it.
Drop(p) ==
    LET back == Open(p)
        al == [h \in Hash |-> IF h \in back THEN {} ELSE alternates[h]]
        ad == [h \in Hash |-> IF h \in back /\ alternates[h] \ {p} # {}
                              THEN alternates[h] \ {p} ELSE announced[h]]
        q == Queue([announces EXCEPT ![p] = {}],
                   [h \in Hash |-> ad[h] \ (IF h \in announces[p] THEN {p} ELSE {})],
                   [h \in Hash |-> IF h \in back THEN None ELSE fetching[h]],
                   [requests EXCEPT ![p] = NoRequest], al)
    IN  /\ waitlist' = [h \in Hash |-> waitlist[h] \ (IF h \in waitslots[p] THEN {p} ELSE {})]
        /\ waitslots' = [waitslots EXCEPT ![p] = {}]
        /\ waitTimer' = (waitTimer \/ (waitslots[p] # {} /\ \E h \in Hash : waitlist[h] \ {p} # {}))
        /\ IF requests[p].state = "none"
           THEN SetQueue(q) /\ UNCHANGED <<timeoutTimer, panicked>>
           ELSE scheduleFetches(q, Peer, TRUE)

Next ==
    \/ \E p \in Peer, hs \in SUBSET Hash \ {{}} : Notify(p, hs)
    \/ \E due \in SUBSET Hash : waitTrigger(due)
    \/ \E late \in SUBSET Peer : timeoutTrigger(late)
    \/ \E p \in Peer, hs \in SUBSET Hash, direct \in BOOLEAN : Enqueue(p, hs, direct)
    \/ \E p \in Peer : Drop(p)

Spec == Init /\ [][Next]_vars

\* The clock moves on: a waiting hash becomes due, a request late.  Nothing makes
\* peers announce, answer or leave.
Clock ==
    /\ \A h \in Hash : WF_vars(\E due \in SUBSET Hash : h \in due /\ waitTrigger(due))
    /\ \A p \in Peer : WF_vars(\E late \in SUBSET Peer : p \in late /\ timeoutTrigger(late))
    /\ WF_vars(\E late \in SUBSET Peer : timeoutTrigger(late))

FairSpec == Spec /\ Clock
-----------------------------------------------------------------------------
(***************************************************************************)
(* Properties.                                                             *)
(***************************************************************************)

\* A hash is in one stage at most (the comment on TxFetcher: "Each tracked
\* transaction (hash) must only be present in one of those three stages"), and
\* alternates belong to the third.
OneStage ==
    \A h \in Hash :
        /\ waitlist[h] # {} => announced[h] = {} /\ fetching[h] = None
        /\ announced[h] # {} => fetching[h] = None
        /\ alternates[h] # {} <=> fetching[h] # None

\* None of the panics of the loop is reached, in whatever order announcements,
\* deliveries, timeouts and drops come.
NoPanic == ~panicked

\* What is being fetched is what the live requests still have to bring, each
\* hash from one peer that announced it.  A second delivery, or one that was
\* late, never makes a hash count twice or puts back what is elsewhere by now.
FetchingIsRequested ==
    \A h \in Hash, p \in Peer :
        /\ fetching[h] = p <=> h \in Open(p)
        /\ fetching[h] = p => p \in alternates[h]

\* A hash that counts against the cap of a peer is tracked for that peer: no
\* sequence of events fills the slots of a peer for good.
SlotsAreTracked ==
    \A p \in Peer :
        /\ waitslots[p] = {h \in Hash : p \in waitlist[h]}
        /\ \A h \in announces[p] : p \in announced[h] \union alternates[h]

\* For a queued hash there is a peer that will be asked for it once it is idle
\* (the comment on TxFetcher: one stage per hash ensures that "there's do data
\* leak").
NoLeak ==
    \A h \in Hash : announced[h] # {} => \E p \in announced[h] : h \in announces[p]

\* A peer never has more hashes announced than the cap (the comment on
\* maxTxAnnounces: "the maximum number of unique transaction a peer can
\* announce in a short time").
WithinCap == \A p \in Peer : Used(p) <= MaxTxAnnounces

\* An idle peer can be asked for a queued hash.
Askable(h) ==
    /\ announced[h] # {}
    /\ \E p \in Peer : h \in announces[p] /\ requests[p].state = "none"

\* A hash does not stay where it could move on, whatever the peers do or fail to
\* do: the wait timer runs when a hash waits, and the timeout timer goes on
\* running after requests have timed out, so that no later request stays open
\* and a peer that announced something queued while it was idle is asked for it.
MovesOn ==
    /\ \A h \in Hash : waitlist[h] # {} ~> waitlist[h] = {}
    /\ \A h \in Hash : Askable(h) ~> ~Askable(h)
    /\ \A p \in Peer : requests[p].state = "live" ~> requests[p].state # "live"
=============================================================================
