------------------------ MODULE KettleNetworkProofs -------------------------
(***************************************************************************)
(* Proofs about module KettleNetwork, for any number of nodes, accounts,   *)
(* requests and bids and any channel size, with restarts, broken           *)
(* connections and imported keys.                                          *)
(***************************************************************************)
EXTENDS KettleNetwork, TLAPS

\* The messages on their way to a node.
InFlight(n) == Range(wire[n]) \union Range(chan[n])

\* A message belongs to an executed request.
InFlightExecuted ==
    /\ \A m \in outbox : Executed(m.sourceTx)
    /\ \A n \in Kettle : \A m \in InFlight(n) : Executed(m.sourceTx)

\* It has the UUID of an engine that its node runs or ran.
UuidSoFar ==
    /\ \A m \in outbox : m.uuid <= storeUUID[Home(m.sourceTx)]
    /\ \A n \in Kettle : \A m \in InFlight(n) : m.uuid <= storeUUID[Home(m.sourceTx)]

\* A node takes only accounts for local that it holds the keys of.
LocalIsHeld == \A n \in Kettle : \A a \in localAddresses[n] : Holder[a] = n

\* The bid was created, by an executed request.
HasCreator(b) ==
    Creator(b) \in Tx /\ Executed(Creator(b)) /\ b \in Creates[Creator(b)]

\* So were the bids that executed requests wrote and those in the stores.
BidsHaveCreator ==
    /\ \A t \in Tx : Executed(t) => \A b \in Written(t) : HasCreator(b)
    /\ \A n \in Kettle : \A b \in known[n] : HasCreator(b)

\* t is a proper writer of what n has under b.
Writer(n, b, t) ==
    /\ Executed(t) /\ b \in Written(t) /\ b \in known[n]
    /\ Home(t) = n \/ Valid(t)

IInv == TypeOK /\ InFlightExecuted /\ BidsHaveCreator /\ Provenance
-----------------------------------------------------------------------------
(***************************************************************************)
(* Sequences.                                                              *)
(***************************************************************************)

\* The messages in a queue after one is put in or taken out.
LEMMA QueueFacts ==
    ASSUME NEW S, NEW s \in Seq(S)
    PROVE  /\ Range(s) \subseteq S
           /\ Range(<<>>) = {}
           /\ \A e \in S : /\ Append(s, e) \in Seq(S)
                           /\ Range(Append(s, e)) = Range(s) \union {e}
                           /\ Len(Append(s, e)) = Len(s) + 1
           /\ s # <<>> => /\ Tail(s) \in Seq(S)
                          /\ Head(s) \in Range(s)
                          /\ Range(Tail(s)) \subseteq Range(s)
                          /\ Len(Tail(s)) = Len(s) - 1
  <1>1. Range(s) \subseteq S /\ Range(<<>>) = {}
    BY DEF Range
  <1>2. ASSUME NEW e \in S
        PROVE  /\ Append(s, e) \in Seq(S)
               /\ Range(Append(s, e)) = Range(s) \union {e}
               /\ Len(Append(s, e)) = Len(s) + 1
    <2>1. /\ Append(s, e) \in Seq(S)
          /\ Len(Append(s, e)) = Len(s) + 1
          /\ DOMAIN Append(s, e) = DOMAIN s \union {Len(s) + 1}
          /\ Append(s, e)[Len(s) + 1] = e
          /\ \A p \in DOMAIN s : Append(s, e)[p] = s[p]
      OBVIOUS
    <2>2. QED
      BY <2>1 DEF Range
  <1>3. ASSUME s # <<>>
        PROVE  /\ Tail(s) \in Seq(S)
               /\ Head(s) \in Range(s)
               /\ Range(Tail(s)) \subseteq Range(s)
               /\ Len(Tail(s)) = Len(s) - 1
    <2>1. /\ Tail(s) \in Seq(S)
          /\ Len(Tail(s)) = Len(s) - 1
          /\ \A p \in DOMAIN Tail(s) : p + 1 \in DOMAIN s /\ Tail(s)[p] = s[p + 1]
          /\ Head(s) = s[1] /\ 1 \in DOMAIN s
      BY <1>3
    <2>2. QED
      BY <2>1 DEF Range
  <1>4. QED
    BY <1>1, <1>2, <1>3

\* The creator of a bid is the one request that creates it.
LEMMA CreatorUnique ==
    ASSUME NEW t \in Tx, NEW b \in Creates[t]
    PROVE  Creator(b) = t
  BY KettleConstants DEF Creator
-----------------------------------------------------------------------------
(***************************************************************************)
(* Type correctness.                                                       *)
(***************************************************************************)

\* Every node starts with empty queues and an empty store.
LEMMA InitTypeOK == Init => TypeOK
  BY KettleConstants DEF Init, TypeOK

\* No step breaks a type, and no channel exceeds its capacity.
LEMMA NextTypeOK == TypeOK /\ [Next]_vars => TypeOK'
  <1> SUFFICES ASSUME TypeOK, [Next]_vars PROVE TypeOK'
    OBVIOUS
  <1> USE KettleConstants DEF TypeOK, nodeVars, bidVars, dataVars, netVars
  <1>1. ASSUME NEW t \in Tx, Finalize(t)
        PROVE  TypeOK'
    <2>1. Append(executed, t) \in Seq(Tx)
      BY QueueFacts
    <2>2. Home(t) \in Kettle /\ Creates[t] \subseteq BidId
      BY DEF Home
    <2>3. known' \in [Kettle -> SUBSET BidId]
      BY <1>1, <2>2, Zenon DEF Finalize
    <2>4. /\ data' \in [Kettle -> [BidId -> Tx \union {None}]]
          /\ stores' \in [BidId -> SUBSET Account]
      BY <1>1, <2>2 DEF Finalize, Apply, LocalAddresses
    <2>5. outbox' \in SUBSET Message
      BY <1>1, <2>2 DEF Finalize, Message
    <2>6. QED
      BY <1>1, <2>1, <2>3, <2>4, <2>5 DEF Finalize
  <1>2. ASSUME NEW t \in Tx, ExecutionFails(t)
        PROVE  TypeOK'
    BY <1>2 DEF ExecutionFails
  <1>3. ASSUME NEW m \in Message, Publish(m)
        PROVE  TypeOK'
    BY <1>3, QueueFacts DEF Publish
  <1>4. ASSUME NEW n \in Kettle, Receive(n)
        PROVE  TypeOK'
    <2>1. /\ wire[n] \in Seq(Message) /\ wire[n] # <<>>
          /\ chan[n] \in Seq(Message) /\ Len(chan[n]) <= ChanSize
      BY <1>4 DEF Receive
    <2>2. Tail(wire[n]) \in Seq(Message) /\ Head(wire[n]) \in Message
      BY <2>1, QueueFacts
    <2>3. /\ Append(chan[n], Head(wire[n])) \in Seq(Message)
          /\ Len(Append(chan[n], Head(wire[n]))) = Len(chan[n]) + 1
      BY <2>1, <2>2, QueueFacts
    <2>4. chan'[n] \in Seq(Message) /\ Len(chan'[n]) <= ChanSize
      BY <1>4, <2>1, <2>3 DEF Receive
    <2>5. QED
      BY <1>4, <2>2, <2>4, Zenon DEF Receive
  <1>5. ASSUME NEW n \in Kettle, NewMessage(n)
        PROVE  TypeOK'
    <2> DEFINE t == Head(chan[n]).sourceTx
    <2>1. chan[n] \in Seq(Message) /\ chan[n] # <<>>
      BY <1>5 DEF NewMessage
    <2>2. /\ Tail(chan[n]) \in Seq(Message) /\ Head(chan[n]) \in Message
          /\ Len(Tail(chan[n])) <= ChanSize
      BY <2>1, QueueFacts
    <2>3. t \in Tx /\ Written(t) \subseteq BidId
      <3>1. t \in Tx
        BY <2>2, Zenon DEF Message
      <3> HIDE DEF t
      <3> QED
        <4>1. Writes[t] \in Seq(BidId)
          BY <3>1, KettleConstants, Zenon
        <4> QED
          BY <3>1, <4>1, QueueFacts DEF Written
    <2>4. /\ known' \in [Kettle -> SUBSET BidId]
          /\ data' \in [Kettle -> [BidId -> Tx \union {None}]]
      <3>1. Apply(data[n], t) \in [BidId -> Tx \union {None}]
        BY <2>3 DEF Apply
      <3>2. CASE UNCHANGED dataVars
        BY <3>2
      <3>3. CASE /\ known' = [known EXCEPT ![n] = @ \union Written(t)]
                 /\ data' = [data EXCEPT ![n] = Apply(@, t)]
        BY <2>3, <3>1, <3>3
      <3>4. QED
        BY <1>5, <3>2, <3>3 DEF NewMessage
    <2>5. QED
      BY <1>5, <2>2, <2>4, Zenon DEF NewMessage
  <1>e. <<>> \in Seq(Message)
    OBVIOUS
  <1>6. ASSUME NEW n \in Kettle, Subscribe(n) \/ Disconnect(n)
        PROVE  TypeOK'
    <2>1. \/ subscribed' = [subscribed EXCEPT ![n] = TRUE]
          \/ subscribed' = [subscribed EXCEPT ![n] = FALSE]
      BY <1>6 DEF Subscribe, Disconnect
    <2>2. subscribed' \in [Kettle -> BOOLEAN]
      BY <2>1, Zenon
    <2>3. wire' \in [Kettle -> Seq(Message)]
      BY <1>6, <1>e, ZenonT(40) DEF Subscribe, Disconnect
    <2>4. QED
      BY <1>6, <2>2, <2>3 DEF Subscribe, Disconnect
  <1>7. ASSUME NEW n \in Kettle, Restart(n)
        PROVE  TypeOK'
    <2>1. /\ wire' \in [Kettle -> Seq(Message)]
          /\ chan' \in [Kettle -> Seq(Message)]
          /\ \A o \in Kettle : Len(chan'[o]) <= ChanSize
      BY <1>7, <1>e DEF Restart
    <2>2. /\ subscribed' \in [Kettle -> BOOLEAN]
          /\ localAddresses' \in [Kettle -> SUBSET Account]
          /\ storeUUID' \in [Kettle -> 0..MaxRestarts]
      BY <1>7 DEF Restart, LocalAddresses
    <2>3. /\ known' \in [Kettle -> SUBSET BidId]
          /\ data' \in [Kettle -> [BidId -> Tx \union {None}]]
      <3>1. CASE UNCHANGED dataVars
        BY <3>1
      <3>2. CASE /\ known' = [known EXCEPT ![n] = {}]
                 /\ data' = [data EXCEPT ![n] = [b \in BidId |-> None]]
        BY <3>2
      <3>3. QED
        BY <1>7, <3>1, <3>2, ZenonT(40) DEF Restart
    <2>4. QED
      BY <1>7, <2>1, <2>2, <2>3 DEF Restart
  <1>8. ASSUME NEW a \in Account, ImportAccount(a)
        PROVE  TypeOK'
    BY <1>8 DEF ImportAccount
  <1>9. CASE UNCHANGED vars
    BY <1>9 DEF vars
  <1>10. QED
    BY <1>1, <1>2, <1>3, <1>4, <1>5, <1>6, <1>7, <1>8, <1>9, Zenon DEF Next

\* Every node's engine, store and queues keep their types, and the channel of
\* Subscribe its capacity.
THEOREM TypeCorrect == Spec => []TypeOK
  BY InitTypeOK, NextTypeOK, PTL DEF Spec
-----------------------------------------------------------------------------
(***************************************************************************)
(* What a step leaves as it was.                                           *)
(***************************************************************************)

\* Requests are executed one at a time, and an executed one stays executed.
LEMMA ExecutedFrame ==
    ASSUME TypeOK, [Next]_vars
    PROVE  /\ \A t \in Tx : Executed(t) => Executed(t)'
           /\ \A t \in Tx : Finalize(t) => Executed(t)'
  <1>1. ASSUME NEW u \in Tx, Finalize(u)
        PROVE  \A t \in Tx : (Executed(t) \/ t = u) => Executed(t)'
    <2>1. executed' = Append(executed, u) /\ executed \in Seq(Tx)
      BY <1>1 DEF Finalize, TypeOK
    <2>2. Range(executed') = Range(executed) \union {u}
      BY <2>1, QueueFacts
    <2>3. QED
      BY <2>2 DEF Executed
  <1>2. CASE ~\E u \in Tx : Finalize(u)
    <2>1. executed' = executed
      BY <1>2 DEF Next, vars, nodeVars, bidVars, ExecutionFails, Publish, Receive,
          NewMessage, Subscribe, Disconnect, Restart, ImportAccount
    <2>2. QED
      BY <1>2, <2>1 DEF Executed
  <1>3. QED
    BY <1>1, <1>2

\* AllowedStores of a bid is fixed when the bid is created.
LEMMA StoresFrame ==
    ASSUME TypeOK, [Next]_vars, NEW b \in BidId, HasCreator(b)
    PROVE  stores'[b] = stores[b]
  <1>1. ASSUME NEW u \in Tx, Finalize(u)
        PROVE  stores'[b] = stores[b]
    <2>1. ~Executed(u)
      BY <1>1 DEF Finalize, Ready
    <2>2. b \notin Creates[u]
      BY <2>1, CreatorUnique, Zenon DEF HasCreator
    <2>3. QED
      BY <1>1, <2>2 DEF Finalize
  <1>2. CASE ~\E u \in Tx : Finalize(u)
    BY <1>2 DEF Next, vars, nodeVars, bidVars, ExecutionFails, Publish, Receive,
          NewMessage, Subscribe, Disconnect, Restart, ImportAccount
  <1>3. QED
    BY <1>1, <1>2

\* A bid that was created stays created.
LEMMA CreatorStays ==
    ASSUME TypeOK, [Next]_vars, NEW b \in BidId, HasCreator(b)
    PROVE  HasCreator(b)'
  BY ExecutedFrame DEF HasCreator, Creator

\* A message that is valid when it is received stays so.
LEMMA ValidStays ==
    ASSUME TypeOK, BidsHaveCreator, [Next]_vars,
           NEW t \in Tx, Executed(t), Valid(t)
    PROVE  Valid(t)'
  <1>1. Written(t) \subseteq BidId
    BY KettleConstants, QueueFacts DEF Written
  <1>2. \A b \in Written(t) : stores'[b] = stores[b]
    BY <1>1, StoresFrame DEF BidsHaveCreator
  <1>3. QED
    BY <1>2 DEF Valid, Written, Creator
-----------------------------------------------------------------------------
(***************************************************************************)
(* The inductive invariant is preserved.                                   *)
(***************************************************************************)

\* A message is made when its request is finalized, and then only moves on.
LEMMA MessagesFrame ==
    ASSUME TypeOK, [Next]_vars
    PROVE  /\ \A m \in outbox' : \/ m \in outbox
                                 \/ \E t \in Tx : /\ Finalize(t)
                                                  /\ m = [sourceTx |-> t, uuid |-> storeUUID[Home(t)]]
           /\ \A n \in Kettle : InFlight(n)' \subseteq InFlight(n) \union outbox
  <1> USE DEF InFlight
  <1>1. ASSUME NEW n \in Kettle
        PROVE  wire[n] \in Seq(Message) /\ chan[n] \in Seq(Message)
    BY <1>1 DEF TypeOK
  <1>3. ASSUME NEW t \in Tx, Finalize(t)
        PROVE  /\ wire' = wire /\ chan' = chan
               /\ \A m \in outbox' : \/ m \in outbox
                                     \/ m = [sourceTx |-> t, uuid |-> storeUUID[Home(t)]]
    BY <1>3 DEF Finalize
  <1>4. ASSUME NEW m \in Message, Publish(m)
        PROVE  /\ outbox' \subseteq outbox
               /\ \A n \in Kettle : InFlight(n)' \subseteq InFlight(n) \union outbox
    <2>1. m \in outbox /\ outbox' \subseteq outbox /\ chan' = chan
      BY <1>4 DEF Publish
    <2>2. ASSUME NEW n \in Kettle
          PROVE  Range(wire'[n]) \subseteq Range(wire[n]) \union {m}
      BY <1>1, <1>4, QueueFacts DEF Publish
    <2>3. QED
      BY <2>1, <2>2
  <1>5. ASSUME NEW n \in Kettle, Receive(n)
        PROVE  outbox' = outbox /\ \A o \in Kettle : InFlight(o)' \subseteq InFlight(o)
    <2>1. outbox' = outbox /\ wire[n] # <<>>
      BY <1>5 DEF Receive
    <2>2. Head(wire[n]) \in Range(wire[n]) /\ Head(wire[n]) \in Message
      BY <1>1, <2>1, QueueFacts
    <2>3. ASSUME NEW o \in Kettle
          PROVE  InFlight(o)' \subseteq InFlight(o)
      <3>1. CASE o # n
        BY <1>5, <3>1 DEF Receive, TypeOK
      <3>2. CASE o = n
        <4>1. Range(wire'[n]) \subseteq Range(wire[n])
          BY <1>1, <1>5, <2>1, QueueFacts DEF Receive, TypeOK
        <4>2. Range(chan'[n]) \subseteq Range(chan[n]) \union {Head(wire[n])}
          BY <1>1, <1>5, <2>2, QueueFacts DEF Receive, TypeOK
        <4>3. QED
          BY <2>2, <3>2, <4>1, <4>2
      <3>3. QED
        BY <3>1, <3>2
    <2>4. QED
      BY <2>1, <2>3
  <1>6. ASSUME NEW n \in Kettle, NewMessage(n)
        PROVE  outbox' = outbox /\ \A o \in Kettle : InFlight(o)' \subseteq InFlight(o)
    <2>1. \A o \in Kettle : Range(chan'[o]) \subseteq Range(chan[o])
      BY <1>1, <1>6, QueueFacts DEF NewMessage, TypeOK
    <2>2. QED
      BY <1>6, <2>1 DEF NewMessage
  <1>7. ASSUME NEW n \in Kettle, Disconnect(n) \/ Restart(n)
        PROVE  outbox' \subseteq outbox /\ \A o \in Kettle : InFlight(o)' \subseteq InFlight(o)
    <2>1. \A o \in Kettle : /\ wire'[o] = wire[o] \/ wire'[o] = <<>>
                            /\ chan'[o] = chan[o] \/ chan'[o] = <<>>
      BY <1>7 DEF Disconnect, Restart, TypeOK
    <2>2. Range(<<>>) = {}
      BY DEF Range
    <2>3. outbox' \subseteq outbox
      BY <1>7 DEF Disconnect, Restart
    <2>4. QED
      BY <2>1, <2>2, <2>3
  <1>8. CASE UNCHANGED netVars
    BY <1>8 DEF netVars
  <1>9. QED
    <2>1. CASE \E t \in Tx : Finalize(t)
      BY <2>1, <1>3
    <2>2. CASE ~\E t \in Tx : Finalize(t)
      BY <2>2, <1>4, <1>5, <1>6, <1>7, <1>8, Zenon
      DEF Next, vars, ExecutionFails, Subscribe, ImportAccount
    <2>3. QED
      BY <2>1, <2>2

\* The message a node makes is of a request that is executed then.
LEMMA NextInFlightExecuted ==
    ASSUME TypeOK, InFlightExecuted, [Next]_vars
    PROVE  InFlightExecuted'
  <1>1. \A m \in Message : Executed(m.sourceTx) => Executed(m.sourceTx)'
    BY ExecutedFrame DEF Message
  <1>2. outbox \subseteq Message /\ \A n \in Kettle : InFlight(n) \subseteq Message
    BY QueueFacts DEF TypeOK, InFlight
  <1>3. \A m \in outbox' : m \in outbox \/ Executed(m.sourceTx)'
    BY MessagesFrame, ExecutedFrame
  <1>4. \A n \in Kettle : InFlight(n)' \subseteq InFlight(n) \union outbox
    BY MessagesFrame
  <1>5. QED
    BY <1>1, <1>2, <1>3, <1>4 DEF InFlightExecuted

\* The message that NewMessage takes from the channel.
LEMMA HeadOfChannel ==
    ASSUME TypeOK, InFlightExecuted, NEW n \in Kettle, chan[n] # <<>>
    PROVE  LET t == Head(chan[n]).sourceTx
           IN  t \in Tx /\ Executed(t) /\ Written(t) \subseteq BidId
  <1>1. chan[n] \in Seq(Message)
    BY DEF TypeOK
  <1>2. Head(chan[n]) \in Range(chan[n]) /\ Head(chan[n]) \in Message
    BY <1>1, QueueFacts, Zenon
  <1>3. QED
    BY <1>2, KettleConstants, QueueFacts DEF InFlightExecuted, InFlight, Message, Written

\* What one step adds to the bids and values of a node: the request it
\* finalizes there, or the valid message it takes from the channel.
LEMMA DataFrame ==
    ASSUME TypeOK, InFlightExecuted, [Next]_vars, NEW n \in Kettle
    PROVE  \/ known'[n] = known[n] /\ data'[n] = data[n]
           \/ /\ Restart(n) /\ n \notin Persistent
              /\ known'[n] = {} /\ data'[n] = [b \in BidId |-> None]
           \/ \E t \in Tx : /\ Finalize(t) /\ Home(t) = n
                            /\ known'[n] = known[n] \union Creates[t]
                            /\ data'[n] = Apply(data[n], t)
           \/ \E t \in Tx : /\ Executed(t) /\ Valid(t)
                            /\ known'[n] = known[n] \union Written(t)
                            /\ data'[n] = Apply(data[n], t)
  <1>1. ASSUME NEW t \in Tx, Finalize(t)
        PROVE  \/ known'[n] = known[n] /\ data'[n] = data[n]
               \/ /\ Home(t) = n
                  /\ known'[n] = known[n] \union Creates[t]
                  /\ data'[n] = Apply(data[n], t)
    BY <1>1 DEF Finalize, TypeOK
  <1>2. ASSUME NEW o \in Kettle, NewMessage(o)
        PROVE  \/ known'[n] = known[n] /\ data'[n] = data[n]
               \/ \E t \in Tx : /\ Executed(t) /\ Valid(t)
                                /\ known'[n] = known[n] \union Written(t)
                                /\ data'[n] = Apply(data[n], t)
    <2> DEFINE t == Head(chan[o]).sourceTx
    <2>1. t \in Tx /\ Executed(t)
      BY <1>2, HeadOfChannel, Zenon DEF NewMessage
    <2>2. \/ UNCHANGED dataVars
          \/ /\ Valid(t)
             /\ known' = [known EXCEPT ![o] = @ \union Written(t)]
             /\ data' = [data EXCEPT ![o] = Apply(@, t)]
      BY <1>2 DEF NewMessage
    <2>3. QED
      BY <2>1, <2>2, Zenon DEF dataVars, TypeOK
  <1>3. ASSUME NEW o \in Kettle, Restart(o)
        PROVE  \/ known'[n] = known[n] /\ data'[n] = data[n]
               \/ /\ o = n /\ n \notin Persistent
                  /\ known'[n] = {} /\ data'[n] = [b \in BidId |-> None]
    <2>1. \/ UNCHANGED dataVars
          \/ /\ o \notin Persistent
             /\ known' = [known EXCEPT ![o] = {}]
             /\ data' = [data EXCEPT ![o] = [b \in BidId |-> None]]
      BY <1>3, Zenon DEF Restart
    <2>2. QED
      BY <2>1 DEF dataVars, TypeOK
  <1>4. CASE UNCHANGED dataVars
    BY <1>4 DEF dataVars
  <1>5. QED
    BY <1>1, <1>2, <1>3, <1>4, Zenon
    DEF Next, vars, ExecutionFails, Publish, Receive, Subscribe, Disconnect,
        ImportAccount

\* A request writes bids it creates or finds in the store of its node.
LEMMA NextBidsHaveCreator ==
    ASSUME TypeOK, InFlightExecuted, BidsHaveCreator, [Next]_vars
    PROVE  BidsHaveCreator'
  <1>c. ASSUME NEW t \in Tx
        PROVE  Creates[t] \subseteq BidId /\ Written(t) \subseteq BidId
    BY KettleConstants, QueueFacts DEF Written
  <1>1. ASSUME NEW t \in Tx, Finalize(t), NEW b \in Creates[t]
        PROVE  HasCreator(b)'
    <2>1. Creator(b) = t /\ Executed(t)'
      BY <1>1, CreatorUnique, ExecutedFrame
    <2>2. QED
      BY <1>1, <2>1, ZenonT(40) DEF HasCreator, Creator
  <1>2. ASSUME NEW t \in Tx, Executed(t)', NEW b \in Written(t)
        PROVE  HasCreator(b)'
    <2>1. CASE Executed(t)
      BY <1>c, <1>2, <2>1, CreatorStays DEF BidsHaveCreator
    <2>2. CASE ~Executed(t)
      <3>1. PICK u \in Tx : Finalize(u)
        BY <1>2, <2>2, Zenon DEF Next, vars, nodeVars, bidVars, ExecutionFails, Publish,
            Receive, NewMessage, Subscribe, Disconnect, Restart, ImportAccount, Executed
      <3>2. Range(executed') = Range(executed) \union {u}
        BY <3>1, QueueFacts DEF Finalize, TypeOK
      <3>3. t = u
        BY <1>2, <2>2, <3>2, Zenon DEF Executed
      <3>4. b \in Creates[t] \/ b \in known[Home(t)]
        BY <1>2, <3>1, <3>3, Zenon DEF Finalize, CanWrite
      <3>5. Home(t) \in Kettle
        BY KettleConstants, Zenon DEF Home
      <3>6. QED
        BY <1>c, <1>1, <3>1, <3>3, <3>4, <3>5, CreatorStays, Zenon DEF BidsHaveCreator
    <2>3. QED
      BY <2>1, <2>2
  <1>3. ASSUME NEW n \in Kettle, NEW b \in known'[n]
        PROVE  HasCreator(b)'
    <2>1. ASSUME NEW d \in known[n]
          PROVE  HasCreator(d)'
      BY <2>1, CreatorStays, Zenon DEF BidsHaveCreator, TypeOK
    <2>2. ASSUME NEW t \in Tx, Executed(t), b \in Written(t)
          PROVE  HasCreator(b)'
      BY <2>2, <1>c, CreatorStays, Zenon DEF BidsHaveCreator
    <2>3. QED
      BY <1>1, <1>3, <2>1, <2>2, DataFrame, Zenon
  <1>4. QED
    BY <1>2, <1>3 DEF BidsHaveCreator, Written

\* What a step adds to a store has the provenance asked for, and what was there
\* keeps it.
LEMMA NextProvenance ==
    ASSUME IInv, [Next]_vars
    PROVE  Provenance'
  <1> USE DEF IInv
  <1>c. ASSUME NEW t \in Tx
        PROVE  Creates[t] \subseteq BidId /\ Written(t) \subseteq BidId
    BY KettleConstants, QueueFacts DEF Written
  <1> SUFFICES ASSUME NEW n \in Kettle, NEW b \in BidId
               PROVE  /\ data'[n][b] # None =>
                            \E t \in Tx : data'[n][b] = t /\ Writer(n, b, t)'
                      /\ b \in known'[n] =>
                            /\ Executed(Creator(b))'
                            /\ Home(Creator(b)) = n \/ Creator(b) \in Signed
    BY DEF Provenance, Writer, Written, Home, Creator, Executed, Valid
  <1>1. ASSUME data[n][b] # None, data'[n][b] = data[n][b], known[n] \subseteq known'[n]
        PROVE  \E t \in Tx : data'[n][b] = t /\ Writer(n, b, t)'
    <2>1. PICK t \in Tx : t = data[n][b]
      BY <1>1 DEF TypeOK
    <2>2. /\ Executed(t) /\ b \in Written(t) /\ b \in known[n]
          /\ Home(t) = n \/ Valid(t)
      BY <1>1, <2>1 DEF Provenance
    <2>3. Executed(t)' /\ (Valid(t) => Valid(t)')
      BY <2>2, ExecutedFrame, ValidStays
    <2>4. data'[n][b] = t
      BY <1>1, <2>1
    <2>5. QED
      BY <1>1, <2>2, <2>3, <2>4 DEF Writer, Written, Home
  <1>2. ASSUME b \in known[n]
        PROVE  /\ Executed(Creator(b))'
               /\ Home(Creator(b)) = n \/ Creator(b) \in Signed
    <2>1. HasCreator(b)
      BY <1>2 DEF BidsHaveCreator
    <2>2. QED
      BY <1>2, <2>1, ExecutedFrame DEF Provenance, HasCreator
  <1>3. ASSUME NEW t \in Tx, Executed(t)', Home(t) = n \/ Valid(t)',
               b \in Written(t), b \in known'[n], data'[n][b] = t
        PROVE  \E u \in Tx : data'[n][b] = u /\ Writer(n, b, u)'
    BY <1>3 DEF Writer, Written, Home
  <1>4. CASE known'[n] = known[n] /\ data'[n] = data[n]
    BY <1>1, <1>2, <1>4
  <1>5. CASE known'[n] = {} /\ data'[n] = [d \in BidId |-> None]
    BY <1>5
  <1>6. ASSUME NEW t \in Tx, Finalize(t), Home(t) = n,
               known'[n] = known[n] \union Creates[t],
               data'[n] = Apply(data[n], t)
        PROVE  /\ data'[n][b] # None =>
                    \E u \in Tx : data'[n][b] = u /\ Writer(n, b, u)'
               /\ b \in known'[n] =>
                    /\ Executed(Creator(b))'
                    /\ Home(Creator(b)) = n \/ Creator(b) \in Signed
    <2>1. Executed(t)'
      BY <1>6, ExecutedFrame
    <2>2. b \in Written(t) => b \in known'[n]
      BY <1>6 DEF Finalize, CanWrite
    <2>3. data'[n][b] = IF b \in Written(t) THEN t ELSE data[n][b]
      BY <1>6 DEF Apply
    <2>4. b \in Creates[t] => Creator(b) = t
      BY CreatorUnique
    <2>5. b \in Creates[t] => Executed(Creator(b))' /\ Home(Creator(b)) = n
      BY <1>6, <2>1, <2>4, ZenonT(40) DEF Executed, Creator, Home
    <2>6. CASE b \in Written(t)
      BY <1>2, <1>3, <1>6, <2>1, <2>2, <2>3, <2>5, <2>6
    <2>7. CASE b \notin Written(t)
      BY <1>1, <1>2, <1>6, <2>3, <2>5, <2>7, Zenon
    <2>8. QED
      BY <2>6, <2>7
  <1>7. ASSUME NEW t \in Tx, Executed(t), Valid(t),
               known'[n] = known[n] \union Written(t),
               data'[n] = Apply(data[n], t)
        PROVE  /\ data'[n][b] # None =>
                    \E u \in Tx : data'[n][b] = u /\ Writer(n, b, u)'
               /\ b \in known'[n] =>
                    /\ Executed(Creator(b))'
                    /\ Home(Creator(b)) = n \/ Creator(b) \in Signed
    <2>1. Executed(t)' /\ Valid(t)'
      BY <1>7, ExecutedFrame, ValidStays
    <2>2. data'[n][b] = IF b \in Written(t) THEN t ELSE data[n][b]
      BY <1>7 DEF Apply
    <2>3. b \in Written(t) => Executed(Creator(b))' /\ Creator(b) \in Signed
      BY <1>7, ExecutedFrame, Zenon DEF BidsHaveCreator, HasCreator, Valid
    <2>4. CASE b \in Written(t)
      BY <1>3, <1>7, <2>1, <2>2, <2>3, <2>4, Zenon
    <2>5. CASE b \notin Written(t)
      BY <1>1, <1>2, <1>7, <2>2, <2>5
    <2>6. QED
      BY <2>4, <2>5
  <1>8. QED
    BY <1>4, <1>5, <1>6, <1>7, DataFrame

\* The inductive invariant holds of nodes that did nothing yet.
LEMMA InitIInv == Init => IInv
  <1> SUFFICES ASSUME Init PROVE IInv
    OBVIOUS
  <1>1. TypeOK
    BY InitTypeOK
  <1>2. \A t : ~Executed(t)
    BY DEF Init, Executed, Range
  <1>3. InFlightExecuted
    BY DEF Init, InFlightExecuted, InFlight, Range
  <1>4. BidsHaveCreator
    BY <1>2 DEF Init, BidsHaveCreator
  <1>5. Provenance
    BY DEF Init, Provenance
  <1>6. QED
    BY <1>1, <1>3, <1>4, <1>5 DEF IInv

\* Every step preserves it.
LEMMA NextIInv == IInv /\ [Next]_vars => IInv'
  <1> SUFFICES ASSUME IInv, [Next]_vars PROVE IInv'
    OBVIOUS
  <1>1. TypeOK'
    BY NextTypeOK DEF IInv
  <1>2. InFlightExecuted' /\ BidsHaveCreator'
    BY NextInFlightExecuted, NextBidsHaveCreator DEF IInv
  <1>3. Provenance'
    BY NextProvenance
  <1>4. QED
    BY <1>1, <1>2, <1>3 DEF IInv

\* Whatever the transport loses or delays, whichever nodes restart and whichever
\* keys are imported, a store holds only what its own node executed or a node
\* in the bid's AllowedStores sent for a signed request.
THEOREM ProvenanceHolds == Spec => []Provenance
  <1>1. IInv => Provenance
    BY DEF IInv
  <1>2. QED
    BY <1>1, InitIInv, NextIInv, PTL DEF Spec
-----------------------------------------------------------------------------
(***************************************************************************)
(* A node's own store is not set back by its own messages.                 *)
(***************************************************************************)

HInv == TypeOK /\ InFlightExecuted /\ UuidSoFar /\ LocalIsHeld /\ HomeIsCurrent

\* Only a restart gives a node another UUID and other local addresses, and a
\* UUID it never had before.
LEMMA EngineFrame ==
    ASSUME TypeOK, [Next]_vars, NEW n \in Kettle
    PROVE  \/ /\ storeUUID'[n] = storeUUID[n]
              /\ localAddresses'[n] = localAddresses[n]
           \/ /\ Restart(n)
              /\ storeUUID'[n] = storeUUID[n] + 1
              /\ localAddresses'[n] = LocalAddresses(n)
  <1>1. ASSUME NEW o \in Kettle, Restart(o)
        PROVE  \/ /\ storeUUID'[n] = storeUUID[n]
                  /\ localAddresses'[n] = localAddresses[n]
               \/ /\ n = o
                  /\ storeUUID'[n] = storeUUID[n] + 1
                  /\ localAddresses'[n] = LocalAddresses(n)
    BY <1>1, Zenon DEF Restart, TypeOK
  <1>2. CASE ~\E o \in Kettle : Restart(o)
    BY <1>2, Zenon DEF Next, vars, nodeVars, Finalize, ExecutionFails, Publish, Receive,
        NewMessage, Subscribe, Disconnect, ImportAccount
  <1>3. QED
    BY <1>1, <1>2

\* UUIDs only grow, and a new message has the current one.
LEMMA NextUuidSoFar ==
    ASSUME TypeOK, UuidSoFar, [Next]_vars
    PROVE  UuidSoFar'
  <1>1. outbox \subseteq Message /\ \A n \in Kettle : InFlight(n) \subseteq Message
    BY QueueFacts DEF TypeOK, InFlight
  <1>2. ASSUME NEW t \in Tx
        PROVE  Home(t) \in Kettle
    BY KettleConstants, Zenon DEF Home
  <1>3. ASSUME NEW n \in Kettle
        PROVE  storeUUID[n] \in Nat /\ storeUUID'[n] \in Nat /\ storeUUID[n] <= storeUUID'[n]
    BY EngineFrame DEF TypeOK
  <1>4. ASSUME NEW m \in Message, m.uuid <= storeUUID[Home(m.sourceTx)]
        PROVE  m.uuid <= storeUUID'[Home(m.sourceTx)]
    <2>1. m.sourceTx \in Tx /\ m.uuid \in 0 .. MaxRestarts
      BY Zenon DEF Message
    <2>2. Home(m.sourceTx) \in Kettle
      BY <1>2, <2>1, Zenon
    <2> QED
      BY <1>3, <1>4, <2>1, <2>2
  <1>5. \A m \in outbox' : m.uuid <= storeUUID'[Home(m.sourceTx)]
    BY <1>1, <1>2, <1>3, <1>4, MessagesFrame DEF UuidSoFar
  <1>6. \A n \in Kettle : \A m \in InFlight(n)' : m.uuid <= storeUUID'[Home(m.sourceTx)]
    BY <1>1, <1>4, MessagesFrame DEF UuidSoFar
  <1>7. QED
    BY <1>5, <1>6 DEF UuidSoFar, Home

\* The local addresses are read from the node's own key store.
LEMMA NextLocalIsHeld ==
    ASSUME TypeOK, LocalIsHeld, [Next]_vars
    PROVE  LocalIsHeld'
  BY EngineFrame DEF LocalIsHeld, LocalAddresses

\* As long as the engine runs, what comes out of its channel and is applied was
\* not executed for one of its local addresses.
LEMMA OwnIsNotApplied ==
    ASSUME HInv, NEW n \in Kettle, NewMessage(n), storeUUID[n] = 0,
           ExecutionNode[Head(chan[n]).sourceTx] \in localAddresses[n]
    PROVE  UNCHANGED dataVars
  <1> DEFINE m == Head(chan[n])
  <1>1. chan[n] \in Seq(Message) /\ chan[n] # <<>>
    BY DEF HInv, TypeOK, NewMessage
  <1>2. m \in InFlight(n) /\ m \in Message
    BY <1>1, QueueFacts DEF InFlight
  <1>3. Home(m.sourceTx) = n
    BY DEF HInv, LocalIsHeld, Home
  <1>4. m.uuid = storeUUID[n]
    <2>1. m.uuid <= 0 /\ m.uuid \in Nat
      BY <1>2, <1>3, KettleConstants DEF HInv, UuidSoFar, Message
    <2>2. QED
      BY <2>1
  <1>5. IsOwn(n, m)
    BY <1>3, <1>4, Zenon DEF IsOwn
  <1>6. QED
    BY <1>5, Zenon DEF NewMessage

\* The value of the latest request stays until the node executes another one.
LEMMA NextHomeIsCurrent ==
    ASSUME HInv, [Next]_vars
    PROVE  HomeIsCurrent'
  <1> SUFFICES ASSUME NEW n \in Kettle, NEW b \in BidId, NEW t \in Tx,
                      IsLatest(t, b)',
                      \A u \in Tx : Executed(u)' /\ b \in Written(u)
                            => ExecutionNode[u] \in localAddresses'[n],
                      storeUUID'[n] = 0
               PROVE  data'[n][b] = t
    BY DEF HomeIsCurrent, Written
  <1> USE DEF HInv
  <1>1. /\ storeUUID[n] = 0 /\ ~Restart(n)
        /\ localAddresses'[n] = localAddresses[n]
    <2>1. storeUUID \in [Kettle -> 0 .. MaxRestarts] /\ storeUUID[n] \in Nat
      BY DEF TypeOK
    <2>2. ~Restart(n)
      BY <2>1 DEF Restart
    <2>3. QED
      BY <2>2, EngineFrame, Zenon
  <1>2. ASSUME NEW u \in Tx, Executed(u) \/ Finalize(u), b \in Written(u)
        PROVE  ExecutionNode[u] \in localAddresses[n]
    BY <1>1, <1>2, ExecutedFrame, Zenon
  <1>3. ASSUME IsLatest(t, b)
        PROVE  data[n][b] = t
    BY <1>1, <1>2, <1>3 DEF HomeIsCurrent
  <1>4. ASSUME NEW u \in Tx, Finalize(u)
        PROVE  data'[n][b] = t
    <2>1. /\ executed' = Append(executed, u) /\ executed \in Seq(Tx)
          /\ data' = [data EXCEPT ![Home(u)] = Apply(@, u)]
      BY <1>4, Zenon DEF Finalize, TypeOK
    <2>2. PICK p \in DOMAIN executed' :
              /\ executed'[p] = t /\ b \in Written(t)
              /\ \A q \in DOMAIN executed' : b \in Written(executed'[q]) => q <= p
      BY DEF IsLatest, Written
    <2>3. /\ DOMAIN executed' = 1 .. Len(executed) + 1
          /\ DOMAIN executed = 1 .. Len(executed)
          /\ executed'[Len(executed) + 1] = u
          /\ \A q \in DOMAIN executed : executed'[q] = executed[q]
          /\ Len(executed) \in Nat
      BY <2>1
    <2>4. CASE b \in Written(u)
      <3>1. p = Len(executed) + 1
        BY <2>2, <2>3, <2>4
      <3>2. t = u
        BY <2>2, <2>3, <3>1
      <3>3. Home(u) = n
        BY <1>2, <1>4, <2>4 DEF LocalIsHeld, Home
      <3>4. QED
        BY <2>1, <2>4, <3>2, <3>3 DEF Apply, TypeOK
    <2>5. CASE b \notin Written(u)
      <3>1. p \in DOMAIN executed
        BY <2>2, <2>3, <2>5
      <3>2. IsLatest(t, b)
        BY <2>2, <2>3, <3>1 DEF IsLatest
      <3>3. data'[n][b] = data[n][b]
        BY <2>1, <2>5, Zenon DEF Apply, TypeOK
      <3>4. QED
        BY <1>3, <3>2, <3>3
    <2>6. QED
      BY <2>4, <2>5, Zenon
  <1>5. CASE ~\E u \in Tx : Finalize(u)
    <2>1. executed' = executed
      BY <1>5, ZenonT(40) DEF Next, vars, nodeVars, bidVars, ExecutionFails, Publish, Receive,
          NewMessage, Subscribe, Disconnect, Restart, ImportAccount
    <2>2. IsLatest(t, b)
      BY <2>1, Zenon DEF IsLatest, Written
    <2>3. data'[n][b] = data[n][b]
      <3>1. ASSUME NEW o \in Kettle, NewMessage(o)
            PROVE  data'[n][b] = data[n][b]
        <4> DEFINE u == Head(chan[o]).sourceTx
        <4>1. u \in Tx /\ Executed(u)
          BY <3>1, HeadOfChannel, Zenon DEF NewMessage
        <4>2. UNCHANGED dataVars \/ data' = [data EXCEPT ![o] = Apply(@, u)]
          BY <3>1 DEF NewMessage
        <4>3. CASE o = n /\ b \in Written(u)
          BY <1>1, <1>2, <3>1, <4>1, <4>3, OwnIsNotApplied, Zenon DEF dataVars
        <4>4. CASE ~(o = n /\ b \in Written(u))
          <5>1. Apply(data[o], u)[b] = data[o][b] \/ b \in Written(u)
            BY Zenon DEF Apply
          <5>2. QED
            BY <4>2, <4>4, <5>1, Zenon DEF dataVars, TypeOK
        <4>5. QED
          BY <4>3, <4>4, ZenonT(40)
      <3>2. ASSUME NEW o \in Kettle, Restart(o)
            PROVE  data'[n][b] = data[n][b]
        <4>1. o # n
          BY <1>1, <3>2
        <4>2. UNCHANGED dataVars \/ data' = [data EXCEPT ![o] = [d \in BidId |-> None]]
          BY <3>2 DEF Restart
        <4>3. QED
          BY <4>1, <4>2 DEF dataVars, TypeOK
      <3>3. QED
        BY <1>5, <3>1, <3>2, ZenonT(40) DEF Next, vars, dataVars, ExecutionFails, Publish, Receive,
            Subscribe, Disconnect, ImportAccount
    <2>4. QED
      BY <1>3, <2>2, <2>3, Zenon
  <1>6. QED
    BY <1>4, <1>5

\* A node's messages come back to it late and in any order, and its connections
\* break as they may: while it runs, the bids that only it writes, for accounts
\* it had when it started, have the value of its latest request in its own store
\* (the test of StoreUUID in NewMessage).
THEOREM OwnWritesStay == Spec => []HomeIsCurrent
  <1>1. Init => HInv
    <2> SUFFICES ASSUME Init PROVE HInv
      OBVIOUS
    <2>1. TypeOK
      BY InitTypeOK
    <2>2. InFlightExecuted /\ UuidSoFar
      BY DEF Init, InFlightExecuted, UuidSoFar, InFlight, Range
    <2>3. LocalIsHeld
      BY Zenon DEF Init, LocalIsHeld
    <2>4. HomeIsCurrent
      BY DEF Init, HomeIsCurrent, IsLatest
    <2>5. QED
      BY <2>1, <2>2, <2>3, <2>4, Zenon DEF HInv
  <1>2. HInv /\ [Next]_vars => HInv'
    <2> SUFFICES ASSUME HInv, [Next]_vars PROVE HInv'
      OBVIOUS
    <2>1. TypeOK' /\ InFlightExecuted' /\ UuidSoFar' /\ LocalIsHeld'
      BY NextTypeOK, NextInFlightExecuted, NextUuidSoFar, NextLocalIsHeld DEF HInv
    <2>2. HomeIsCurrent'
      BY NextHomeIsCurrent
    <2>3. QED
      BY <2>1, <2>2 DEF HInv
  <1>3. HInv => HomeIsCurrent
    BY DEF HInv
  <1>4. QED
    BY <1>1, <1>2, <1>3, PTL DEF Spec
-----------------------------------------------------------------------------
(***************************************************************************)
(* What a node has handled it has stored.                                  *)
(***************************************************************************)

\* The store of n has a value for the bid.
Has(n, b) == b \in known[n] /\ data[n][b] # None

\* It has one for each bid that the request wrote.
HasAll(n, t) == \A b \in Written(t) : Has(n, b)

\* Only a restart takes something out of a store, and only out of one that is kept
\* in memory.
LEMMA StoreGrows ==
    ASSUME TypeOK, InFlightExecuted, [Next]_vars, NEW n \in Kettle,
           ~Restart(n) \/ n \in Persistent
    PROVE  /\ known[n] \subseteq known'[n]
           /\ \A b \in BidId : Has(n, b) => Has(n, b)'
  <1>1. \/ known'[n] = known[n] /\ data'[n] = data[n]
        \/ \E t \in Tx : /\ known[n] \subseteq known'[n]
                         /\ data'[n] = Apply(data[n], t)
    BY DataFrame, Zenon
  <1>2. ASSUME NEW t \in Tx, known[n] \subseteq known'[n], data'[n] = Apply(data[n], t),
               NEW b \in BidId, Has(n, b)
        PROVE  Has(n, b)'
    <2>1. data'[n][b] = IF b \in Written(t) THEN t ELSE data[n][b]
      BY <1>2, Zenon DEF Apply
    <2>2. t # None
      BY KettleConstants
    <2>3. QED
      BY <1>2, <2>1, <2>2, Zenon DEF Has
  <1>3. QED
    BY <1>1, <1>2, Zenon DEF Has

\* A message that bears the UUID of the engine its node runs now is of a request
\* whose writes are all in the store of that node.
OwnIsStored ==
    /\ \A m \in outbox : m.uuid = storeUUID[Home(m.sourceTx)]
            => HasAll(Home(m.sourceTx), m.sourceTx)
    /\ \A n \in Kettle : \A m \in InFlight(n) : m.uuid = storeUUID[Home(m.sourceTx)]
            => HasAll(Home(m.sourceTx), m.sourceTx)

\* When a request is finalized, its node has its writes.
LEMMA FinalizeStores ==
    ASSUME TypeOK, NEW t \in Tx, Finalize(t)
    PROVE  HasAll(Home(t), t)'
  <1> DEFINE n == Home(t)
  <1>1. n \in Kettle /\ t # None /\ Written(t) \subseteq BidId
    BY KettleConstants, QueueFacts DEF Home, Written
  <1>2. /\ known'[n] = known[n] \union Creates[t] /\ data'[n] = Apply(data[n], t)
        /\ Written(t) \subseteq Creates[t] \union known[n]
    BY <1>1, Zenon DEF Finalize, CanWrite, TypeOK
  <1>3. ASSUME NEW b \in Written(t)
        PROVE  b \in known'[n] /\ data'[n][b] # None
    <2>1. data'[n][b] = t
      BY <1>1, <1>2, <1>3, Zenon DEF Apply
    <2>2. QED
      BY <1>1, <1>2, <1>3, <2>1, Zenon
  <1>4. QED
    BY <1>3, Zenon DEF HasAll, Has, Home, Written

\* The number of an engine that starts is none of those before it.
LEMMA NotYet ==
    ASSUME NEW uuid \in Nat, NEW now \in Nat, uuid <= now
    PROVE  uuid # now + 1
  OBVIOUS

\* What the node of a message has stored it keeps as long as its engine runs; and
\* a new engine has a UUID that no message bears yet.
LEMMA StoredStays ==
    ASSUME TypeOK, InFlightExecuted, [Next]_vars, NEW m \in Message,
           m.uuid <= storeUUID[Home(m.sourceTx)],
           m.uuid = storeUUID[Home(m.sourceTx)] => HasAll(Home(m.sourceTx), m.sourceTx),
           m.uuid = storeUUID'[Home(m.sourceTx)]
    PROVE  HasAll(Home(m.sourceTx), m.sourceTx)'
  <1> DEFINE t == m.sourceTx
             n == Home(t)
  <1>1. t \in Tx /\ m.uuid \in Nat
    BY DEF Message
  <1>2. n \in Kettle /\ Written(t) \subseteq BidId
    BY <1>1, KettleConstants, QueueFacts DEF Home, Written
  <1>3. storeUUID[n] \in Nat
    <2>1. storeUUID[n] \in 0 .. MaxRestarts
      BY <1>2, Zenon DEF TypeOK
    <2> HIDE DEF n
    <2>2. QED
      BY <2>1
  <1>4. ~(storeUUID'[n] = storeUUID[n] + 1)
    BY <1>1, <1>3, NotYet, Zenon
  <1>5. storeUUID'[n] = storeUUID[n] /\ ~Restart(n)
    <2>1. storeUUID'[n] = storeUUID[n]
      BY <1>2, <1>4, EngineFrame, Zenon
    <2>2. Restart(n) => storeUUID'[n] = storeUUID[n] + 1
      BY <1>2, Zenon DEF Restart, TypeOK
    <2>3. QED
      BY <1>4, <2>1, <2>2, Zenon
  <1>6. HasAll(n, t)
    BY <1>5, Zenon
  <1> HIDE DEF n, t
  <1>7. \A b \in Written(t) : Has(n, b)'
    BY <1>2, <1>5, <1>6, StoreGrows, Zenon DEF HasAll
  <1>8. QED
    BY <1>7, Zenon DEF HasAll, Has, n, t, Home, Written

LEMMA NextOwnIsStored ==
    ASSUME TypeOK, InFlightExecuted, UuidSoFar, OwnIsStored, [Next]_vars
    PROVE  OwnIsStored'
  <1>1. outbox \subseteq Message /\ \A n \in Kettle : InFlight(n) \subseteq Message
    BY QueueFacts DEF TypeOK, InFlight
  <1>2. ASSUME NEW m \in Message, m.uuid = storeUUID'[Home(m.sourceTx)],
               m \in outbox \/ \E n \in Kettle : m \in InFlight(n)
        PROVE  HasAll(Home(m.sourceTx), m.sourceTx)'
    <2>1. m.uuid <= storeUUID[Home(m.sourceTx)]
      BY <1>2, Zenon DEF UuidSoFar
    <2>2. m.uuid = storeUUID[Home(m.sourceTx)] => HasAll(Home(m.sourceTx), m.sourceTx)
      BY <1>2, Zenon DEF OwnIsStored
    <2>3. QED
      BY <1>2, <2>1, <2>2, StoredStays, Zenon
  <1>3. ASSUME NEW m \in outbox', m.uuid = storeUUID'[Home(m.sourceTx)]
        PROVE  HasAll(Home(m.sourceTx), m.sourceTx)'
    <2>1. CASE m \in outbox
      BY <1>1, <1>2, <1>3, <2>1, Zenon
    <2>2. ASSUME NEW t \in Tx, Finalize(t), m = [sourceTx |-> t, uuid |-> storeUUID[Home(t)]]
          PROVE  HasAll(Home(m.sourceTx), m.sourceTx)'
      <3>1. m.sourceTx = t
        BY <2>2, Zenon
      <3>2. HasAll(Home(t), t)'
        BY <2>2, FinalizeStores, Zenon
      <3>3. QED
        BY <3>1, <3>2, Zenon DEF HasAll, Has, Home, Written
    <2>3. QED
      BY <1>3, <2>1, <2>2, MessagesFrame, Zenon
  <1>4. ASSUME NEW n \in Kettle, NEW m \in InFlight(n)', m.uuid = storeUUID'[Home(m.sourceTx)]
        PROVE  HasAll(Home(m.sourceTx), m.sourceTx)'
    <2>1. m \in InFlight(n) \/ m \in outbox
      BY <1>4, MessagesFrame, Zenon
    <2>2. m \in Message
      BY <1>1, <2>1, Zenon
    <2>3. QED
      BY <1>2, <1>4, <2>1, <2>2, Zenon
  <1>5. QED
    BY <1>3, <1>4, Zenon DEF OwnIsStored, Home

SInv == TypeOK /\ InFlightExecuted /\ UuidSoFar /\ OwnIsStored

\* It holds throughout.
LEMMA StoredInvariance == Spec => []SInv
  <1>1. Init => SInv
    <2> SUFFICES ASSUME Init PROVE SInv
      OBVIOUS
    <2>1. TypeOK
      BY InitTypeOK
    <2>2. InFlightExecuted /\ UuidSoFar /\ OwnIsStored
      BY DEF Init, InFlightExecuted, UuidSoFar, OwnIsStored, InFlight, Range
    <2>3. QED
      BY <2>1, <2>2, Zenon DEF SInv
  <1>2. SInv /\ [Next]_vars => SInv'
    BY NextTypeOK, NextInFlightExecuted, NextUuidSoFar, NextOwnIsStored, Zenon DEF SInv
  <1>3. QED
    BY <1>1, <1>2, PTL DEF Spec

\* A node takes the message of a request, a valid one, from its channel.
Handles(n, t) == NewMessage(n) /\ t = Head(chan[n]).sourceTx /\ Valid(t)

\* Once a node has handled a valid message, its store has a value for every bid
\* that the request wrote: the message was applied, or the UUID test took it for
\* the node's own, and then the node has executed the request since it started.
\* The test never skips what a restart or another node has to bring (what Delivered
\* rests on).
THEOREM HandledIsStored ==
    Spec => [][\A n \in Kettle, t \in Tx : Handles(n, t) => HasAll(n, t)']_vars
  <1>1. ASSUME SInv, NEW n \in Kettle, NEW t \in Tx, Handles(n, t)
        PROVE  HasAll(n, t)'
    <2> DEFINE m == Head(chan[n])
    <2>1. chan[n] \in Seq(Message) /\ chan[n] # <<>>
      BY <1>1 DEF SInv, TypeOK, Handles, NewMessage
    <2>2. m \in InFlight(n) /\ m.sourceTx = t /\ Written(t) \subseteq BidId
      <3>1. m \in Range(chan[n])
        BY <2>1, QueueFacts, Zenon
      <3>2. m.sourceTx = t /\ Written(t) \subseteq BidId
        BY <1>1, <2>1, HeadOfChannel, Zenon DEF SInv, Handles
      <3>3. QED
        BY <3>1, <3>2, Zenon DEF InFlight
    <2>3. CASE IsOwn(n, m)
      <3>1. HasAll(n, t)
        BY <1>1, <2>2, <2>3, Zenon DEF SInv, OwnIsStored, IsOwn
      <3>2. UNCHANGED dataVars
        BY <1>1, <2>3, Zenon DEF Handles, NewMessage
      <3>3. QED
        BY <3>1, <3>2 DEF HasAll, Has, dataVars
    <2>4. CASE ~IsOwn(n, m)
      <3>1. /\ known' = [known EXCEPT ![n] = @ \union Written(t)]
            /\ data' = [data EXCEPT ![n] = Apply(@, t)]
        BY <1>1, <2>4, Zenon DEF Handles, NewMessage
      <3>2. known'[n] = known[n] \union Written(t) /\ data'[n] = Apply(data[n], t)
        BY <1>1, <3>1, Zenon DEF SInv, TypeOK
      <3>3. t # None
        BY <2>2, KettleConstants
      <3>4. ASSUME NEW b \in Written(t)
            PROVE  b \in known'[n] /\ data'[n][b] # None
        <4>1. data'[n][b] = t
          BY <2>2, <3>2, <3>4, Zenon DEF Apply
        <4>2. QED
          BY <3>2, <3>3, <3>4, <4>1, Zenon
      <3>5. QED
        BY <3>4, Zenon DEF HasAll, Has, Written
    <2>5. QED
      BY <2>3, <2>4, Zenon
  <1>2. SInv /\ [Next]_vars =>
            [\A n \in Kettle, t \in Tx : Handles(n, t) => HasAll(n, t)']_vars
    BY <1>1, Zenon
  <1>3. QED
    BY <1>2, StoredInvariance, PTL DEF Spec

\* A store never loses a bid or the value of one, whatever requests and messages
\* come in whatever order: only a restart does that, of a node whose store is kept
\* in memory.
THEOREM NothingIsLost ==
    Spec => [][\A n \in Kettle : n \in Persistent \/ ~Restart(n) =>
                  /\ known[n] \subseteq known'[n]
                  /\ \A b \in BidId : Has(n, b) => Has(n, b)']_vars
  <1>1. SInv /\ [Next]_vars =>
            [\A n \in Kettle : n \in Persistent \/ ~Restart(n) =>
                  /\ known[n] \subseteq known'[n]
                  /\ \A b \in BidId : Has(n, b) => Has(n, b)']_vars
    BY StoreGrows, Zenon DEF SInv
  <1>2. QED
    BY <1>1, StoredInvariance, PTL DEF Spec
=============================================================================
