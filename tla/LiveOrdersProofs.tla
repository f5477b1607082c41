--------------------------- MODULE LiveOrdersProofs ---------------------------
(***************************************************************************)
(* For any number of clients and orders: the types, that every client sees *)
(* a segment of the one history of orders, and that the channels implement *)
(* LiveFeed.                                                               *)
(***************************************************************************)
EXTENDS LiveOrders, SequenceTheorems, TLAPS

-----------------------------------------------------------------------------
(* The inductive invariant.                                                *)

\* g.mu does its work: who sends holds it, and only then is there a loop.
Exclusive ==
  \A o \in Orders :
    /\ pub[o] = "sending" => holder = o
    /\ holder = o => pub[o] = "sending"
    /\ pub[o] # "sending" => todo[o] = {} /\ target[o] = NoConn
    /\ target[o] # NoConn => target[o] \in todo[o]
    /\ todo[o] \subseteq subs

\* The map holds exactly the connections between SubLiveOrders and UnsubLiveOrders.
MapIsOpen == \A c \in Conns : c \in subs <=> conn[c] \in Open

\* The order being sent is the last of the history.
LastIsSent == \A o \in Orders : holder = o => Len(log) > 0 /\ log[Len(log)] = o

Awaits(c) == \E o \in Orders : c \in todo[o]

\* The handler holds an order, which it is writing.
Writing == {"writing", "blocked"}

\* A connected handler is behind the history by the order in its hand, and by the
\* one that is being sent if its turn has not come.
Position ==
  \A c \in Conns :
    /\ conn[c] = "streaming" /\ ~Awaits(c) => joined[c] + Len(seen[c]) = Len(log)
    /\ conn[c] = "streaming" /\ Awaits(c)  => joined[c] + Len(seen[c]) + 1 = Len(log)
    /\ conn[c] \in Writing /\ ~Awaits(c) => joined[c] + Len(seen[c]) + 1 = Len(log)
    /\ conn[c] \in Writing /\ Awaits(c)  => joined[c] + Len(seen[c]) + 2 = Len(log)

\* What a handler holds is the next order its client has to see.
HandIsNext ==
  \A c \in Conns : conn[c] \in Writing =>
    joined[c] + Len(seen[c]) + 1 <= Len(log) /\ hand[c] = log[joined[c] + Len(seen[c]) + 1]

Fresh == \A c \in Conns : conn[c] \in {"closed", "subscribing"} => seen[c] = << >>

IInv ==
  /\ TypeOK /\ Exclusive /\ MapIsOpen /\ LastIsSent
  /\ Position /\ HandIsNext /\ Fresh /\ SeenIsSegment

\* The initial state satisfies the invariant.
LEMMA InitIInv == Init => IInv
<1> SUFFICES ASSUME Init PROVE IInv
  OBVIOUS
<1>1. TypeOK
  BY DEF Init, TypeOK, PublisherOK, SubscriberOK, Steps
<1>2. Exclusive /\ MapIsOpen
  BY LiveOrdersAssumption DEF Init, Exclusive, MapIsOpen, Open
<1>3. LastIsSent /\ Position /\ HandIsNext /\ Fresh /\ SeenIsSegment
  BY LiveOrdersAssumption DEF Init, LastIsSent, Position, Writing, HandIsNext, Fresh,
                              SeenIsSegment
<1> QED  BY <1>1, <1>2, <1>3 DEF IInv

-----------------------------------------------------------------------------
(* Each step keeps the invariant, one part after the other.                *)

\* Only the step of a mutex holder changes who holds it.
LEMMA PublisherStep == TypeOK /\ [Next]_vars => PublisherOK'
<1> SUFFICES ASSUME TypeOK, [Next]_vars PROVE PublisherOK'
  OBVIOUS
<1> USE DEF TypeOK, PublisherOK, publisher
<1>1. ASSUME NEW o \in Orders, OrderNewPizza(o) \/ Lock(o) \/ Return(o)
      PROVE  PublisherOK'
  BY <1>1 DEF OrderNewPizza, Lock, Return, Advance, Unlock, SubscriberOK
<1>2. ASSUME NEW o \in Orders, NEW c \in Conns, Pick(o, c) \/ Send(o, c)
      PROVE  PublisherOK'
  BY <1>2 DEF Pick, Send, Served
<1>3. ASSUME NEW c \in Conns, Client(c) \/ GetLiveOrdersSSE(c)
      PROVE  PublisherOK'
  BY <1>3 DEF Client, Connect, ClientCloses, Stalls, ReadsAgain, ConnectionDies,
              GetLiveOrdersSSE, Subscribe, WriteEvent, WriteFails,
              Unsubscribe
<1>4. CASE UNCHANGED vars
  BY <1>4 DEF vars
<1> QED  BY <1>1, <1>2, <1>3, <1>4 DEF Next, PubOrder

\* A handler moves between the steps of its code, or stays.
LEMMA ConnStep == TypeOK /\ [Next]_vars => conn' \in [Conns -> Steps]
<1> SUFFICES ASSUME TypeOK, [Next]_vars PROVE conn' \in [Conns -> Steps]
  OBVIOUS
<1>1. conn' = conn \/ \E c \in Conns, s \in Steps : conn' = [conn EXCEPT ![c] = s]
  BY DEF Next, PubOrder, GetLiveOrdersSSE, OrderNewPizza, Lock, Return, Pick, Send, Served,
         Client, Connect, ClientCloses, Stalls, ReadsAgain, ConnectionDies, WriteFails,
         Unsubscribe, Subscribe, WriteEvent, Goto, Steps, vars, subscriber
<1> QED  BY <1>1 DEF TypeOK, SubscriberOK

StreamOK ==
  /\ subs \subseteq Conns /\ hand \in [Conns -> Orders \cup {NoOrder}]
  /\ log \in Seq(Orders) /\ joined \in [Conns -> Nat]
  /\ seen \in [Conns -> Seq(Orders)]

\* The order written to a client is one a handler has received.
LEMMA SubscriberStep == TypeOK /\ HandIsNext /\ [Next]_vars => SubscriberOK'
<1> SUFFICES ASSUME TypeOK, HandIsNext, [Next]_vars PROVE SubscriberOK'
  OBVIOUS
<1> USE DEF publisher, subscriber
<1>0. StreamOK
  BY DEF TypeOK, SubscriberOK, StreamOK
<1>1. ASSUME NEW o \in Orders, OrderNewPizza(o) \/ Return(o)
      PROVE  StreamOK'
  BY <1>0, <1>1 DEF OrderNewPizza, Return, StreamOK
<1>8. ASSUME NEW o \in Orders, Lock(o)
      PROVE  StreamOK'
  <2>1. log' \in Seq(Orders)
    BY <1>0, <1>8 DEF Lock, StreamOK
  <2> QED  BY <2>1, <1>0, <1>8 DEF Lock, StreamOK
<1>2. ASSUME NEW o \in Orders, NEW c \in Conns, Pick(o, c) \/ Send(o, c)
      PROVE  StreamOK'
  BY <1>0, <1>2 DEF Pick, Send, Served, StreamOK
<1>3. ASSUME NEW c \in Conns, Client(c) \/ WriteFails(c) \/ Unsubscribe(c)
      PROVE  StreamOK'
  BY <1>0, <1>3 DEF Client, Connect, ClientCloses, Stalls, ReadsAgain, ConnectionDies,
                    WriteFails, Unsubscribe, StreamOK
<1>4. ASSUME NEW c \in Conns, Subscribe(c)
      PROVE  StreamOK'
  BY <1>0, <1>4 DEF Subscribe, StreamOK
<1>5. ASSUME NEW c \in Conns, WriteEvent(c)
      PROVE  StreamOK'
  <2>1. joined[c] + Len(seen[c]) + 1 \in 1..Len(log)
    BY <1>0, <1>5 DEF WriteEvent, Goto, HandIsNext, Writing, StreamOK
  <2>2. hand[c] \in Orders
    <3>1. hand[c] = log[joined[c] + Len(seen[c]) + 1]
      BY <1>5 DEF WriteEvent, Goto, HandIsNext, Writing, StreamOK
    <3> QED  BY <3>1, <2>1, <1>0 DEF StreamOK
  <2>3. Append(seen[c], hand[c]) \in Seq(Orders)
    BY <2>2, <1>0 DEF StreamOK
  <2>4. seen' \in [Conns -> Seq(Orders)]
    BY <1>0, <1>5, <2>3 DEF WriteEvent, StreamOK
  <2>5. hand' \in [Conns -> Orders \cup {NoOrder}]
    BY <1>0, <1>5 DEF WriteEvent, StreamOK
  <2> QED  BY <1>0, <1>5, <2>4, <2>5 DEF WriteEvent, StreamOK
<1>6. ASSUME UNCHANGED vars
      PROVE  StreamOK'
  <2>1. subs' = subs /\ hand' = hand /\ log' = log /\ joined' = joined /\ seen' = seen
    BY <1>6 DEF vars
  <2> QED  BY <1>0, <2>1 DEF StreamOK
<1>7. StreamOK'
  <2>1. CASE \E o \in Orders : OrderNewPizza(o) \/ PubOrder(o)
    BY <2>1, <1>1, <1>2, <1>8 DEF PubOrder
  <2>2. CASE \E c \in Conns : Client(c) \/ GetLiveOrdersSSE(c)
    BY <2>2, <1>3, <1>4, <1>5 DEF GetLiveOrdersSSE
  <2> QED  BY <2>1, <2>2, <1>6 DEF Next
<1> QED  BY <1>7, ConnStep DEF SubscriberOK, StreamOK

\* The mutex keeps the loop to itself, and the map as it was when the loop began.
LEMMA ExclusiveStep == TypeOK /\ Exclusive /\ MapIsOpen /\ [Next]_vars => Exclusive'
<1> SUFFICES ASSUME TypeOK, Exclusive, MapIsOpen, [Next]_vars PROVE Exclusive'
  OBVIOUS
<1> USE LiveOrdersAssumption DEF TypeOK, PublisherOK, Exclusive, publisher
<1>1. ASSUME NEW o \in Orders, OrderNewPizza(o)
      PROVE  Exclusive'
  BY <1>1 DEF OrderNewPizza, Advance
<1>2. ASSUME NEW o \in Orders, Lock(o)
      PROVE  Exclusive'
  BY <1>2 DEF Lock, Advance, MayPublish, Unlocked
<1>3. ASSUME NEW o \in Orders, Return(o)
      PROVE  Exclusive'
  BY <1>3 DEF Return, Advance, Unlock
<1>4. ASSUME NEW o \in Orders, NEW c \in Conns, Pick(o, c)
      PROVE  Exclusive'
  BY <1>4 DEF Pick
<1>5. ASSUME NEW o \in Orders, NEW c \in Conns, Send(o, c)
      PROVE  Exclusive'
  BY <1>5 DEF Send, Served
<1>6. ASSUME NEW c \in Conns, Subscribe(c) \/ Unsubscribe(c)
      PROVE  Exclusive'
  BY <1>6 DEF Subscribe, Unsubscribe, Unlocked, MayUnsubscribe
<1>7. ASSUME NEW c \in Conns, Client(c) \/ WriteEvent(c) \/ WriteFails(c)
      PROVE  Exclusive'
  BY <1>7 DEF Client, Connect, ClientCloses, Stalls, ReadsAgain, ConnectionDies, WriteEvent,
              WriteFails
<1>8. CASE UNCHANGED vars
  BY <1>8 DEF vars
<1> QED  BY <1>1, <1>2, <1>3, <1>4, <1>5, <1>6, <1>7, <1>8 DEF Next, PubOrder, GetLiveOrdersSSE

\* The map of subscribers is exactly the set of open connections.
LEMMA MapIsOpenStep == TypeOK /\ MapIsOpen /\ [Next]_vars => MapIsOpen'
<1> SUFFICES ASSUME TypeOK, MapIsOpen, [Next]_vars PROVE MapIsOpen'
  OBVIOUS
<1> USE DEF TypeOK, SubscriberOK, MapIsOpen, Open, publisher, subscriber
<1>1. ASSUME NEW o \in Orders, OrderNewPizza(o) \/ Lock(o) \/ Return(o)
      PROVE  MapIsOpen'
  BY <1>1 DEF OrderNewPizza, Lock, Return
<1>2. ASSUME NEW o \in Orders, NEW c \in Conns, Pick(o, c) \/ Send(o, c)
      PROVE  MapIsOpen'
  BY <1>2 DEF Pick, Send, Served, Goto
<1>3. ASSUME NEW c \in Conns, Client(c) \/ GetLiveOrdersSSE(c)
      PROVE  MapIsOpen'
  BY <1>3 DEF Client, Connect, ClientCloses, Stalls, ReadsAgain, ConnectionDies,
              GetLiveOrdersSSE, Subscribe, WriteEvent, WriteFails,
              Unsubscribe, Goto, Steps
<1>4. CASE UNCHANGED vars
  BY <1>4 DEF vars
<1> QED  BY <1>1, <1>2, <1>3, <1>4 DEF Next, PubOrder

\* The order being sent stays the last of the history while the mutex is held.
LEMMA LastIsSentStep == TypeOK /\ LastIsSent /\ [Next]_vars => LastIsSent'
<1> SUFFICES ASSUME TypeOK, LastIsSent, [Next]_vars PROVE LastIsSent'
  OBVIOUS
<1> USE LiveOrdersAssumption DEF TypeOK, PublisherOK, SubscriberOK, LastIsSent, publisher
<1>1. ASSUME NEW o \in Orders, Lock(o)
      PROVE  LastIsSent'
  BY <1>1 DEF Lock
<1>2. ASSUME NEW o \in Orders, OrderNewPizza(o) \/ Return(o)
      PROVE  LastIsSent'
  BY <1>2 DEF OrderNewPizza, Return, Unlock
<1>3. ASSUME NEW o \in Orders, NEW c \in Conns, Pick(o, c) \/ Send(o, c)
      PROVE  LastIsSent'
  BY <1>3 DEF Pick, Send, Served
<1>4. ASSUME NEW c \in Conns, Client(c) \/ GetLiveOrdersSSE(c)
      PROVE  LastIsSent'
  BY <1>4 DEF Client, Connect, ClientCloses, Stalls, ReadsAgain, ConnectionDies,
              GetLiveOrdersSSE, Subscribe, WriteEvent, WriteFails,
              Unsubscribe
<1>5. CASE UNCHANGED vars
  BY <1>5 DEF vars
<1> QED  BY <1>1, <1>2, <1>3, <1>4, <1>5 DEF Next, PubOrder

\* A connection that has not subscribed has been sent nothing.
LEMMA FreshStep == TypeOK /\ Fresh /\ [Next]_vars => Fresh'
<1> SUFFICES ASSUME TypeOK, Fresh, [Next]_vars PROVE Fresh'
  OBVIOUS
<1> USE DEF TypeOK, SubscriberOK, Fresh, subscriber
<1>1. ASSUME NEW o \in Orders, OrderNewPizza(o) \/ Lock(o) \/ Return(o)
      PROVE  Fresh'
  BY <1>1 DEF OrderNewPizza, Lock, Return
<1>2. ASSUME NEW o \in Orders, NEW c \in Conns, Pick(o, c) \/ Send(o, c)
      PROVE  Fresh'
  BY <1>2 DEF Pick, Send, Served, Goto
<1>3. ASSUME NEW c \in Conns, Client(c) \/ GetLiveOrdersSSE(c)
      PROVE  Fresh'
  BY <1>3 DEF Client, Connect, ClientCloses, Stalls, ReadsAgain, ConnectionDies,
              GetLiveOrdersSSE, Subscribe, WriteEvent, WriteFails,
              Unsubscribe, Goto
<1>4. CASE UNCHANGED vars
  BY <1>4 DEF vars
<1> QED  BY <1>1, <1>2, <1>3, <1>4 DEF Next, PubOrder

\* A handler that has subscribed is behind the history by what it holds and awaits.
LEMMA PositionStep ==
  TypeOK /\ Exclusive /\ MapIsOpen /\ Fresh /\ Position /\ [Next]_vars => Position'
<1> SUFFICES ASSUME TypeOK, Exclusive, MapIsOpen, Fresh, Position, [Next]_vars
             PROVE  Position'
  OBVIOUS
<1> USE LiveOrdersAssumption DEF TypeOK, PublisherOK, SubscriberOK, publisher, subscriber
<1>1. ASSUME NEW o \in Orders, OrderNewPizza(o) \/ Return(o)
      PROVE  Position'
  BY <1>1 DEF OrderNewPizza, Return, Position, Writing, Awaits
<1>2. ASSUME NEW o \in Orders, Lock(o)
      PROVE  Position'
  <2>1. \A c \in Conns : ~Awaits(c)
    BY <1>2 DEF Lock, MayPublish, Unlocked, Exclusive, Awaits
  <2>2. \A c \in Conns : conn[c] \in Open => Awaits(c)'
    BY <1>2 DEF Lock, MapIsOpen, Awaits
  <2>3. Len(log') = Len(log) + 1
    BY <1>2 DEF Lock
  <2>4. conn' = conn /\ joined' = joined /\ seen' = seen
    BY <1>2 DEF Lock
  <2> QED  BY <2>1, <2>2, <2>3, <2>4 DEF Position, Writing, Open
<1>3. ASSUME NEW o \in Orders, NEW c \in Conns, Pick(o, c)
      PROVE  Position'
  BY <1>3 DEF Pick, Position, Writing, Awaits
<1>4. ASSUME NEW o \in Orders, NEW c \in Conns, Send(o, c)
      PROVE  Position'
  <2>1. Awaits(c) /\ ~Awaits(c)'
    BY <1>4 DEF Send, Served, Exclusive, Awaits
  <2>2. \A d \in Conns \ {c} : Awaits(d)' <=> Awaits(d)
    BY <1>4 DEF Send, Served, Awaits
  <2>3. log' = log /\ joined' = joined /\ seen' = seen
    BY <1>4 DEF Send, Served
  <2>4. conn[c] = "streaming" /\ conn' = [conn EXCEPT ![c] = "writing"]
    BY <1>4 DEF Send, Goto
  <2> QED  BY <2>1, <2>2, <2>3, <2>4 DEF Position, Writing
<1>5. ASSUME NEW c \in Conns, Client(c) \/ WriteFails(c) \/ Unsubscribe(c)
      PROVE  Position'
  BY <1>5 DEF Client, Connect, ClientCloses, Stalls, ReadsAgain, ConnectionDies, WriteFails,
              Unsubscribe, Goto, Position, Writing, Awaits
<1>6. ASSUME NEW c \in Conns, Subscribe(c)
      PROVE  Position'
  <2>1. \A d \in Conns : ~Awaits(d) /\ ~Awaits(d)'
    BY <1>6 DEF Subscribe, Unlocked, Exclusive, Awaits
  <2>2. seen[c] = << >> => joined'[c] + Len(seen'[c]) = Len(log')
    BY <1>6 DEF Subscribe
  <2> QED  BY <1>6, <2>1, <2>2 DEF Subscribe, Goto, Position, Writing, Fresh
<1>7. ASSUME NEW c \in Conns, WriteEvent(c)
      PROVE  Position'
  <2>1. \A d \in Conns : Awaits(d)' <=> Awaits(d)
    BY <1>7 DEF WriteEvent, Awaits
  <2>2. Len(seen'[c]) = Len(seen[c]) + 1
    BY <1>7 DEF WriteEvent
  <2> QED  BY <1>7, <2>1, <2>2 DEF WriteEvent, Goto, Position, Writing
<1>8. CASE UNCHANGED vars
  BY <1>8 DEF vars, Position, Writing, Awaits
<1> QED  BY <1>1, <1>2, <1>3, <1>4, <1>5, <1>6, <1>7, <1>8 DEF Next, PubOrder, GetLiveOrdersSSE

\* What is received is the last order of the history, and the next to be seen.
LEMMA HandIsNextStep ==
  IInv /\ [Next]_vars => HandIsNext'
<1> SUFFICES ASSUME IInv, [Next]_vars PROVE HandIsNext'
  OBVIOUS
<1> USE LiveOrdersAssumption DEF IInv, TypeOK, PublisherOK, SubscriberOK, publisher, subscriber
<1>1. ASSUME NEW o \in Orders, OrderNewPizza(o) \/ Return(o)
      PROVE  HandIsNext'
  BY <1>1 DEF OrderNewPizza, Return, HandIsNext, Writing
<1>2. ASSUME NEW o \in Orders, Lock(o)
      PROVE  HandIsNext'
  BY <1>2 DEF Lock, HandIsNext, Writing
<1>3. ASSUME NEW o \in Orders, NEW c \in Conns, Pick(o, c)
      PROVE  HandIsNext'
  BY <1>3 DEF Pick, HandIsNext, Writing
<1>4. ASSUME NEW o \in Orders, NEW c \in Conns, Send(o, c)
      PROVE  HandIsNext'
  <2>1. holder = o /\ Awaits(c)
    BY <1>4 DEF Send, Served, Exclusive, Awaits
  <2>2. joined[c] + Len(seen[c]) + 1 = Len(log) /\ log[Len(log)] = o
    BY <2>1, <1>4 DEF Send, Goto, Position, LastIsSent
  <2>3. conn' = [conn EXCEPT ![c] = "writing"] /\ hand' = [hand EXCEPT ![c] = o]
    BY <1>4 DEF Send, Goto
  <2>4. log' = log /\ joined' = joined /\ seen' = seen
    BY <1>4 DEF Send, Served
  <2> QED  BY <2>2, <2>3, <2>4 DEF HandIsNext, Writing
<1>5. ASSUME NEW c \in Conns, Client(c) \/ WriteFails(c) \/ Unsubscribe(c)
      PROVE  HandIsNext'
  BY <1>5 DEF Client, Connect, ClientCloses, Stalls, ReadsAgain, ConnectionDies, WriteFails,
              Unsubscribe, Goto, HandIsNext, Writing
<1>6. ASSUME NEW c \in Conns, Subscribe(c) \/ WriteEvent(c)
      PROVE  HandIsNext'
  BY <1>6 DEF Subscribe, WriteEvent, Goto, HandIsNext, Writing
<1>7. CASE UNCHANGED vars
  BY <1>7 DEF vars, HandIsNext, Writing
<1> QED  BY <1>1, <1>2, <1>3, <1>4, <1>5, <1>6, <1>7 DEF Next, PubOrder, GetLiveOrdersSSE

\* Publishing extends the history, and writing follows it.
LEMMA SeenIsSegmentStep ==
  IInv /\ [Next]_vars => SeenIsSegment'
<1> SUFFICES ASSUME IInv, [Next]_vars PROVE SeenIsSegment'
  OBVIOUS
<1> USE DEF IInv, TypeOK, SubscriberOK, publisher, subscriber
<1>1. ASSUME NEW o \in Orders, OrderNewPizza(o) \/ Return(o)
      PROVE  SeenIsSegment'
  BY <1>1 DEF OrderNewPizza, Return, SeenIsSegment
<1>2. ASSUME NEW o \in Orders, Lock(o)
      PROVE  SeenIsSegment'
  <2>1. Len(log') = Len(log) + 1 /\ \A i \in 1..Len(log) : log'[i] = log[i]
    BY <1>2 DEF Lock
  <2>2. joined' = joined /\ seen' = seen
    BY <1>2 DEF Lock
  <2> QED  BY <2>1, <2>2 DEF SeenIsSegment
<1>3. ASSUME NEW o \in Orders, NEW c \in Conns, Pick(o, c) \/ Send(o, c)
      PROVE  SeenIsSegment'
  BY <1>3 DEF Pick, Send, Served, SeenIsSegment
<1>4. ASSUME NEW c \in Conns, Client(c) \/ WriteFails(c) \/ Unsubscribe(c)
      PROVE  SeenIsSegment'
  BY <1>4 DEF Client, Connect, ClientCloses, Stalls, ReadsAgain, ConnectionDies, WriteFails,
              Unsubscribe, SeenIsSegment
<1>5. ASSUME NEW c \in Conns, Subscribe(c)
      PROVE  SeenIsSegment'
  BY <1>5 DEF Subscribe, Goto, Fresh, SeenIsSegment
<1>6. ASSUME NEW c \in Conns, WriteEvent(c)
      PROVE  SeenIsSegment'
  <2>1. log' = log /\ joined' = joined /\ seen' = [seen EXCEPT ![c] = Append(@, hand[c])]
    BY <1>6 DEF WriteEvent
  <2>2. joined[c] + Len(seen[c]) + 1 <= Len(log) /\ hand[c] = log[joined[c] + Len(seen[c]) + 1]
    BY <1>6 DEF WriteEvent, Goto, HandIsNext, Writing
  <2>3. /\ Len(seen'[c]) = Len(seen[c]) + 1
        /\ seen'[c][Len(seen[c]) + 1] = hand[c]
        /\ \A i \in 1..Len(seen[c]) : seen'[c][i] = seen[c][i]
    <3>1. seen'[c] = Append(seen[c], hand[c])
      BY <2>1
    <3> QED  BY <3>1
  <2>4. joined[c] + Len(seen'[c]) <= Len(log)
    BY <2>2, <2>3
  <2>5. ASSUME NEW i \in 1..Len(seen'[c])
        PROVE  seen'[c][i] = log[joined[c] + i]
    <3>1. CASE i = Len(seen[c]) + 1
      <4>1. joined[c] + i = joined[c] + Len(seen[c]) + 1
        BY <3>1
      <4> QED  BY <4>1, <3>1, <2>2, <2>3
    <3>2. CASE i \in 1..Len(seen[c])
      BY <3>2, <2>3 DEF SeenIsSegment
    <3> QED  BY <3>1, <3>2, <2>3
  <2>6. \A d \in Conns \ {c} : seen'[d] = seen[d]
    BY <2>1
  <2> QED  BY <2>1, <2>4, <2>5, <2>6 DEF SeenIsSegment
<1>7. CASE UNCHANGED vars
  BY <1>7 DEF vars, SeenIsSegment
<1> QED  BY <1>1, <1>2, <1>3, <1>4, <1>5, <1>6, <1>7 DEF Next, PubOrder, GetLiveOrdersSSE

-----------------------------------------------------------------------------
(* The theorems.                                                           *)

\* Each step keeps the invariant.
LEMMA NextIInv == IInv /\ [Next]_vars => IInv'
<1> SUFFICES ASSUME IInv, [Next]_vars PROVE IInv'
  OBVIOUS
<1>1. TypeOK /\ Exclusive /\ MapIsOpen /\ LastIsSent /\ Position /\ HandIsNext /\ Fresh
  BY DEF IInv
<1> QED  BY <1>1, PublisherStep, SubscriberStep, ExclusiveStep, MapIsOpenStep, LastIsSentStep,
            PositionStep, HandIsNextStep, FreshStep, SeenIsSegmentStep DEF IInv, TypeOK

\* The invariant holds in every reachable state.
LEMMA IInvHolds == Spec => []IInv
  BY InitIInv, NextIInv, PTL DEF Spec

\* The variables keep their types.
THEOREM TypeCorrect == Spec => []TypeOK
<1>1. IInv => TypeOK
  BY DEF IInv
<1> QED  BY <1>1, IInvHolds, PTL

\* Every client sees a gapless piece of the one history of orders.
THEOREM SegmentTheorem == Spec => []SeenIsSegment
<1>1. IInv => SeenIsSegment
  BY DEF IInv
<1> QED  BY <1>1, IInvHolds, PTL

\* A step of the channels is a step of the feed, or one the feed does not see.
LEMMA StepImplementsFeed == IInv /\ [Next]_vars => [Feed!FeedNext]_(Feed!feed)
<1> SUFFICES ASSUME IInv, [Next]_vars PROVE [Feed!FeedNext]_(Feed!feed)
  OBVIOUS
<1> USE DEF Feed!feed, publisher, subscriber
<1>1. ASSUME NEW o \in Orders, Lock(o)
      PROVE  Feed!FeedNext
  BY <1>1 DEF Lock, Feed!FeedNext, Feed!PublishOrder
<1>2. ASSUME NEW c \in Conns, Subscribe(c)
      PROVE  Feed!FeedNext
  <2>1. seen[c] = << >>
    BY <1>2 DEF Subscribe, Goto, IInv, Fresh
  <2> QED  BY <1>2, <2>1 DEF Subscribe, Feed!FeedNext, Feed!Join
<1>3. ASSUME NEW c \in Conns, WriteEvent(c)
      PROVE  Feed!FeedNext
  <2>1. joined[c] + Len(seen[c]) + 1 <= Len(log) /\ hand[c] = log[joined[c] + Len(seen[c]) + 1]
    BY <1>3 DEF WriteEvent, Goto, IInv, HandIsNext, Writing
  <2>2. joined[c] \in Nat /\ seen[c] \in Seq(Orders) /\ log \in Seq(Orders)
    BY DEF IInv, TypeOK, SubscriberOK
  <2>3. joined[c] + Len(seen[c]) < Len(log)
    BY <2>1, <2>2
  <2>4. Feed!Receive(c)
    BY <1>3, <2>1, <2>3 DEF WriteEvent, Feed!Receive
  <2> QED  BY <2>4 DEF Feed!FeedNext
<1>4. ASSUME NEW o \in Orders, OrderNewPizza(o) \/ Return(o)
      PROVE  UNCHANGED Feed!feed
  BY <1>4 DEF OrderNewPizza, Return
<1>5. ASSUME NEW o \in Orders, NEW c \in Conns, Pick(o, c) \/ Send(o, c)
      PROVE  UNCHANGED Feed!feed
  BY <1>5 DEF Pick, Send, Served
<1>6. ASSUME NEW c \in Conns, Client(c) \/ WriteFails(c) \/ Unsubscribe(c)
      PROVE  UNCHANGED Feed!feed
  BY <1>6 DEF Client, Connect, ClientCloses, Stalls, ReadsAgain, ConnectionDies, WriteFails,
              Unsubscribe
<1>7. CASE UNCHANGED vars
  BY <1>7 DEF vars
<1> QED  BY <1>1, <1>2, <1>3, <1>4, <1>5, <1>6, <1>7 DEF Next, PubOrder, GetLiveOrdersSSE

\* The in-memory channels keep the promise of OrderPubSubber.
THEOREM RefinementTheorem == Spec => ImplementsFeed
<1>1. Init => Feed!FeedInit
  BY DEF Init, Feed!FeedInit
<1> QED  BY <1>1, StepImplementsFeed, IInvHolds, PTL DEF Spec, ImplementsFeed, Feed!FeedSpec

\* A publisher that has still to send to a client that waits to leave never gets on, and
\* keeps everything that needs its mutex from happening.
THEOREM JamTheorem == Spec => JamIsForEver
<1>1. IInv /\ [Next]_vars => (Jammed => Jammed' /\ UNCHANGED <<holder, log, subs>>)
  <2> SUFFICES ASSUME IInv, [Next]_vars,
                      NEW o \in Orders, NEW c \in Conns, c \in todo[o], conn[c] = "leaving"
               PROVE  c \in todo'[o] /\ conn'[c] = "leaving" /\ UNCHANGED <<holder, log, subs>>
    BY DEF Jammed
  <2> USE LiveOrdersAssumption DEF publisher, subscriber, IInv, TypeOK, PublisherOK,
              SubscriberOK
  <2>1. holder = o /\ ~Unlocked
    BY DEF Exclusive, Unlocked
  <2>2. ASSUME NEW p \in Orders, OrderNewPizza(p) \/ Lock(p) \/ Return(p)
        PROVE  c \in todo'[o] /\ conn'[c] = "leaving" /\ UNCHANGED <<holder, log, subs>>
    BY <2>1, <2>2 DEF OrderNewPizza, Lock, Return, MayPublish, Advance, Exclusive
  <2>3. ASSUME NEW p \in Orders, NEW d \in Conns, Pick(p, d) \/ Send(p, d)
        PROVE  c \in todo'[o] /\ conn'[c] = "leaving" /\ UNCHANGED <<holder, log, subs>>
    BY <2>1, <2>3 DEF Pick, Send, Served, Goto, Exclusive
  <2>4. ASSUME NEW d \in Conns, Client(d) \/ GetLiveOrdersSSE(d)
        PROVE  c \in todo'[o] /\ conn'[c] = "leaving" /\ UNCHANGED <<holder, log, subs>>
    BY <2>1, <2>4 DEF Client, Connect, ClientCloses, Stalls, ReadsAgain, ConnectionDies,
                      GetLiveOrdersSSE, Subscribe, WriteEvent, WriteFails, Unsubscribe,
                      MayUnsubscribe, Goto
  <2>5. CASE UNCHANGED vars
    BY <2>5 DEF vars
  <2> QED  BY <2>2, <2>3, <2>4, <2>5 DEF Next, PubOrder
<1> QED  BY <1>1, IInvHolds, PTL DEF Spec, JamIsForEver
=============================================================================
