---------------------------- MODULE GatewayProofs ----------------------------
(***************************************************************************)
(* What the run of Gateway checks on two clients, proved for every set of  *)
(* clients, orders and updates: the types, that no consumer of the stream  *)
(* outlives the connection it was made for, and that the consumers and     *)
(* their handlers implement the live feed.                                 *)
(***************************************************************************)
EXTENDS Gateway, SequenceTheorems, TLAPS

-----------------------------------------------------------------------------
(* Types, in the groups of variables that steps change together.           *)

OrdersOK ==
  /\ reply \in [Orders -> {"none", "publishing", "200", "400"}]
  /\ stream \in Seq(Msgs) /\ log \in Seq(Msgs)

EventsOK ==
  /\ conn \in [Conns -> Steps]
  /\ next \in [Conns -> Nat] /\ missed \in [Conns -> Nat]
  /\ held \in [Conns -> Msgs \cup {NoMsg}]
  /\ seen \in [Conns -> Seq(Msgs)]
  /\ subs \subseteq Conns

ProcessOK == hasStream \in BOOLEAN /\ up \in BOOLEAN /\ outage \in BOOLEAN

\* The gateway starts with the types it declares.
LEMMA InitTypeOK == Init => TypeOK
<1> SUFFICES ASSUME Init PROVE TypeOK
  OBVIOUS
<1>1. OrdersOK
  BY DEF Init, OrdersOK
<1>2. EventsOK
  BY DEF Init, EventsOK, Steps
<1>3. ProcessOK
  BY DEF Init, ProcessOK
<1> QED  BY <1>1, <1>2, <1>3 DEF TypeOK, OrdersOK, EventsOK, ProcessOK

\* Requests and other services append messages to the stream and answer.
LEMMA OrdersStep == OrdersOK /\ [Next]_vars => OrdersOK'
<1> SUFFICES ASSUME OrdersOK, [Next]_vars PROVE OrdersOK'
  OBVIOUS
<1> USE DEF OrdersOK, orders, store, Stored
<1>1. ASSUME NEW o \in Orders, Request(o) PROVE OrdersOK'
  <2>1. o \in Msgs
    BY DEF Msgs
  <2>2. reply' \in [Orders -> {"none", "publishing", "200", "400"}]
    BY <1>1 DEF Request, Bind, BindFails, Publish, PublishFails, Answer
  <2>3. stream' \in Seq(Msgs) /\ log' \in Seq(Msgs)
    <3>1. UNCHANGED store \/ Stored(o)
      BY <1>1 DEF Request, Bind, BindFails, Publish, PublishFails
    <3>2. Append(stream, o) \in Seq(Msgs) /\ Append(log, o) \in Seq(Msgs)
      BY <2>1
    <3>3. CASE UNCHANGED store
      BY <3>3
    <3>4. CASE Stored(o)
      BY <3>2, <3>4
    <3> QED  BY <3>1, <3>3, <3>4
  <2> QED  BY <2>2, <2>3
<1>2. ASSUME NEW u \in Updates, OtherPublishes(u) PROVE OrdersOK'
  <2>1. u \in Msgs
    BY DEF Msgs
  <2> QED  BY <1>2, <2>1 DEF OtherPublishes
<1>3. CASE \E c \in Conns : Client(c) \/ Handler(c) \/ Consume(c) \/ Skip(c)
  BY <1>3 DEF Client, Connect, ClientCloses, Stalls, ReadsAgain, ConnectionDies, Handler,
              Consume, Skip, Subscribe, SubscribeFails, StoreBegins, StoreEnds, WriteEvent,
              WriteFails, UnsubBegins, UnsubEnds
<1>4. CASE MapRace \/ Outage \/ UNCHANGED vars
  BY <1>4 DEF MapRace, Outage, vars
<1> QED  BY <1>1, <1>2, <1>3, <1>4 DEF Next

\* Only a race in the map ends the process.
LEMMA ProcessStep == ProcessOK /\ [Next]_vars => ProcessOK'
<1> SUFFICES ASSUME ProcessOK, [Next]_vars PROVE ProcessOK'
  OBVIOUS
<1> USE DEF ProcessOK, process
<1>1. CASE \E o \in Orders : Request(o)
  BY <1>1 DEF Request, Bind, BindFails, Publish, PublishFails
<1>2. CASE \E u \in Updates : OtherPublishes(u)
  BY <1>2 DEF OtherPublishes
<1>3. CASE \E c \in Conns : Client(c) \/ Handler(c) \/ Consume(c) \/ Skip(c)
  BY <1>3 DEF Client, Connect, ClientCloses, Stalls, ReadsAgain, ConnectionDies, Handler,
              Consume, Skip, Subscribe, SubscribeFails, StoreBegins, StoreEnds, WriteEvent,
              WriteFails, UnsubBegins, UnsubEnds
<1>4. CASE MapRace \/ Outage \/ UNCHANGED vars
  BY <1>4 DEF MapRace, Outage, vars
<1> QED  BY <1>1, <1>2, <1>3, <1>4 DEF Next

\* Handlers and callbacks pass on messages of the stream and nothing else.
LEMMA EventsStep == OrdersOK /\ EventsOK /\ [Next]_vars => EventsOK'
<1> SUFFICES ASSUME OrdersOK, EventsOK, [Next]_vars PROVE EventsOK'
  OBVIOUS
<1> USE DEF EventsOK, orders, store, events, position
<1>1. CASE \E o \in Orders : Request(o)
  BY <1>1 DEF Request, Bind, BindFails, Publish, PublishFails
<1>2. CASE \E u \in Updates : OtherPublishes(u)
  BY <1>2 DEF OtherPublishes
<1>3. ASSUME NEW c \in Conns,
             Client(c) \/ Subscribe(c) \/ SubscribeFails(c) \/ StoreBegins(c)
               \/ StoreEnds(c) \/ WriteFails(c) \/ UnsubBegins(c) \/ UnsubEnds(c)
      PROVE  EventsOK'
  <2>1. conn' \in [Conns -> Steps]
    BY <1>3 DEF Client, Connect, ClientCloses, Stalls, ReadsAgain, ConnectionDies, Subscribe,
                SubscribeFails, StoreBegins, StoreEnds, WriteFails, UnsubBegins, UnsubEnds,
                Goto, Steps
  <2>2. next' \in [Conns -> Nat]
    <3>1. next' = next \/ \E k \in Nat : next' = [next EXCEPT ![c] = k]
      BY <1>3 DEF Client, Connect, ClientCloses, Stalls, ReadsAgain, ConnectionDies, Subscribe,
                  SubscribeFails, StoreBegins, StoreEnds, WriteFails, UnsubBegins, UnsubEnds,
                  Stopped
    <3> QED  BY <3>1
  <2>3. held' \in [Conns -> Msgs \cup {NoMsg}]
    <3>1. held' = held \/ held' = [held EXCEPT ![c] = NoMsg]
      BY <1>3 DEF Client, Connect, ClientCloses, Stalls, ReadsAgain, ConnectionDies, Subscribe,
                  SubscribeFails, StoreBegins, StoreEnds, WriteFails, UnsubBegins, UnsubEnds
    <3> QED  BY <3>1
  <2>4. seen' = seen /\ missed' = missed /\ subs' \subseteq Conns
    BY <1>3 DEF Client, Connect, ClientCloses, Stalls, ReadsAgain, ConnectionDies, Subscribe,
                SubscribeFails, StoreBegins, StoreEnds, WriteFails, UnsubBegins, UnsubEnds
  <2> QED  BY <2>1, <2>2, <2>3, <2>4
<1>4. ASSUME NEW c \in Conns, WriteEvent(c) PROVE EventsOK'
  <2>1. held[c] \in Msgs
    BY <1>4 DEF WriteEvent
  <2> QED  BY <1>4, <2>1 DEF WriteEvent
<1>5. ASSUME NEW c \in Conns, Consume(c) PROVE EventsOK'
  <2>1. stream[next[c]] \in Msgs
    BY <1>5, ElementOfSeq DEF Consume, OrdersOK
  <2> QED  BY <1>5, <2>1 DEF Consume, After
<1>6. ASSUME NEW c \in Conns, Skip(c) PROVE EventsOK'
  BY <1>6 DEF Skip
<1>7. CASE MapRace
  BY <1>7 DEF MapRace, Steps
<1>8. CASE Outage \/ UNCHANGED vars
  BY <1>8 DEF Outage, vars
<1> QED  BY <1>1, <1>2, <1>3, <1>4, <1>5, <1>6, <1>7, <1>8 DEF Next, Handler

\* Every step preserves the types.
LEMMA TypeStep == TypeOK /\ [Next]_vars => TypeOK'
  BY OrdersStep, ProcessStep, EventsStep DEF TypeOK, OrdersOK, EventsOK, ProcessOK

-----------------------------------------------------------------------------
\* Every step leaves each running consumer to its open connection: a handler
\* cannot get past its clean-up without having stopped the consumer, because it
\* finds in the map what it stored there.
LEMMA OwnedStep == TypeOK /\ ConsumerIsOwned /\ [Next]_vars => ConsumerIsOwned'
<1> SUFFICES ASSUME TypeOK, ConsumerIsOwned, [Next]_vars PROVE ConsumerIsOwned'
  OBVIOUS
<1> USE DEF ConsumerIsOwned, TypeOK, orders, store, events, position
<1>1. CASE \E o \in Orders : Request(o)
  BY <1>1 DEF Request, Bind, BindFails, Publish, PublishFails
<1>2. CASE \E u \in Updates : OtherPublishes(u)
  BY <1>2 DEF OtherPublishes
<1>3. ASSUME NEW c \in Conns, Client(c) \/ Subscribe(c) \/ SubscribeFails(c)
      PROVE  ConsumerIsOwned'
  BY <1>3 DEF Client, Connect, ClientCloses, Stalls, ReadsAgain, ConnectionDies, Subscribe,
              SubscribeFails, Goto
<1>4. ASSUME NEW c \in Conns,
             StoreBegins(c) \/ StoreEnds(c) \/ UnsubBegins(c) \/ UnsubEnds(c)
      PROVE  ConsumerIsOwned'
  BY <1>4 DEF StoreBegins, StoreEnds, UnsubBegins, UnsubEnds, Stopped, Goto
<1>5. ASSUME NEW c \in Conns, WriteEvent(c) \/ WriteFails(c) PROVE ConsumerIsOwned'
  BY <1>5 DEF WriteEvent, WriteFails, Goto
<1>6. ASSUME NEW c \in Conns, Consume(c) \/ Skip(c) PROVE ConsumerIsOwned'
  BY <1>6 DEF Consume, Skip, After
<1>7. CASE MapRace
  BY <1>7 DEF MapRace
<1>8. CASE Outage \/ UNCHANGED vars
  BY <1>8 DEF Outage, vars
<1> QED  BY <1>1, <1>2, <1>3, <1>4, <1>5, <1>6, <1>7, <1>8 DEF Next, Handler

-----------------------------------------------------------------------------
(* The log is the readable part of the stream.                             *)

\* rank[i] of the first i messages of the stream are readable, and the log holds them in
\* the stream's order.
Ranked(rank) ==
  /\ rank \in [0..Len(stream) -> 0..Len(log)]
  /\ rank[0] = 0 /\ rank[Len(stream)] = Len(log)
  /\ \A i \in 1..Len(stream) :
       IF Readable(stream[i])
         THEN rank[i] = rank[i - 1] + 1 /\ log[rank[i]] = stream[i]
         ELSE rank[i] = rank[i - 1]

LogIsReadable == \E rank \in [0..Len(stream) -> 0..Len(log)] : Ranked(rank)

Following == {"storing", "writing", "streaming", "stalled"}

\* What the client has seen, what it has missed and what its callback holds is what the
\* log has for the messages its consumer has been given, and no more than that when its
\* handler leaves.
Position(c, rank) ==
  /\ conn[c] \in {"closed", "subscribing"} =>
       seen[c] = << >> /\ held[c] = NoMsg /\ missed[c] = 0
  /\ conn[c] \in Following =>
       /\ next[c] \in 1..(Len(stream) + 1)
       /\ held[c] = NoMsg => rank[next[c] - 1] = missed[c] + Len(seen[c])
       /\ held[c] # NoMsg => /\ rank[next[c] - 1] = missed[c] + Len(seen[c]) + 1
                             /\ log[missed[c] + Len(seen[c]) + 1] = held[c]
  /\ next[c] # 0 =>
       next[c] \in 1..(Len(stream) + 1) /\ missed[c] + Len(seen[c]) <= rank[next[c] - 1]

Positions(rank) == Ranked(rank) /\ \A c \in Conns : Position(c, rank)

HasPositions == \E rank \in [0..Len(stream) -> 0..Len(log)] : Positions(rank)

\* What a client has seen is the log up to some point, also when it has left.
SeenIsPrefix ==
  \A c \in Conns :
    /\ Len(seen[c]) <= Len(log)
    /\ \A i \in 1..Len(seen[c]) : seen[c][i] = log[i]

\* Nothing is missed but in an outage.
NothingMissed == ~outage => \A c \in Conns : missed[c] = 0

IInv ==
  TypeOK /\ ConsumerIsOwned /\ HasPositions /\ NothingMissed /\ (outage \/ SeenIsPrefix)

\* A message extends the stream, and the log if it can be read.
LEMMA StoredLemma ==
  ASSUME TypeOK, NEW m \in Msgs, Stored(m)
  PROVE  /\ Len(stream') = Len(stream) + 1 /\ stream'[Len(stream) + 1] = m
         /\ \A i \in 1..Len(stream) : stream'[i] = stream[i]
         /\ Readable(m) => Len(log') = Len(log) + 1 /\ log'[Len(log) + 1] = m
         /\ ~Readable(m) => log' = log
         /\ Len(log') \in Nat /\ Len(log) <= Len(log')
         /\ \A i \in 1..Len(log) : log'[i] = log[i]
<1>1. stream \in Seq(Msgs) /\ log \in Seq(Msgs)
  BY DEF TypeOK
<1>2. stream' = Append(stream, m) /\ log' = IF Readable(m) THEN Append(log, m) ELSE log
  BY DEF Stored
<1>3. /\ Len(stream') = Len(stream) + 1 /\ stream'[Len(stream) + 1] = m
      /\ \A i \in 1..Len(stream) : stream'[i] = stream[i]
  BY <1>1, <1>2
<1>4. CASE Readable(m)
  BY <1>1, <1>2, <1>3, <1>4
<1>5. CASE ~Readable(m)
  BY <1>1, <1>2, <1>3, <1>5
<1> QED  BY <1>4, <1>5

\* The ranks go on where they were.
LEMMA RankLemma ==
  ASSUME TypeOK, NEW m \in Msgs, Stored(m), NEW rank, Ranked(rank)
  PROVE  \E r \in [0..Len(stream') -> 0..Len(log')] :
           Ranked(r)' /\ \A i \in 0..Len(stream) : r[i] = rank[i]
<1> DEFINE N == Len(stream)
<1> PICK r : r = [i \in 0..(N + 1) |-> IF i = N + 1 THEN Len(log') ELSE rank[i]]
  OBVIOUS
<1>1. N \in Nat /\ Len(log) \in Nat
  BY DEF TypeOK
<1>2. Len(stream') = N + 1
  BY StoredLemma
<1>3. \A i \in 0..N : r[i] = rank[i] /\ rank[i] \in 0..Len(log)
  BY <1>1 DEF Ranked
<1>4. r[N + 1] = Len(log')
  BY <1>1
<1>5. r \in [0..Len(stream') -> 0..Len(log')]
  <2>1. ASSUME NEW i \in 0..(N + 1)
        PROVE  r[i] \in 0..Len(log')
    <3>1. Len(log') \in Nat /\ Len(log) <= Len(log')
      BY StoredLemma
    <3>2. CASE i = N + 1
      BY <1>4, <3>1, <3>2
    <3>3. CASE i \in 0..N
      <4>1. r[i] \in 0..Len(log)
        BY <1>3, <3>3
      <4> QED  BY <1>1, <3>1, <4>1
    <3> QED  BY <1>1, <3>2, <3>3
  <2>2. DOMAIN r = 0..(N + 1) /\ r = [i \in DOMAIN r |-> r[i]]
    OBVIOUS
  <2> HIDE DEF N
  <2> QED  BY <1>2, <2>1, <2>2
<1>6. r[0] = 0 /\ r[N] = Len(log)
  BY <1>1, <1>3 DEF Ranked
<1>7. ASSUME NEW i \in 1..(N + 1)
      PROVE  IF Readable(stream'[i])
               THEN r[i] = r[i - 1] + 1 /\ log'[r[i]] = stream'[i]
               ELSE r[i] = r[i - 1]
  <2>1. CASE i = N + 1
    <3>1. stream'[i] = m /\ i - 1 = N
      BY <1>1, <2>1, StoredLemma
    <3>2. CASE Readable(m)
      BY <1>4, <1>6, <2>1, <3>1, <3>2, StoredLemma
    <3>3. CASE ~Readable(m)
      BY <1>4, <1>6, <2>1, <3>1, <3>3, StoredLemma
    <3> QED  BY <3>1, <3>2, <3>3
  <2>2. CASE i \in 1..N
    <3>1. stream'[i] = stream[i]
      BY <2>2, StoredLemma
    <3>2. r[i] = rank[i] /\ r[i - 1] = rank[i - 1] /\ rank[i] \in 0..Len(log)
            /\ rank[i - 1] \in 0..Len(log)
      <4>1. i \in 0..N /\ i - 1 \in 0..N
        BY <1>1, <2>2
      <4> QED  BY <1>3, <4>1
    <3>3. CASE Readable(stream[i])
      <4>1. rank[i] = rank[i - 1] + 1 /\ log[rank[i]] = stream[i]
        BY <2>2, <3>3 DEF Ranked
      <4>2. rank[i] \in 1..Len(log)
        BY <1>1, <3>2, <4>1
      <4>3. log'[rank[i]] = log[rank[i]]
        BY <4>2, StoredLemma
      <4> QED  BY <3>1, <3>2, <3>3, <4>1, <4>3
    <3>4. CASE ~Readable(stream[i])
      <4>1. rank[i] = rank[i - 1]
        BY <2>2, <3>4 DEF Ranked
      <4> QED  BY <3>1, <3>2, <3>4, <4>1
    <3> QED  BY <3>3, <3>4
  <2> QED  BY <1>1, <2>1, <2>2
<1>8. Ranked(r)'
  BY <1>2, <1>4, <1>5, <1>6, <1>7 DEF Ranked, Readable
<1> QED  BY <1>3, <1>5, <1>8

-----------------------------------------------------------------------------
(* Consumers and handlers keep their positions.                            *)

\* What a step does to the stream: nothing, or one message at its end.
LEMMA StoreStep ==
  [Next]_vars => UNCHANGED store \/ (UNCHANGED events /\ \E m \in Msgs : Stored(m))
<1> SUFFICES ASSUME [Next]_vars
             PROVE  UNCHANGED store \/ (UNCHANGED events /\ \E m \in Msgs : Stored(m))
  OBVIOUS
<1>1. ASSUME NEW o \in Orders, Request(o)
      PROVE  UNCHANGED store \/ (UNCHANGED events /\ Stored(o))
  BY <1>1 DEF Request, Bind, BindFails, Publish, PublishFails
<1>2. ASSUME NEW u \in Updates, OtherPublishes(u)
      PROVE  UNCHANGED events /\ Stored(u)
  BY <1>2 DEF OtherPublishes
<1>3. CASE \E c \in Conns : Client(c) \/ Handler(c) \/ Consume(c) \/ Skip(c)
  BY <1>3 DEF Client, Connect, ClientCloses, Stalls, ReadsAgain, ConnectionDies, Handler,
              Consume, Skip, Subscribe, SubscribeFails, StoreBegins, StoreEnds, WriteEvent,
              WriteFails, UnsubBegins, UnsubEnds, orders
<1>4. CASE MapRace \/ Outage \/ UNCHANGED vars
  BY <1>4 DEF MapRace, Outage, vars, orders
<1> QED  BY <1>1, <1>2, <1>3, <1>4 DEF Next, Msgs

\* A message at the end of the stream moves nobody.
LEMMA StoredKeepsPositions ==
  ASSUME TypeOK, NEW m \in Msgs, Stored(m), UNCHANGED events, NEW rank, Positions(rank)
  PROVE  HasPositions'
<1>1. PICK r \in [0..Len(stream') -> 0..Len(log')] :
        Ranked(r)' /\ \A i \in 0..Len(stream) : r[i] = rank[i]
  BY RankLemma DEF Positions
<1>2. ASSUME NEW c \in Conns
      PROVE  Position(c, r)'
  <2>1. UNCHANGED <<conn, next, missed, held, seen>>
    BY DEF events, position
  <2>2. Len(stream) \in Nat /\ Len(log) \in Nat /\ Len(seen[c]) \in Nat /\ missed[c] \in Nat
    BY DEF TypeOK
  <2>3. Position(c, rank) /\ rank \in [0..Len(stream) -> 0..Len(log)]
    BY DEF Positions, Ranked
  <2>6. next[c] # 0 => /\ next[c] \in 1..(Len(stream') + 1)
                       /\ missed[c] + Len(seen[c]) <= r[next[c] - 1]
    <3> SUFFICES ASSUME next[c] # 0
                 PROVE  /\ next[c] \in 1..(Len(stream') + 1)
                        /\ missed[c] + Len(seen[c]) <= r[next[c] - 1]
      OBVIOUS
    <3>1. next[c] \in 1..(Len(stream) + 1) /\ next[c] - 1 \in 0..Len(stream)
      BY <2>2, <2>3 DEF Position
    <3> QED  BY <1>1, <2>2, <2>3, <3>1, StoredLemma DEF Position
  <2>4. CASE conn[c] \in Following
    <3>1. next[c] \in 1..(Len(stream) + 1) /\ next[c] - 1 \in 0..Len(stream)
      BY <2>2, <2>3, <2>4 DEF Position
    <3>2. r[next[c] - 1] = rank[next[c] - 1]
      BY <1>1, <3>1
    <3>3. next[c] \in 1..(Len(stream') + 1)
      BY <2>2, <3>1, StoredLemma
    <3>4. held[c] # NoMsg =>
            log'[missed[c] + Len(seen[c]) + 1] = log[missed[c] + Len(seen[c]) + 1]
      <4>1. rank[next[c] - 1] \in 0..Len(log)
        BY <2>3, <3>1
      <4>2. held[c] # NoMsg => missed[c] + Len(seen[c]) + 1 \in 1..Len(log)
        BY <2>2, <2>3, <2>4, <4>1 DEF Position
      <4> QED  BY <4>2, StoredLemma
    <3> QED  BY <2>1, <2>3, <2>4, <2>6, <3>2, <3>3, <3>4 DEF Position, Following
  <2>5. CASE conn[c] \notin Following
    BY <2>1, <2>3, <2>5, <2>6 DEF Position
  <2> QED  BY <2>4, <2>5
<1> QED  BY <1>1, <1>2 DEF HasPositions, Positions

\* A step of one connection moves no other.
LEMMA OthersKeepPosition ==
  ASSUME UNCHANGED store, NEW rank, NEW d,
         conn'[d] = conn[d], next'[d] = next[d], missed'[d] = missed[d], held'[d] = held[d],
         seen'[d] = seen[d],
         Position(d, rank)
  PROVE  Position(d, rank)'
  BY DEF store, Position, Following

\* A consumer and its handler keep their positions: what is held is next, what is
\* written has been held.
LEMMA ConnKeepsPosition ==
  ASSUME TypeOK, ConsumerIsOwned, NEW rank, Ranked(rank), NEW c \in Conns, Position(c, rank),
         UNCHANGED store,
         Client(c) \/ Handler(c) \/ Consume(c) \/ Skip(c)
  PROVE  Position(c, rank)'
<1> USE DEF Position, Following, TypeOK, orders, store, position
<1>1. Len(stream) \in Nat /\ Len(log) \in Nat /\ Len(seen[c]) \in Nat /\ missed[c] \in Nat
  OBVIOUS
<1>2. CASE Connect(c) \/ Stalls(c) \/ ReadsAgain(c)
  BY <1>2 DEF Connect, Stalls, ReadsAgain, Goto
<1>3. CASE Subscribe(c)
  <2>1. rank[0] = 0 /\ missed[c] + Len(seen[c]) = 0
    BY <1>3 DEF Subscribe, Goto, Ranked
  <2> QED  BY <1>1, <1>3, <2>1 DEF Subscribe, Goto
<1>4. CASE StoreBegins(c) \/ StoreEnds(c)
  BY <1>4 DEF StoreBegins, StoreEnds, Goto
<1>5. CASE SubscribeFails(c) \/ ClientCloses(c) \/ ConnectionDies(c) \/ WriteFails(c)
             \/ UnsubBegins(c)
  BY <1>5 DEF SubscribeFails, ClientCloses, ConnectionDies, WriteFails, UnsubBegins, Goto
<1>8. CASE UnsubEnds(c)
  BY <1>8 DEF UnsubEnds, Stopped, Goto
<1>6. CASE WriteEvent(c)
  <2>1. /\ conn[c] = "streaming" /\ held[c] # NoMsg /\ conn' = conn /\ next' = next
        /\ missed' = missed
        /\ held'[c] = NoMsg /\ seen'[c] = Append(seen[c], held[c]) /\ held[c] \in Msgs
    BY <1>6 DEF WriteEvent
  <2>2. Len(seen'[c]) = Len(seen[c]) + 1
    BY <2>1
  <2>3. rank[next[c] - 1] = missed[c] + Len(seen'[c]) /\ next[c] \in 1..(Len(stream) + 1)
    BY <1>1, <2>1, <2>2
  <2> QED  BY <1>1, <2>1, <2>2, <2>3
<1>7. CASE Consume(c) \/ Skip(c)
  <2>1. /\ conn' = conn /\ seen' = seen /\ held[c] = NoMsg
        /\ next[c] \in 1..Len(stream) /\ next'[c] = next[c] + 1
    BY <1>7 DEF Consume, Skip, After
  <2>2. conn[c] \notin {"closed", "subscribing"}
    <3>1. next[c] # 0
      BY <1>1, <2>1
    <3> QED  BY <3>1 DEF ConsumerIsOwned
  <2>3. next'[c] \in 1..(Len(stream) + 1)
          /\ missed'[c] + Len(seen'[c]) <= rank[next'[c] - 1]
    <3>1. /\ next'[c] \in 1..(Len(stream) + 1) /\ next'[c] - 1 = next[c] /\ next[c] # 0
          /\ missed[c] + Len(seen[c]) <= rank[next[c] - 1]
      <4>1. next[c] # 0 /\ next[c] \in Nat
        BY <1>1, <2>1
      <4>2. missed[c] + Len(seen[c]) <= rank[next[c] - 1]
        BY <4>1
      <4>3. next'[c] \in 1..(Len(stream) + 1) /\ next'[c] - 1 = next[c]
        BY <1>1, <2>1
      <4> QED  BY <4>1, <4>2, <4>3
    <3>2. rank[next[c]] \in Nat /\ rank[next[c] - 1] \in Nat
      <4>1. next[c] \in 0..Len(stream) /\ next[c] - 1 \in 0..Len(stream)
        BY <1>1, <2>1
      <4> QED  BY <1>1, <4>1 DEF Ranked
    <3>3. IF Readable(stream[next[c]])
            THEN rank[next[c]] = rank[next[c] - 1] + 1
            ELSE rank[next[c]] = rank[next[c] - 1]
      BY <2>1 DEF Ranked
    <3>4. missed'[c] = missed[c]
            \/ (Readable(stream[next[c]]) /\ missed'[c] = missed[c] + 1)
      BY <1>7 DEF Consume, Skip
    <3> QED  BY <1>1, <2>1, <3>1, <3>2, <3>3, <3>4
  <2>4. ASSUME conn[c] \in Following
        PROVE  Position(c, rank)'
    <3>1. rank[next[c] - 1] = missed[c] + Len(seen[c])
      BY <2>1, <2>4
    <3>2. stream[next[c]] \in Msgs /\ NoMsg \notin Msgs
      BY <2>1, ElementOfSeq, GatewayAssumption DEF Msgs
    <3>3. next'[c] \in 1..(Len(stream) + 1) /\ next'[c] - 1 = next[c]
      BY <1>1, <2>1
    <3>4. Readable(stream[next[c]]) =>
            /\ rank[next[c]] = missed[c] + Len(seen[c]) + 1
            /\ log[rank[next[c]]] = stream[next[c]]
      BY <2>1, <3>1 DEF Ranked
    <3>5. ~Readable(stream[next[c]]) => rank[next[c]] = missed[c] + Len(seen[c])
      BY <2>1, <3>1 DEF Ranked
    <3>6. CASE Consume(c) /\ Readable(stream[next[c]])
      <4>1. held'[c] = stream[next[c]] /\ held'[c] # NoMsg /\ missed' = missed
        BY <3>2, <3>6 DEF Consume
      <4> QED  BY <2>1, <2>2, <2>3, <3>3, <3>4, <3>6, <4>1
    <3>7. CASE Consume(c) /\ ~Readable(stream[next[c]])
      <4>1. held'[c] = NoMsg /\ missed' = missed
        BY <3>7 DEF Consume
      <4> QED  BY <2>1, <2>2, <2>3, <3>3, <3>5, <3>7, <4>1
    <3>8. CASE Skip(c)
      <4>1. /\ held'[c] = NoMsg
            /\ missed'[c] = IF Readable(stream[next[c]]) THEN missed[c] + 1 ELSE missed[c]
        BY <2>1, <3>8 DEF Skip
      <4> QED  BY <1>1, <2>1, <2>2, <2>3, <3>3, <3>4, <3>5, <4>1
    <3> QED  BY <1>7, <3>6, <3>7, <3>8
  <2>5. CASE conn[c] \in Following
    BY <2>4, <2>5
  <2>6. CASE conn[c] \notin Following
    BY <2>1, <2>2, <2>3, <2>6
  <2> QED  BY <2>5, <2>6
<1> QED  BY <1>2, <1>3, <1>4, <1>5, <1>6, <1>7, <1>8 DEF Handler, Client

\* A step of a connection changes the variables of no other.
LEMMA OneConn ==
  ASSUME TypeOK, NEW c \in Conns, NEW d \in Conns \ {c},
         Client(c) \/ Handler(c) \/ Consume(c) \/ Skip(c)
  PROVE  /\ conn'[d] = conn[d] /\ next'[d] = next[d] /\ missed'[d] = missed[d]
         /\ held'[d] = held[d] /\ seen'[d] = seen[d]
<1> USE DEF TypeOK, Goto, position
<1>1. CASE Client(c)
  BY <1>1 DEF Client, Connect, ClientCloses, Stalls, ReadsAgain, ConnectionDies
<1>2. CASE Subscribe(c) \/ SubscribeFails(c) \/ StoreBegins(c) \/ StoreEnds(c)
  BY <1>2 DEF Subscribe, SubscribeFails, StoreBegins, StoreEnds
<1>3. CASE UnsubBegins(c) \/ UnsubEnds(c)
  BY <1>3 DEF UnsubBegins, UnsubEnds
<1>4. CASE WriteEvent(c) \/ WriteFails(c) \/ Consume(c) \/ Skip(c)
  BY <1>4 DEF WriteEvent, WriteFails, Consume, Skip
<1> QED  BY <1>1, <1>2, <1>3, <1>4 DEF Handler

\* Every step keeps all positions.
LEMMA PositionsStep ==
  TypeOK /\ ConsumerIsOwned /\ HasPositions /\ [Next]_vars => HasPositions'
<1> SUFFICES ASSUME TypeOK, ConsumerIsOwned, [Next]_vars,
                    NEW rank \in [0..Len(stream) -> 0..Len(log)], Positions(rank)
             PROVE  HasPositions'
  BY DEF HasPositions
<1>1. CASE UNCHANGED events /\ \E m \in Msgs : Stored(m)
  BY <1>1, StoredKeepsPositions
<1>2. CASE UNCHANGED store
  <2>1. Ranked(rank)'
    BY <1>2 DEF Positions, Ranked, Readable, store
  <2>2. ASSUME NEW c \in Conns, Client(c) \/ Handler(c) \/ Consume(c) \/ Skip(c),
               NEW d \in Conns
        PROVE  Position(d, rank)'
    <3>1. CASE d = c
      BY <1>2, <2>2, <3>1, ConnKeepsPosition DEF Positions
    <3>2. CASE d # c
      BY <1>2, <2>2, <3>2, OneConn, OthersKeepPosition DEF Positions
    <3> QED  BY <3>1, <3>2
  <2>3. ASSUME MapRace, NEW d \in Conns
        PROVE  Position(d, rank)'
    BY <2>3 DEF MapRace, Position, Following
  <2>4. ASSUME UNCHANGED events, NEW d \in Conns
        PROVE  Position(d, rank)'
    BY <1>2, <2>4, OthersKeepPosition DEF events, position, Positions
  <2>5. \/ \E c \in Conns : Client(c) \/ Handler(c) \/ Consume(c) \/ Skip(c)
        \/ MapRace
        \/ UNCHANGED events
    BY DEF Next, Request, Bind, BindFails, Publish, PublishFails, OtherPublishes, Outage, vars
  <2>6. \A d \in Conns : Position(d, rank)'
    BY <2>2, <2>3, <2>4, <2>5
  <2>7. rank \in [0..Len(stream') -> 0..Len(log')]
    BY <2>1 DEF Ranked
  <2> QED  BY <2>1, <2>6, <2>7 DEF HasPositions, Positions
<1> QED  BY <1>1, <1>2, StoreStep

-----------------------------------------------------------------------------
(* What is written is what comes next.                                     *)

\* The event a handler writes is the one its client is to see next.
LEMMA WriteIsNext ==
  ASSUME TypeOK, HasPositions, NEW c \in Conns, WriteEvent(c)
  PROVE  /\ Len(seen[c]) \in Nat /\ Len(log) \in Nat /\ missed[c] \in Nat
         /\ missed[c] + Len(seen[c]) + 1 <= Len(log)
         /\ held[c] = log[missed[c] + Len(seen[c]) + 1]
         /\ seen' = [seen EXCEPT ![c] = Append(@, held[c])] /\ log' = log /\ missed' = missed
<1>1. PICK rank \in [0..Len(stream) -> 0..Len(log)] : Positions(rank)
  BY DEF HasPositions
<1>2. /\ conn[c] \in Following /\ held[c] # NoMsg /\ log' = log /\ missed' = missed
      /\ seen' = [seen EXCEPT ![c] = Append(@, held[c])]
  BY DEF WriteEvent, Following, orders, store, position
<1>3. /\ next[c] \in 1..(Len(stream) + 1) /\ rank[next[c] - 1] = missed[c] + Len(seen[c]) + 1
      /\ held[c] = log[missed[c] + Len(seen[c]) + 1]
  BY <1>1, <1>2 DEF Positions, Position
<1>4. Len(stream) \in Nat /\ Len(seen[c]) \in Nat /\ Len(log) \in Nat /\ missed[c] \in Nat
  BY DEF TypeOK
<1>5. rank[next[c] - 1] \in 0..Len(log)
  <2>1. next[c] - 1 \in 0..Len(stream)
    BY <1>3, <1>4
  <2> QED  BY <1>1, <2>1
<1> QED  BY <1>2, <1>3, <1>4, <1>5

\* What a step changes of what the clients are shown: one event, or nothing.
LEMMA SeenStep ==
  [Next]_vars => UNCHANGED seen \/ \E c \in Conns : WriteEvent(c)
<1> SUFFICES ASSUME [Next]_vars PROVE UNCHANGED seen \/ \E c \in Conns : WriteEvent(c)
  OBVIOUS
<1>1. CASE \E o \in Orders : Request(o)
  BY <1>1 DEF Request, Bind, BindFails, Publish, PublishFails, events
<1>2. CASE \E u \in Updates : OtherPublishes(u)
  BY <1>2 DEF OtherPublishes, events
<1>3. CASE \E c \in Conns : Client(c) \/ Handler(c) \/ Consume(c) \/ Skip(c)
  BY <1>3 DEF Client, Connect, ClientCloses, Stalls, ReadsAgain, ConnectionDies, Handler,
              Consume, Skip, Subscribe, SubscribeFails, StoreBegins, StoreEnds, WriteFails,
              UnsubBegins, UnsubEnds
<1>4. CASE MapRace \/ Outage \/ UNCHANGED vars
  BY <1>4 DEF MapRace, Outage, vars, events
<1> QED  BY <1>1, <1>2, <1>3, <1>4 DEF Next

\* The log grows at its end, and what is written is the next message of it.
LEMMA PrefixStep ==
  TypeOK /\ HasPositions /\ NothingMissed /\ ~outage /\ SeenIsPrefix /\ [Next]_vars
    => SeenIsPrefix'
<1> SUFFICES ASSUME TypeOK, HasPositions, NothingMissed, ~outage, SeenIsPrefix, [Next]_vars
             PROVE  SeenIsPrefix'
  OBVIOUS
<1> USE DEF SeenIsPrefix
<1>1. \A c \in Conns : Len(seen[c]) \in Nat /\ seen[c] \in Seq(Msgs)
  BY DEF TypeOK
<1>2. Len(log) <= Len(log') /\ Len(log') \in Nat /\ Len(log) \in Nat
        /\ \A i \in 1..Len(log) : log'[i] = log[i]
  <2>1. CASE UNCHANGED store
    BY <2>1 DEF store, TypeOK
  <2>2. CASE \E m \in Msgs : Stored(m)
    BY <2>2, StoredLemma DEF TypeOK
  <2> QED  BY <2>1, <2>2, StoreStep
<1>3. CASE UNCHANGED seen
  <2> SUFFICES ASSUME NEW c \in Conns
               PROVE  /\ Len(seen[c]) <= Len(log')
                      /\ \A i \in 1..Len(seen[c]) : seen[c][i] = log'[i]
    BY <1>3
  <2>1. Len(seen[c]) <= Len(log) /\ Len(seen[c]) \in Nat
    BY <1>1
  <2>2. \A i \in 1..Len(seen[c]) : i \in 1..Len(log)
    BY <1>2, <2>1
  <2> QED  BY <1>2, <2>1, <2>2
<1>4. ASSUME NEW c \in Conns, WriteEvent(c)
      PROVE  SeenIsPrefix'
  <2>1. /\ log' = log /\ seen' = [seen EXCEPT ![c] = Append(@, held[c])]
        /\ Len(seen[c]) + 1 <= Len(log) /\ held[c] = log[Len(seen[c]) + 1]
    <3>1. missed[c] = 0
      BY DEF NothingMissed
    <3>2. missed[c] + Len(seen[c]) + 1 = Len(seen[c]) + 1
      BY <1>1, <3>1
    <3> QED  BY <1>4, <3>2, WriteIsNext
  <2>2. seen'[c] = Append(seen[c], held[c]) /\ \A d \in Conns \ {c} : seen'[d] = seen[d]
    BY <2>1 DEF TypeOK
  <2>3. /\ Len(seen'[c]) = Len(seen[c]) + 1 /\ seen'[c][Len(seen[c]) + 1] = held[c]
        /\ \A i \in 1..Len(seen[c]) : seen'[c][i] = seen[c][i]
    BY <1>1, <2>2
  <2>4. \A i \in 1..Len(seen'[c]) : seen'[c][i] = log[i]
    <3>1. \A i \in 1..Len(seen'[c]) : i = Len(seen[c]) + 1 \/ i \in 1..Len(seen[c])
      BY <1>1, <2>3
    <3> QED  BY <2>1, <2>3, <3>1
  <2> QED  BY <2>1, <2>2, <2>3, <2>4
<1> QED  BY <1>3, <1>4, SeenStep

\* What a step does to what has been missed: nothing, unless there has been an outage.
LEMMA MissedStep ==
  [Next]_vars => (outage => outage') /\ (UNCHANGED missed \/ \E c \in Conns : Skip(c))
<1> SUFFICES ASSUME [Next]_vars
             PROVE  (outage => outage') /\ (UNCHANGED missed \/ \E c \in Conns : Skip(c))
  OBVIOUS
<1> USE DEF process, events, position
<1>1. CASE \E o \in Orders : Request(o)
  BY <1>1 DEF Request, Bind, BindFails, Publish, PublishFails
<1>2. CASE \E u \in Updates : OtherPublishes(u)
  BY <1>2 DEF OtherPublishes
<1>3. CASE \E c \in Conns : Client(c) \/ Handler(c) \/ Consume(c) \/ Skip(c)
  BY <1>3 DEF Client, Connect, ClientCloses, Stalls, ReadsAgain, ConnectionDies, Handler,
              Consume, Skip, Subscribe, SubscribeFails, StoreBegins, StoreEnds, WriteEvent,
              WriteFails, UnsubBegins, UnsubEnds
<1>4. CASE MapRace \/ Outage \/ UNCHANGED vars
  BY <1>4 DEF MapRace, Outage, vars
<1> QED  BY <1>1, <1>2, <1>3, <1>4 DEF Next

-----------------------------------------------------------------------------
(* The theorems.                                                           *)

\* The gateway starts with an empty stream and no client.
LEMMA InitIInv == Init => IInv
<1> SUFFICES ASSUME Init PROVE IInv
  OBVIOUS
<1>1. TypeOK
  BY InitTypeOK
<1>2. ConsumerIsOwned
  BY DEF Init, ConsumerIsOwned
<1>3. HasPositions
  <2> PICK rank : rank = [i \in 0..0 |-> 0]
    OBVIOUS
  <2>1. Len(stream) = 0 /\ Len(log) = 0
    BY DEF Init
  <2>2. rank \in [0..0 -> 0..0] /\ rank[0] = 0 /\ 1..0 = {}
    OBVIOUS
  <2>3. Ranked(rank)
    BY <2>1, <2>2 DEF Ranked
  <2>4. \A c \in Conns : Position(c, rank)
    BY DEF Init, Position, Following
  <2> QED  BY <2>1, <2>2, <2>3, <2>4 DEF HasPositions, Positions
<1>4. SeenIsPrefix /\ NothingMissed
  BY DEF Init, SeenIsPrefix, NothingMissed
<1> QED  BY <1>1, <1>2, <1>3, <1>4 DEF IInv

\* The invariant is inductive.
LEMMA StepIInv == IInv /\ [Next]_vars => IInv'
<1> SUFFICES ASSUME IInv, [Next]_vars PROVE IInv'
  OBVIOUS
<1>1. TypeOK' /\ ConsumerIsOwned' /\ HasPositions'
  BY TypeStep, OwnedStep, PositionsStep DEF IInv
<1>2. NothingMissed'
  <2>1. CASE UNCHANGED missed
    BY <2>1, MissedStep DEF IInv, NothingMissed
  <2>2. CASE \E c \in Conns : Skip(c)
    BY <2>2, MissedStep DEF Skip, NothingMissed
  <2> QED  BY <2>1, <2>2, MissedStep
<1>3. outage' \/ SeenIsPrefix'
  BY MissedStep, PrefixStep DEF IInv
<1> QED  BY <1>1, <1>2, <1>3 DEF IInv

\* For any number of clients: the types, and that no consumer escapes its handler.
THEOREM SafetyTheorem == Spec => [](TypeOK /\ ConsumerIsOwned)
<1>1. IInv => TypeOK /\ ConsumerIsOwned
  BY DEF IInv
<1> QED  BY <1>1, InitIInv, StepIInv, PTL DEF Spec

\* The log the feed speaks of is what can be read of the stream, in its order, and until the
\* connection to NATS is interrupted what a client has seen is the beginning of it: no gap,
\* no duplicate and no unreadable message.
THEOREM PrefixTheorem == Spec => [](LogIsReadable /\ (outage \/ SeenIsPrefix))
<1>1. IInv => LogIsReadable /\ (outage \/ SeenIsPrefix)
  BY DEF IInv, HasPositions, Positions, LogIsReadable
<1> QED  BY <1>1, InitIInv, StepIInv, PTL DEF Spec

\* A message that is lost on the way is one that the feed's client misses, or one it would
\* not have been shown.
LEMMA SkipIsMiss ==
  ASSUME TypeOK, HasPositions, NEW c \in Conns, Skip(c)
  PROVE  Feed!Miss(c) \/ UNCHANGED Feed!feed
<1>1. PICK rank \in [0..Len(stream) -> 0..Len(log)] : Positions(rank)
  BY DEF HasPositions
<1>2. /\ outage /\ next[c] \in 1..Len(stream) /\ log' = log /\ seen' = seen
      /\ missed' = [missed EXCEPT ![c] = IF Readable(stream[next[c]]) THEN @ + 1 ELSE @]
  BY DEF Skip, orders, store
<1>3. /\ Len(stream) \in Nat /\ Len(log) \in Nat /\ Len(seen[c]) \in Nat
      /\ missed \in [Conns -> Nat]
  BY DEF TypeOK
<1>4. CASE Readable(stream[next[c]])
  <2>1. missed[c] + Len(seen[c]) <= rank[next[c] - 1]
    BY <1>1, <1>2, <1>3 DEF Positions, Position
  <2>2. rank[next[c]] = rank[next[c] - 1] + 1
    BY <1>1, <1>2, <1>4 DEF Positions, Ranked
  <2>3. rank[next[c]] \in 0..Len(log) /\ rank[next[c] - 1] \in 0..Len(log)
    <3>1. next[c] \in 0..Len(stream) /\ next[c] - 1 \in 0..Len(stream)
      BY <1>2, <1>3
    <3> QED  BY <1>1, <3>1
  <2>4. missed[c] + Len(seen[c]) < Len(log)
    BY <1>3, <2>1, <2>2, <2>3
  <2> QED  BY <1>2, <1>4, <2>4 DEF Feed!Miss
<1>5. CASE ~Readable(stream[next[c]])
  BY <1>2, <1>3, <1>5 DEF Feed!feed
<1> QED  BY <1>4, <1>5

\* A step of the consumers is a step of the feed, or one the feed does not see.
LEMMA StepImplementsFeed == IInv /\ [Next]_vars => [Feed!FeedNext]_(Feed!feed)
<1> SUFFICES ASSUME IInv, [Next]_vars PROVE [Feed!FeedNext]_(Feed!feed)
  OBVIOUS
<1> USE DEF Feed!feed
<1>1. CASE UNCHANGED store /\ UNCHANGED seen /\ UNCHANGED missed
  BY <1>1 DEF store
<1>2. ASSUME NEW m \in Msgs, Stored(m), UNCHANGED events
      PROVE  [Feed!FeedNext]_(Feed!feed)
  <2>1. CASE Readable(m)
    BY <1>2, <2>1 DEF Stored, events, position, Feed!FeedNext, Feed!PublishOrder
  <2>2. CASE ~Readable(m)
    BY <1>2, <2>2 DEF Stored, events, position
  <2> QED  BY <2>1, <2>2
<1>3. ASSUME NEW c \in Conns, WriteEvent(c)
      PROVE  Feed!FeedNext
  <2>1. /\ Len(seen[c]) \in Nat /\ Len(log) \in Nat /\ missed[c] \in Nat
        /\ missed[c] + Len(seen[c]) + 1 <= Len(log)
        /\ held[c] = log[missed[c] + Len(seen[c]) + 1]
        /\ seen' = [seen EXCEPT ![c] = Append(@, held[c])] /\ log' = log /\ missed' = missed
    BY <1>3, WriteIsNext DEF IInv
  <2>2. missed[c] + Len(seen[c]) < Len(log)
    BY <2>1
  <2>3. Feed!Receive(c)
    BY <2>1, <2>2 DEF Feed!Receive
  <2> QED  BY <2>3 DEF Feed!FeedNext
<1>4. ASSUME NEW c \in Conns, Skip(c)
      PROVE  [Feed!FeedNext]_(Feed!feed)
  BY <1>4, SkipIsMiss DEF IInv, Feed!FeedNext
<1>5. UNCHANGED store \/ UNCHANGED events
  BY StoreStep
<1> QED  BY <1>1, <1>2, <1>3, <1>4, <1>5, StoreStep, SeenStep, MissedStep

\* The consumers keep the promise of OrderPubSubber, as the in-memory channels do: a
\* client is sent what can be read of the stream, from its beginning, and misses nothing
\* of it but what an outage takes.
THEOREM RefinementTheorem == Spec => ImplementsFeed
<1>1. Init => Feed!FeedInit
  BY DEF Init, Feed!FeedInit
<1> QED  BY <1>1, StepImplementsFeed, InitIInv, StepIInv, PTL
         DEF Spec, ImplementsFeed, Feed!FeedSpec
=============================================================================
