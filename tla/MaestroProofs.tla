---------------------------- MODULE MaestroProofs ----------------------------
(***************************************************************************)
(* What the runs of Maestro check on a few orders, proved for all sets of  *)
(* replicas and orders, every batch size and every bound on failures: the  *)
(* types, that no order is lost, and that the maestros implement OrderBook.*)
(***************************************************************************)
EXTENDS Maestro, SequenceTheorems, TLAPS

-----------------------------------------------------------------------------
(* The inductive invariant.                                                *)

\* A maestro inside processNewOrder holds an order that it could read.
HoldsReadable ==
  \A m \in Maestros : pc[m] \in Busy => cur[m] \in Orders \ Unreadable

\* Doughs, publications and acks are made in this order, also across replicas.
Ordered ==
  /\ doughs \subseteq Orders \ Unreadable
  /\ delivery \subseteq doughs
  /\ ackWire \subseteq delivery
  /\ \A m \in Maestros :
       /\ pc[m] \in {"publish", "ack"} => cur[m] \in doughs
       /\ pc[m] = "ack" => cur[m] \in delivery

\* Nobody works on a message that was never published.
Known ==
  /\ \A o \in doughs : consumer[o] # "absent"
  /\ \A m \in Maestros : pc[m] \in Busy => consumer[cur[m]] # "absent"
  /\ \A m \in Maestros : \A i \in 1..Len(batch[m]) : consumer[batch[m][i]] # "absent"

IInv == TypeOK /\ HoldsReadable /\ Ordered /\ NoOrderLost /\ Known

\* The initial state satisfies the invariant.
LEMMA InitIInv == Init => IInv
<1> SUFFICES ASSUME Init PROVE IInv
  OBVIOUS
<1>1. BrokerOK
  BY DEF Init, BrokerOK, MsgStates
<1>2. WorkOK
  <2>1. pc \in [Maestros -> Steps] /\ cur \in [Maestros -> Orders \cup {NoOrder}]
    BY DEF Init, Steps
  <2>2. batch \in [Maestros -> Seq(Orders)]
    BY DEF Init
  <2>3. want \in [Maestros -> 0..BatchSize] /\ faults \in 0..MaxFaults
    BY MaestroAssumption DEF Init
  <2>4. hasTicketed \in [Maestros -> BOOLEAN]
    BY DEF Init
  <2> QED  BY <2>1, <2>2, <2>3, <2>4 DEF WorkOK
<1>3. HoldsReadable /\ Ordered /\ NoOrderLost /\ Known
  BY DEF Init, HoldsReadable, Ordered, NoOrderLost, Known, Busy
<1> QED  BY <1>1, <1>2, <1>3 DEF IInv, TypeOK

-----------------------------------------------------------------------------
(* Types.                                                                  *)

\* What is left of a batch when its first order is taken.
LEMMA TakeOrderLemma ==
  ASSUME WorkOK, NEW m \in Maestros, TakeOrder(m)
  PROVE  /\ batch' \in [Maestros -> Seq(Orders)]
         /\ Head(batch[m]) \in Orders
         /\ Head(batch[m]) = batch[m][1] /\ 1 \in 1..Len(batch[m])
         /\ \A n \in Maestros : \A i \in 1..Len(batch'[n]) :
              \E j \in 1..Len(batch[n]) : batch'[n][i] = batch[n][j]
<1>1. batch[m] \in Seq(Orders) /\ batch[m] # << >>
  BY DEF WorkOK, TakeOrder
<1>2. Tail(batch[m]) \in Seq(Orders) /\ Head(batch[m]) \in Orders
  BY <1>1
<1>3. Head(batch[m]) = batch[m][1] /\ Len(batch[m]) >= 1 /\ Len(batch[m]) \in Nat
  BY <1>1
<1>4. /\ Len(Tail(batch[m])) = Len(batch[m]) - 1
      /\ \A i \in 1..Len(Tail(batch[m])) : Tail(batch[m])[i] = batch[m][i + 1]
  BY <1>1
<1>5. batch' = [batch EXCEPT ![m] = Tail(batch[m])]
  BY DEF TakeOrder
<1>6. ASSUME NEW n \in Maestros, NEW i \in 1..Len(batch'[n])
      PROVE  \E j \in 1..Len(batch[n]) : batch'[n][i] = batch[n][j]
  <2>1. CASE n = m
    <3>1. i \in 1..Len(Tail(batch[m])) /\ batch'[n] = Tail(batch[m])
      BY <1>5, <1>6, <2>1 DEF WorkOK
    <3>2. i + 1 \in 1..Len(batch[m])
      BY <3>1, <1>3, <1>4
    <3> QED  BY <3>1, <3>2, <1>4, <2>1
  <2>2. CASE n # m
    BY <1>5, <1>6, <2>2 DEF WorkOK
  <2> QED  BY <2>1, <2>2
<1> QED  BY <1>2, <1>3, <1>5, <1>6 DEF WorkOK

\* Every step keeps the types of the messages and of the food.
LEMMA BrokerStep == TypeOK /\ HoldsReadable /\ Ordered /\ [Next]_vars => BrokerOK'
<1> SUFFICES ASSUME TypeOK, HoldsReadable, Ordered, [Next]_vars PROVE BrokerOK'
  OBVIOUS
<1> USE DEF TypeOK, BrokerOK, MsgStates, broker, food
<1>1. ASSUME NEW o \in Orders, Server(o)
      PROVE  BrokerOK'
  BY <1>1 DEF Server, OrderArrives, ExpireAck, ServerAck, AckLost, MoveMsg
<1>2. ASSUME NEW m \in Maestros, NEW o \in Orders, Deliver(m, o)
      PROVE  BrokerOK'
  BY <1>2 DEF Deliver, MoveMsg
<1>3. ASSUME NEW m \in Maestros,
             FetchExpires(m) \/ LunchTick(m) \/ Crash(m) \/ Panics(m) \/ Start(m) \/ Fetch(m)
               \/ SkipOrder(m)
               \/ DropMalformed(m) \/ BeginOrder(m) \/ EndBatch(m) \/ Lunch(m)
               \/ DoughFails(m) \/ AckFails(m) \/ Smoke(m)
      PROVE  BrokerOK'
  BY <1>3 DEF FetchExpires, LunchTick, Crash, Panics, Die, Start, Fetch, SkipOrder,
              DropMalformed, BeginOrder, EndBatch, AfterBatch, Lunch, DoughFails, AckFails,
              Smoke
<1>4. ASSUME NEW m \in Maestros, DoughMade(m) \/ Publish(m) \/ PublishFails(m) \/ Ack(m)
      PROVE  BrokerOK'
  BY <1>4 DEF DoughMade, Publish, PublishFails, Ack, Goto, Return, HoldsReadable, Busy
<1>5. CASE UNCHANGED vars
  BY <1>5 DEF vars
<1> QED  BY <1>1, <1>2, <1>3, <1>4, <1>5 DEF Next, Turn

\* Every step keeps the types of what a maestro holds.
LEMMA WorkStep == TypeOK /\ [Next]_vars => WorkOK'
<1> SUFFICES ASSUME TypeOK, [Next]_vars PROVE WorkOK'
  OBVIOUS
<1> USE MaestroAssumption DEF TypeOK, WorkOK, work, fetch
<1>1. ASSUME NEW o \in Orders, Server(o)
      PROVE  WorkOK'
  BY <1>1 DEF Server, OrderArrives, ExpireAck, ServerAck, AckLost, Fault
<1>2. ASSUME NEW m \in Maestros, NEW o \in Orders, Deliver(m, o)
      PROVE  WorkOK'
  <2>1. batch[m] \in Seq(Orders) /\ Append(batch[m], o) \in Seq(Orders)
    OBVIOUS
  <2>2. batch' \in [Maestros -> Seq(Orders)]
    BY <1>2, <2>1 DEF Deliver
  <2>3. want' \in [Maestros -> 0..BatchSize]
    BY <1>2 DEF Deliver
  <2> QED  BY <1>2, <2>2, <2>3 DEF Deliver
<1>3. ASSUME NEW m \in Maestros, SkipOrder(m) \/ DropMalformed(m) \/ BeginOrder(m)
      PROVE  WorkOK'
  <2>1. batch' \in [Maestros -> Seq(Orders)] /\ Head(batch[m]) \in Orders
    BY <1>3, TakeOrderLemma DEF SkipOrder, DropMalformed, BeginOrder
  <2>2. pc' \in [Maestros -> Steps] /\ cur' \in [Maestros -> Orders \cup {NoOrder}]
    BY <1>3, <2>1 DEF SkipOrder, DropMalformed, BeginOrder, Goto, Steps
  <2>3. want' = want /\ hasTicketed' = hasTicketed /\ faults' \in 0..MaxFaults
    BY <1>3 DEF SkipOrder, DropMalformed, BeginOrder, Fault
  <2> QED  BY <2>1, <2>2, <2>3
<1>4. ASSUME NEW m \in Maestros,
             FetchExpires(m) \/ LunchTick(m) \/ Crash(m) \/ Panics(m)
      PROVE  WorkOK'
  <2>1. hasTicketed' \in [Maestros -> BOOLEAN]
    BY <1>4 DEF FetchExpires, LunchTick, Crash, Panics, Die
  <2>2. CASE FetchExpires(m)
    BY <2>1, <2>2 DEF FetchExpires
  <2>3. CASE LunchTick(m)
    BY <2>1, <2>3 DEF LunchTick
  <2>4. CASE Crash(m) \/ Panics(m)
    <3>1. Die(m) /\ faults' \in 0..MaxFaults
      BY <2>4 DEF Crash, Panics, Fault
    <3>2. pc' \in [Maestros -> Steps] /\ cur' \in [Maestros -> Orders \cup {NoOrder}]
      BY <3>1 DEF Die, Steps
    <3>3. batch' \in [Maestros -> Seq(Orders)]
      BY <3>1 DEF Die
    <3>4. want' \in [Maestros -> 0..BatchSize]
      BY <3>1 DEF Die
    <3> QED  BY <2>1, <3>1, <3>2, <3>3, <3>4
  <2> QED  BY <1>4, <2>2, <2>3, <2>4
<1>5. ASSUME NEW m \in Maestros, Start(m) \/ Fetch(m) \/ EndBatch(m) \/ Lunch(m)
      PROVE  WorkOK'
  <2>1. pc' \in [Maestros -> Steps] /\ cur' = cur /\ batch' = batch /\ faults' = faults
    BY <1>5 DEF Start, Fetch, EndBatch, AfterBatch, Lunch, Goto, Steps
  <2>2. want' \in [Maestros -> 0..BatchSize]
    BY <1>5 DEF Start, Fetch, EndBatch, AfterBatch, Lunch
  <2>3. hasTicketed' \in [Maestros -> BOOLEAN]
    BY <1>5 DEF Start, Fetch, EndBatch, AfterBatch, Lunch
  <2> QED  BY <2>1, <2>2, <2>3
<1>6. ASSUME NEW m \in Maestros,
             DoughMade(m) \/ DoughFails(m) \/ Publish(m) \/ PublishFails(m) \/ Ack(m)
               \/ AckFails(m) \/ Smoke(m)
      PROVE  WorkOK'
  <2>1. pc' \in [Maestros -> Steps] /\ cur' \in [Maestros -> Orders \cup {NoOrder}]
    BY <1>6 DEF DoughMade, DoughFails, Publish, PublishFails, Ack, AckFails, Smoke, Goto,
                Return, Steps
  <2>2. UNCHANGED <<fetch, hasTicketed>> /\ faults' \in 0..MaxFaults
    BY <1>6 DEF DoughMade, DoughFails, Publish, PublishFails, Ack, AckFails, Smoke, Fault
  <2> QED  BY <2>1, <2>2
<1>7. CASE UNCHANGED vars
  BY <1>7 DEF vars
<1> QED  BY <1>1, <1>2, <1>3, <1>4, <1>5, <1>6, <1>7 DEF Next, Turn

-----------------------------------------------------------------------------
(* The order of the work.                                                  *)

\* Every step leaves a readable order in the hands of a busy maestro.
LEMMA HoldsStep == TypeOK /\ HoldsReadable /\ [Next]_vars => HoldsReadable'
<1> SUFFICES ASSUME TypeOK, HoldsReadable, [Next]_vars PROVE HoldsReadable'
  OBVIOUS
<1> USE DEF TypeOK, WorkOK, HoldsReadable, Busy, work
<1>1. ASSUME NEW o \in Orders, Server(o)
      PROVE  HoldsReadable'
  BY <1>1 DEF Server, OrderArrives, ExpireAck, ServerAck, AckLost
<1>2. ASSUME NEW m \in Maestros, NEW o \in Orders, Deliver(m, o)
      PROVE  HoldsReadable'
  BY <1>2 DEF Deliver
<1>3. ASSUME NEW m \in Maestros, BeginOrder(m)
      PROVE  HoldsReadable'
  <2>1. Head(batch[m]) \in Orders \ Unreadable
    BY <1>3, TakeOrderLemma DEF BeginOrder, Unmarshals, HasHeaders, Unreadable
  <2> QED  BY <1>3, <2>1 DEF BeginOrder, Goto
<1>4. ASSUME NEW m \in Maestros,
             FetchExpires(m) \/ LunchTick(m) \/ Crash(m) \/ Panics(m) \/ Start(m) \/ Fetch(m)
               \/ SkipOrder(m)
               \/ DropMalformed(m) \/ EndBatch(m) \/ Lunch(m)
      PROVE  HoldsReadable'
  BY <1>4 DEF FetchExpires, LunchTick, Crash, Panics, Die, Start, Fetch, SkipOrder,
              DropMalformed, EndBatch, AfterBatch, Lunch, Goto
<1>5. ASSUME NEW m \in Maestros,
             DoughMade(m) \/ DoughFails(m) \/ Publish(m) \/ PublishFails(m) \/ Ack(m)
               \/ AckFails(m) \/ Smoke(m)
      PROVE  HoldsReadable'
  BY <1>5 DEF DoughMade, DoughFails, Publish, PublishFails, Ack, AckFails, Smoke, Goto, Return
<1>6. CASE UNCHANGED vars
  BY <1>6 DEF vars
<1> QED  BY <1>1, <1>2, <1>3, <1>4, <1>5, <1>6 DEF Next, Turn

\* Every step keeps the order of doughs, publications and acks.
LEMMA OrderedStep == TypeOK /\ HoldsReadable /\ Ordered /\ [Next]_vars => Ordered'
<1> SUFFICES ASSUME TypeOK, HoldsReadable, Ordered, [Next]_vars PROVE Ordered'
  OBVIOUS
<1> USE DEF TypeOK, WorkOK, Ordered, work, food, broker
<1>1. ASSUME NEW o \in Orders, Server(o)
      PROVE  Ordered'
  BY <1>1 DEF Server, OrderArrives, ExpireAck, ServerAck, AckLost
<1>2. ASSUME NEW m \in Maestros, NEW o \in Orders, Deliver(m, o)
      PROVE  Ordered'
  BY <1>2 DEF Deliver
<1>3. ASSUME NEW m \in Maestros,
             FetchExpires(m) \/ LunchTick(m) \/ Crash(m) \/ Panics(m) \/ Start(m) \/ Fetch(m)
               \/ SkipOrder(m)
               \/ DropMalformed(m) \/ BeginOrder(m) \/ EndBatch(m) \/ Lunch(m)
      PROVE  Ordered'
  BY <1>3 DEF FetchExpires, LunchTick, Crash, Panics, Die, Start, Fetch, SkipOrder,
              DropMalformed, BeginOrder, EndBatch, AfterBatch, Lunch, Goto
<1>4. ASSUME NEW m \in Maestros, DoughMade(m)
      PROVE  Ordered'
  BY <1>4 DEF DoughMade, Goto, HoldsReadable, Busy
<1>5. ASSUME NEW m \in Maestros, Publish(m) \/ PublishFails(m)
      PROVE  Ordered'
  BY <1>5 DEF Publish, PublishFails, Goto, Return
<1>6. ASSUME NEW m \in Maestros, Ack(m)
      PROVE  Ordered'
  BY <1>6 DEF Ack, Goto
<1>7. ASSUME NEW m \in Maestros, DoughFails(m) \/ AckFails(m) \/ Smoke(m)
      PROVE  Ordered'
  BY <1>7 DEF DoughFails, AckFails, Smoke, Return, Goto
<1>8. CASE UNCHANGED vars
  BY <1>8 DEF vars
<1> QED  BY <1>1, <1>2, <1>3, <1>4, <1>5, <1>6, <1>7, <1>8 DEF Next, Turn

\* What the turns of the maestros leave alone: only the server moves a message,
\* and no step takes an order out of the delivery queue.
LEMMA Frame ==
  ASSUME TypeOK, [Next]_vars
  PROVE  /\ delivery \subseteq delivery'
         /\ \/ consumer' = consumer
            \/ \E o \in Orders : Server(o) \/ \E m \in Maestros : Deliver(m, o)
<1> USE DEF broker, food
<1>1. ASSUME NEW o \in Orders, Server(o) \/ \E m \in Maestros : Deliver(m, o)
      PROVE  delivery' = delivery
  BY <1>1 DEF Server, OrderArrives, ExpireAck, ServerAck, AckLost, Deliver
<1>2. ASSUME NEW m \in Maestros,
             FetchExpires(m) \/ LunchTick(m) \/ Crash(m) \/ Panics(m) \/ Start(m) \/ Fetch(m)
               \/ SkipOrder(m)
               \/ DropMalformed(m) \/ BeginOrder(m) \/ EndBatch(m) \/ Lunch(m)
      PROVE  delivery' = delivery /\ consumer' = consumer
  BY <1>2 DEF FetchExpires, LunchTick, Crash, Panics, Die, Start, Fetch, SkipOrder,
              DropMalformed, BeginOrder, EndBatch, AfterBatch, Lunch
<1>3. ASSUME NEW m \in Maestros,
             DoughMade(m) \/ DoughFails(m) \/ Publish(m) \/ PublishFails(m) \/ Ack(m)
               \/ AckFails(m) \/ Smoke(m)
      PROVE  delivery \subseteq delivery' /\ consumer' = consumer
  BY <1>3 DEF DoughMade, DoughFails, Publish, PublishFails, Ack, AckFails, Smoke
<1>4. CASE UNCHANGED vars
  BY <1>4 DEF vars
<1> QED  BY <1>1, <1>2, <1>3, <1>4 DEF Next, Turn

\* Every step that settles a message settles one that was published.
LEMMA LostStep == TypeOK /\ Ordered /\ NoOrderLost /\ [Next]_vars => NoOrderLost'
<1> SUFFICES ASSUME TypeOK, Ordered, NoOrderLost, [Next]_vars PROVE NoOrderLost'
  OBVIOUS
<1>1. CASE consumer' = consumer
  BY <1>1, Frame DEF NoOrderLost
<1>2. ASSUME NEW o \in Orders, Server(o) \/ \E m \in Maestros : Deliver(m, o)
      PROVE  NoOrderLost'
  BY <1>2, Frame
  DEF TypeOK, BrokerOK, Server, OrderArrives, ExpireAck, ServerAck, AckLost, Deliver, MoveMsg,
      NoOrderLost, Ordered
<1> QED  BY <1>1, <1>2, Frame

\* Every step leaves only published messages in the hands of the maestros.
LEMMA KnownStep == TypeOK /\ HoldsReadable /\ Ordered /\ Known /\ [Next]_vars => Known'
<1> SUFFICES ASSUME TypeOK, HoldsReadable, Ordered, Known, [Next]_vars PROVE Known'
  OBVIOUS
<1> USE DEF TypeOK, BrokerOK, WorkOK, work, food, broker, fetch
<1>1. \A m \in Maestros : \A i \in 1..Len(batch[m]) : batch[m][i] \in Orders
  OBVIOUS
<1>2. ASSUME NEW o \in Orders, Server(o)
      PROVE  Known'
  <2>1. UNCHANGED <<doughs, work, fetch>>
    BY <1>2 DEF Server, OrderArrives, ExpireAck, ServerAck, AckLost
  <2>2. \A p \in Orders : consumer[p] # "absent" => consumer'[p] # "absent"
    BY <1>2 DEF Server, OrderArrives, ExpireAck, ServerAck, AckLost, MoveMsg
  <2> QED  BY <1>1, <2>1, <2>2 DEF Known, HoldsReadable
<1>3. ASSUME NEW m \in Maestros, NEW o \in Orders, Deliver(m, o)
      PROVE  Known'
  <2>1. \A p \in Orders : consumer[p] # "absent" => consumer'[p] # "absent"
    BY <1>3 DEF Deliver, MoveMsg
  <2>2. consumer'[o] # "absent"
    BY <1>3 DEF Deliver, MoveMsg
  <2>3. UNCHANGED <<doughs, work>>
    BY <1>3 DEF Deliver
  <2>4. ASSUME NEW n \in Maestros, NEW i \in 1..Len(batch'[n])
        PROVE  consumer'[batch'[n][i]] # "absent"
    <3>1. CASE n = m
      <4>1. batch'[n] = Append(batch[n], o) /\ batch[n] \in Seq(Orders)
        BY <1>3, <3>1 DEF Deliver
      <4>2. batch'[n][i] = o \/ (i \in 1..Len(batch[n]) /\ batch'[n][i] = batch[n][i])
        BY <4>1, <2>4
      <4>3. CASE batch'[n][i] = o
        BY <4>3, <2>2
      <4>4. CASE i \in 1..Len(batch[n]) /\ batch'[n][i] = batch[n][i]
        BY <4>4, <2>1, <1>1 DEF Known
      <4> QED  BY <4>2, <4>3, <4>4
    <3>2. CASE n # m
      BY <1>3, <3>2, <2>4, <2>1, <1>1 DEF Deliver, Known
    <3> QED  BY <3>1, <3>2
  <2> QED  BY <2>1, <2>3, <2>4 DEF Known, HoldsReadable
<1>4. ASSUME NEW m \in Maestros, SkipOrder(m) \/ DropMalformed(m) \/ BeginOrder(m)
      PROVE  Known'
  <2>1. TakeOrder(m) /\ UNCHANGED <<consumer, doughs>>
    BY <1>4 DEF SkipOrder, DropMalformed, BeginOrder
  <2>2. ASSUME NEW n \in Maestros, NEW i \in 1..Len(batch'[n])
        PROVE  consumer'[batch'[n][i]] # "absent"
    <3>1. PICK j \in 1..Len(batch[n]) : batch'[n][i] = batch[n][j]
      BY <2>1, TakeOrderLemma
    <3> QED  BY <2>1, <3>1 DEF Known
  <2>3. Head(batch[m]) = batch[m][1] /\ 1 \in 1..Len(batch[m])
    BY <2>1, TakeOrderLemma
  <2>4. consumer[Head(batch[m])] # "absent"
    BY <2>3 DEF Known
  <2>5. \A n \in Maestros : pc'[n] \in Busy => consumer'[cur'[n]] # "absent"
    BY <1>4, <2>1, <2>4 DEF SkipOrder, DropMalformed, BeginOrder, Goto, Known
  <2> QED  BY <2>1, <2>2, <2>5 DEF Known
<1>5. ASSUME NEW m \in Maestros, FetchExpires(m) \/ LunchTick(m) \/ Start(m) \/ Fetch(m)
                                  \/ EndBatch(m) \/ Lunch(m)
      PROVE  Known'
  BY <1>5 DEF FetchExpires, LunchTick, Start, Fetch, EndBatch, AfterBatch, Lunch, Goto, Known,
              Busy
<1>6. ASSUME NEW m \in Maestros, Crash(m) \/ Panics(m)
      PROVE  Known'
  <2>1. Die(m)
    BY <1>6 DEF Crash, Panics
  <2>2. \A n \in Maestros : batch'[n] = batch[n] \/ Len(batch'[n]) = 0
    BY <2>1 DEF Die
  <2> QED  BY <2>1, <2>2 DEF Die, Known, Busy
<1>7. ASSUME NEW m \in Maestros,
             DoughMade(m) \/ DoughFails(m) \/ Publish(m) \/ PublishFails(m) \/ Ack(m)
               \/ AckFails(m) \/ Smoke(m)
      PROVE  Known'
  BY <1>7 DEF DoughMade, DoughFails, Publish, PublishFails, Ack, AckFails, Smoke, Goto, Return,
              Known, Busy
<1>8. CASE UNCHANGED vars
  BY <1>8 DEF vars, Known
<1> QED  BY <1>2, <1>3, <1>4, <1>5, <1>6, <1>7, <1>8 DEF Next, Turn

\* The invariant is inductive.
LEMMA StepIInv == IInv /\ [Next]_vars => IInv'
  BY BrokerStep, WorkStep, HoldsStep, OrderedStep, LostStep, KnownStep DEF IInv, TypeOK

\* No order is lost and none is delivered without a dough, for any number of
\* replicas, orders and failures.
THEOREM SafetyTheorem == Spec => [](TypeOK /\ NoOrderLost /\ DeliveredHasDough)
<1>1. IInv => TypeOK /\ NoOrderLost /\ DeliveredHasDough
  BY DEF IInv, Ordered, DeliveredHasDough
<1> QED  BY <1>1, InitIInv, StepIInv, PTL DEF Spec

\* No order gets into the delivery queue without a dough.
THEOREM DoughTheorem == Spec => []DeliveredHasDough
  BY SafetyTheorem, PTL

-----------------------------------------------------------------------------
(* Refinement.                                                             *)

\* A step that changes the stage of one order by one advances the book.
LEMMA AdvanceLemma ==
  ASSUME NEW o \in Orders, NEW from, NEW to,
         StageOf(o) = from, StageOf(o)' = to,
         \A p \in Orders \ {o} : StageOf(p)' = StageOf(p)
  PROVE  Book!Advance(o, from, to)
  BY DEF Book!Advance, stageOf

\* A step that changes no stage is no step of the book.
LEMMA StutterLemma ==
  ASSUME \A p \in Orders : StageOf(p)' = StageOf(p)
  PROVE  UNCHANGED stageOf
  BY DEF stageOf

\* Every step of the maestros or of JetStream advances one order or none.
LEMMA RefinementStep == IInv /\ [Next]_vars => [Book!BookNext]_stageOf
<1> SUFFICES ASSUME IInv, [Next]_vars PROVE Book!BookNext \/ UNCHANGED stageOf
  OBVIOUS
<1> USE DEF IInv, TypeOK, BrokerOK, Ordered, Known, NoOrderLost, broker, food
<1>1. ASSUME NEW o \in Orders, OrderArrives(o)
      PROVE  Book!BookNext
  <2>1. StageOf(o) = "absent" /\ StageOf(o)' = "placed"
    BY <1>1 DEF OrderArrives, MoveMsg, StageOf
  <2>2. \A p \in Orders \ {o} : StageOf(p)' = StageOf(p)
    BY <1>1 DEF OrderArrives, MoveMsg, StageOf
  <2> QED  BY <2>1, <2>2, AdvanceLemma DEF Book!BookNext, Book!Place
<1>2. ASSUME NEW o \in Orders, ExpireAck(o) \/ AckLost(o) \/ \E m \in Maestros : Deliver(m, o)
      PROVE  UNCHANGED stageOf
  <2>1. \A p \in Orders : StageOf(p)' = StageOf(p)
    BY <1>2 DEF ExpireAck, AckLost, Deliver, MayDeliver, MoveMsg, StageOf
  <2> QED  BY <2>1, StutterLemma
<1>3. ASSUME NEW o \in Orders, ServerAck(o)
      PROVE  Book!BookNext \/ UNCHANGED stageOf
  <2>1. StageOf(o)' = "closed" /\ StageOf(o) \in {"dispatched", "closed"}
    BY <1>3 DEF ServerAck, StageOf
  <2>2. \A p \in Orders \ {o} : StageOf(p)' = StageOf(p)
    BY <1>3 DEF ServerAck, StageOf
  <2>3. CASE StageOf(o) = "dispatched"
    BY <2>1, <2>2, <2>3, AdvanceLemma DEF Book!BookNext, Book!Close
  <2>4. CASE StageOf(o) = "closed"
    BY <2>1, <2>2, <2>4, StutterLemma
  <2> QED  BY <2>1, <2>3, <2>4
<1>4. ASSUME NEW m \in Maestros, DoughMade(m)
      PROVE  Book!BookNext \/ UNCHANGED stageOf
  <2> PICK o \in Orders : o = cur[m]
    BY <1>4 DEF DoughMade, Goto, HoldsReadable, Busy
  <2>1. o \notin Unreadable /\ consumer[o] # "absent"
    BY <1>4 DEF DoughMade, Goto, HoldsReadable, Busy
  <2>2. doughs' = doughs \cup {o} /\ UNCHANGED <<consumer, delivery>>
    BY <1>4 DEF DoughMade
  <2>3. CASE o \in doughs
    <3>1. \A p \in Orders : StageOf(p)' = StageOf(p)
      BY <2>2, <2>3 DEF StageOf
    <3> QED  BY <3>1, StutterLemma
  <2>4. CASE o \notin doughs
    <3>1. StageOf(o) = "placed" /\ StageOf(o)' = "baked"
      BY <2>1, <2>2, <2>4 DEF StageOf
    <3>2. \A p \in Orders \ {o} : StageOf(p)' = StageOf(p)
      BY <2>2 DEF StageOf
    <3>3. Book!Bake(o)
      BY <2>1, <3>1, <3>2, AdvanceLemma DEF Book!Bake
    <3> QED  BY <2>1, <3>3 DEF Book!BookNext
  <2> QED  BY <2>3, <2>4
<1>5. ASSUME NEW m \in Maestros, Publish(m) \/ PublishFails(m)
      PROVE  Book!BookNext \/ UNCHANGED stageOf
  <2> PICK o \in Orders : o = cur[m]
    BY <1>5 DEF Publish, PublishFails, Goto, Return, HoldsReadable, Busy
  <2>1. o \in doughs
    BY <1>5 DEF Publish, PublishFails, Goto, Return, HoldsReadable, Busy
  <2>2. /\ delivery' = delivery \/ delivery' = delivery \cup {o}
        /\ UNCHANGED <<consumer, doughs>>
    BY <1>5 DEF Publish, PublishFails
  <2>3. CASE delivery' = delivery
    <3>1. \A p \in Orders : StageOf(p)' = StageOf(p)
      BY <2>2, <2>3 DEF StageOf
    <3> QED  BY <3>1, StutterLemma
  <2>4. CASE delivery' = delivery \cup {o} /\ o \notin delivery
    <3>1. StageOf(o) = "baked" /\ StageOf(o)' = "dispatched"
      BY <2>1, <2>2, <2>4 DEF StageOf
    <3>2. \A p \in Orders \ {o} : StageOf(p)' = StageOf(p)
      BY <2>2, <2>4 DEF StageOf
    <3>3. Book!Dispatch(o)
      BY <2>1, <3>1, <3>2, AdvanceLemma DEF Book!Dispatch
    <3> QED  BY <2>1, <3>3 DEF Book!BookNext
  <2> QED  BY <2>2, <2>3, <2>4
<1>6. ASSUME NEW m \in Maestros,
             FetchExpires(m) \/ LunchTick(m) \/ Crash(m) \/ Panics(m) \/ Start(m) \/ Fetch(m)
               \/ SkipOrder(m)
               \/ DropMalformed(m) \/ BeginOrder(m) \/ EndBatch(m) \/ Lunch(m)
               \/ DoughFails(m) \/ Ack(m) \/ AckFails(m) \/ Smoke(m)
      PROVE  UNCHANGED stageOf
  <2>1. UNCHANGED <<consumer, food>>
    BY <1>6 DEF FetchExpires, LunchTick, Crash, Panics, Die, Start, Fetch, SkipOrder,
                DropMalformed, BeginOrder, EndBatch, AfterBatch, Lunch, DoughFails, Ack,
                AckFails, Smoke
  <2> QED  BY <2>1 DEF stageOf, StageOf
<1>7. CASE UNCHANGED vars
  BY <1>7 DEF vars, stageOf, StageOf
<1> QED  BY <1>1, <1>2, <1>3, <1>4, <1>5, <1>6, <1>7 DEF Next, Turn, Server

\* The maestros implement the order book: whatever is retried, redelivered or
\* crashes, no order skips a stage, goes back or closes before its dispatch.
THEOREM RefinementTheorem == Spec => ImplementsOrderBook
<1>1. Init => Book!BookInit
  BY DEF Init, Book!BookInit, stageOf, StageOf
<1> QED
  BY <1>1, InitIInv, StepIInv, RefinementStep, PTL DEF Spec, ImplementsOrderBook, Book!BookSpec
=============================================================================
