------------------------------- MODULE Maestro -------------------------------
(***************************************************************************)
(* The maestros (maestro/handler.go): replicas of a loop that fetches      *)
(* batches of orders from one durable JetStream consumer, asks the baker   *)
(* for a dough, publishes the order to the delivery queue, acknowledges    *)
(* the message, smokes, and now and then has lunch.                        *)
(*                                                                         *)
(* JetStream is external and modelled as far as the code uses it: explicit *)
(* acknowledgement, an ack-wait timer that makes a message available again,*)
(* no delivery limit, and the server's limit on unacknowledged messages.   *)
(* Durations are not modelled, so the timer may expire at any time, also   *)
(* for a message a maestro still holds.  The baker is here a call that     *)
(* answers or fails; Panettiere has its inside, Kitchen the call.          *)
(***************************************************************************)
EXTENDS Naturals, Sequences, FiniteSets

CONSTANTS
  Maestros,       \* the replicas
  Orders,         \* messages published to orders.waiting_to_cook.*
  Malformed,      \* those that json.Unmarshal rejects
  Headerless,     \* those without NATS headers, which no service of the repository sends
  BatchSize,      \* OrderBatchSize
  MaxAckPending,  \* unacknowledged messages the consumer lets out
  MaxFaults,      \* bound on the failures of a behaviour
  NoOrder         \* a maestro that holds no order

ASSUME MaestroAssumption ==
  /\ Malformed \subseteq Orders /\ Headerless \subseteq Orders
  /\ NoOrder \notin Orders
  /\ BatchSize \in Nat \ {0}
  /\ MaxAckPending \in Nat \ {0}
  /\ MaxFaults \in Nat

VARIABLES
  consumer,    \* what the consumer knows of each message
  ackWire,     \* acks sent (msg.Ack returns before the server has them)
  doughs,      \* orders a maestro has received a dough for
  delivery,    \* orders published to orders.waiting_delivery.*
  pc,          \* where each maestro is in its turn
  cur,         \* the order it is processing
  batch,       \* messages received from the current Fetch, not yet taken
  want,        \* messages the current Fetch may still receive
  hasTicketed, \* a lunch tick has been seen by its goroutine
  faults

broker == <<consumer, ackWire>>
food   == <<doughs, delivery>>
work   == <<pc, cur>>
fetch  == <<batch, want>>
vars   == <<broker, food, work, fetch, hasTicketed, faults>>

MsgStates == {"absent", "new", "outstanding", "due", "acked"}
Steps     == {"off", "ready", "loop", "dough", "publish", "ack", "smoke", "lunch"}
Busy      == {"dough", "publish", "ack", "smoke"}   \* inside processNewOrder

BrokerOK ==
  /\ consumer \in [Orders -> MsgStates]
  /\ ackWire \subseteq Orders /\ doughs \subseteq Orders /\ delivery \subseteq Orders

WorkOK ==
  /\ pc \in [Maestros -> Steps]
  /\ cur \in [Maestros -> Orders \cup {NoOrder}]
  /\ batch \in [Maestros -> Seq(Orders)]
  /\ want \in [Maestros -> 0..BatchSize]
  /\ hasTicketed \in [Maestros -> BOOLEAN]
  /\ faults \in 0..MaxFaults

TypeOK == BrokerOK /\ WorkOK

Init ==
  /\ consumer = [o \in Orders |-> "absent"]
  /\ ackWire = {} /\ doughs = {} /\ delivery = {}
  /\ pc = [m \in Maestros |-> "off"]
  /\ cur = [m \in Maestros |-> NoOrder]
  /\ batch = [m \in Maestros |-> << >>]
  /\ want = [m \in Maestros |-> 0]
  /\ hasTicketed = [m \in Maestros |-> FALSE]
  /\ faults = 0

Fault == faults < MaxFaults /\ faults' = faults + 1

Goto(m, here, there) == pc[m] = here /\ pc' = [pc EXCEPT ![m] = there]

\* processNewOrder returns to the loop over the batch.
Return(m, here) == Goto(m, here, "loop") /\ cur' = [cur EXCEPT ![m] = NoOrder]

-----------------------------------------------------------------------------
(* JetStream (external).                                                   *)

MoveMsg(o, from, to) == consumer[o] = from /\ consumer' = [consumer EXCEPT ![o] = to]

OrderArrives(o) ==
  /\ MoveMsg(o, "absent", "new")
  /\ UNCHANGED <<ackWire, food, work, fetch, hasTicketed, faults>>

AckPending == {o \in Orders : consumer[o] \in {"outstanding", "due"}}

\* The limit keeps new messages back, and none that has been delivered before.
MayDeliver(o) ==
  \/ consumer[o] = "due"
  \/ consumer[o] = "new" /\ Cardinality(AckPending) < MaxAckPending

\* A message for the pull request of m.
Deliver(m, o) ==
  /\ want[m] > 0
  /\ MayDeliver(o) /\ consumer' = [consumer EXCEPT ![o] = "outstanding"]
  /\ batch' = [batch EXCEPT ![m] = Append(@, o)]
  /\ want' = [want EXCEPT ![m] = @ - 1]
  /\ UNCHANGED <<ackWire, food, work, hasTicketed, faults>>

\* The ack wait is over: the message will be delivered again.
ExpireAck(o) ==
  /\ MoveMsg(o, "outstanding", "due")
  /\ UNCHANGED <<ackWire, food, work, fetch, hasTicketed, faults>>

\* An ack settles the message whichever delivery it answers.
ServerAck(o) ==
  /\ o \in ackWire /\ ackWire' = ackWire \ {o}
  /\ consumer' = [consumer EXCEPT ![o] = "acked"]
  /\ UNCHANGED <<food, work, fetch, hasTicketed, faults>>

AckLost(o) ==
  /\ Fault
  /\ o \in ackWire /\ ackWire' = ackWire \ {o}
  /\ UNCHANGED <<consumer, food, work, fetch, hasTicketed>>

-----------------------------------------------------------------------------
(* The turn: startTurn and getNewBatchMessages.  A Fetch that fails leaves *)
(* the maestro where it was and is no step.                                *)

Start(m) ==
  /\ Goto(m, "off", "ready")
  /\ UNCHANGED <<broker, food, cur, fetch, hasTicketed, faults>>

Fetch(m) ==
  /\ Goto(m, "ready", "loop")
  /\ want' = [want EXCEPT ![m] = BatchSize]
  /\ UNCHANGED <<broker, food, cur, batch, hasTicketed, faults>>

\* FetchMaxWait is over, or the connection: the channel of messages closes.
FetchExpires(m) ==
  /\ want[m] > 0 /\ want' = [want EXCEPT ![m] = 0]
  /\ UNCHANGED <<broker, food, work, batch, hasTicketed, faults>>

UnmarshalsAll(o) == TRUE   \* mutant of Unmarshals: the error of json.Unmarshal is ignored
Unmarshals(o) == o \notin Malformed

\* Mutant of DropMalformed: the unreadable order stays at the head of the batch.
RetryMalformed(m) ==
  /\ pc[m] = "loop" /\ batch[m] # << >> /\ Head(batch[m]) \in Malformed
  /\ UNCHANGED vars

TakeOrder(m) == batch[m] # << >> /\ batch' = [batch EXCEPT ![m] = Tail(@)]

\* processNewOrder gets the trace context out of the headers before all else.
HasHeaders(m) == Head(batch[m]) \notin Headerless

\* InProgress fails: the order is left to its ack wait.
SkipOrder(m) ==
  /\ pc[m] = "loop" /\ TakeOrder(m) /\ Fault
  /\ UNCHANGED <<broker, food, work, want, hasTicketed>>

\* processNewOrder returns at once, neither acknowledging nor terminating.
DropMalformed(m) ==
  /\ pc[m] = "loop" /\ TakeOrder(m) /\ HasHeaders(m) /\ ~Unmarshals(Head(batch[m]))
  /\ UNCHANGED <<broker, food, work, want, hasTicketed, faults>>

BeginOrder(m) ==
  /\ TakeOrder(m) /\ HasHeaders(m) /\ Unmarshals(Head(batch[m]))
  /\ Goto(m, "loop", "dough")
  /\ cur' = [cur EXCEPT ![m] = Head(batch[m])]
  /\ UNCHANGED <<broker, food, want, hasTicketed, faults>>

NoLunch(m) == "ready"   \* mutant of AfterBatch
AfterBatch(m) == IF hasTicketed[m] THEN "lunch" ELSE "ready"

EndBatch(m) ==
  /\ batch[m] = << >> /\ want[m] = 0
  /\ Goto(m, "loop", AfterBatch(m))
  /\ UNCHANGED <<broker, food, cur, fetch, hasTicketed, faults>>

\* The goroutine that waits for the lunch ticker; a new one starts after lunch.
LunchTick(m) ==
  /\ pc[m] # "off" /\ ~hasTicketed[m]
  /\ hasTicketed' = [hasTicketed EXCEPT ![m] = TRUE]
  /\ UNCHANGED <<broker, food, work, fetch, faults>>

Lunch(m) ==
  /\ Goto(m, "lunch", "ready")
  /\ hasTicketed' = [hasTicketed EXCEPT ![m] = FALSE]
  /\ UNCHANGED <<broker, food, cur, fetch, faults>>

\* The process ends, and with it what its turn was about.
Die(m) ==
  /\ pc' = [pc EXCEPT ![m] = "off"] /\ cur' = [cur EXCEPT ![m] = NoOrder]
  /\ batch' = [batch EXCEPT ![m] = << >>] /\ want' = [want EXCEPT ![m] = 0]
  /\ hasTicketed' = [hasTicketed EXCEPT ![m] = FALSE]
  /\ UNCHANGED <<broker, food>>

\* A crash, or a shutdown, which does not wait for the turn.
Crash(m) == pc[m] # "off" /\ Fault /\ Die(m)

\* Without headers their map is nil, and an assignment to it ends the process: no
\* failure of its surroundings, and nothing that would not happen again.
Panics(m) ==
  /\ pc[m] = "loop" /\ batch[m] # << >> /\ ~HasHeaders(m)
  /\ Die(m)
  /\ UNCHANGED faults

-----------------------------------------------------------------------------
(* One order: processNewOrder and the calls it makes, in their order.      *)

DoughMade(m) ==
  /\ Goto(m, "dough", "publish")
  /\ doughs' = doughs \cup {cur[m]}
  /\ UNCHANGED <<broker, delivery, cur, fetch, hasTicketed, faults>>

\* Mutant of DoughFails: the error is logged and the order goes on.
DoughFailsIgnored(m) ==
  /\ Goto(m, "dough", "publish")
  /\ UNCHANGED <<broker, food, cur, fetch, hasTicketed, faults>>

\* The baker sleeps or the call fails, after the client's retries: naps recur,
\* so this is no fault and may happen any number of times.
DoughFails(m) ==
  /\ Return(m, "dough")
  /\ UNCHANGED <<broker, food, fetch, hasTicketed, faults>>

Publish(m) ==
  /\ Goto(m, "publish", "ack")
  /\ delivery' = delivery \cup {cur[m]}
  /\ UNCHANGED <<broker, doughs, cur, fetch, hasTicketed, faults>>

\* Mutant of PublishFails: the order is acknowledged all the same.
PublishFailsAck(m) ==
  /\ Goto(m, "publish", "ack") /\ Fault
  /\ UNCHANGED <<broker, food, cur, fetch, hasTicketed>>

\* Also when the stream has stored the order and only its answer is lost.
PublishFails(m) ==
  /\ Return(m, "publish") /\ Fault
  /\ delivery' = delivery \/ delivery' = delivery \cup {cur[m]}
  /\ UNCHANGED <<broker, doughs, fetch, hasTicketed>>

Ack(m) ==
  /\ Goto(m, "ack", "smoke")
  /\ ackWire' = ackWire \cup {cur[m]}
  /\ UNCHANGED <<consumer, food, cur, fetch, hasTicketed, faults>>

AckFails(m) ==
  /\ Return(m, "ack") /\ Fault
  /\ UNCHANGED <<broker, food, fetch, hasTicketed>>

Smoke(m) ==
  /\ Return(m, "smoke")
  /\ UNCHANGED <<broker, food, fetch, hasTicketed, faults>>

-----------------------------------------------------------------------------
Turn(m) ==
  \/ Start(m) \/ Fetch(m) \/ SkipOrder(m) \/ DropMalformed(m) \/ BeginOrder(m)
  \/ Panics(m) \/ EndBatch(m) \/ Lunch(m)
  \/ DoughMade(m) \/ DoughFails(m) \/ Publish(m) \/ PublishFails(m)
  \/ Ack(m) \/ AckFails(m) \/ Smoke(m)

Server(o) == OrderArrives(o) \/ ExpireAck(o) \/ ServerAck(o) \/ AckLost(o)

Next ==
  \/ \E m \in Maestros : Turn(m) \/ FetchExpires(m) \/ LunchTick(m) \/ Crash(m)
  \/ \E m \in Maestros, o \in Orders : Deliver(m, o)
  \/ \E o \in Orders : Server(o)

Spec == Init /\ [][Next]_vars

\* Maestros run (and are started again after a crash), a pull request and an
\* ack wait time out, an ack reaches the server unless it is lost.  A message
\* that is available again and again while some maestro is fetching is not
\* passed over for ever, and a maestro that asks for doughs again and again is
\* not refused each time.  Failures, being bounded, end; clients owe nothing.
Fairness ==
  /\ \A m \in Maestros :
       /\ WF_vars(Turn(m)) /\ WF_vars(FetchExpires(m)) /\ WF_vars(LunchTick(m))
       /\ SF_vars(DoughMade(m))
  /\ \A o \in Orders :
       /\ WF_vars(ExpireAck(o)) /\ WF_vars(ServerAck(o))
       /\ SF_vars(\E m \in Maestros : Deliver(m, o))

FairSpec == Spec /\ Fairness

-----------------------------------------------------------------------------
\* No order is lost: the message of an order is settled for ever only when the
\* order is in the delivery queue, whatever crashed, timed out or was retried
\* between the publication and the ack.
NoOrderLost == \A o \in Orders : consumer[o] = "acked" => o \in delivery

\* No order reaches the delivery queue without a dough, also when another
\* maestro took the order over.
DeliveredHasDough == delivery \subseteq doughs

\* The stage an order has reached, for a client who does not see the retries.
StageOf(o) ==
  IF consumer[o] = "acked" THEN "closed"
  ELSE IF o \in delivery THEN "dispatched"
  ELSE IF o \in doughs THEN "baked"
  ELSE IF consumer[o] # "absent" THEN "placed" ELSE "absent"

stageOf == [o \in Orders |-> StageOf(o)]

\* Messages for which no dough is ever asked.
Unreadable == Malformed \cup Headerless

Book == INSTANCE OrderBook WITH stage <- stageOf, Malformed <- Unreadable

\* The maestros implement the order book: no order skips a stage or goes back.
ImplementsOrderBook == Book!BookSpec

\* Every readable order is closed in the end, with crashes, lost acks, failing calls
\* and unreadable messages around it.  The latter come back for ever, and as many as the
\* consumer's limit would keep every new order out; one without headers takes the orders
\* behind it in its batch down with the process, so that only batches of one stand it.
EveryOrderCloses ==
  Cardinality(Unreadable) < MaxAckPending /\ (Headerless = {} \/ BatchSize = 1)
    => Book!EveryOrderCloses

\* A lunch tick is neither forgotten nor put off for ever: the flag of its goroutine is
\* cleared by a lunch or the end of the process and by nothing else, and one of them
\* comes.  (While the maestro lunches no goroutine waits for the ticker, whose Reset
\* drops what has fired: those ticks are not owed.)
LunchIsHad ==
  /\ [][\A m \in Maestros : hasTicketed[m] /\ ~hasTicketed'[m]
          => pc[m] = "lunch" \/ pc'[m] = "off"]_vars
  /\ \A m \in Maestros : hasTicketed[m] ~> pc[m] \in {"lunch", "off"}
=============================================================================
