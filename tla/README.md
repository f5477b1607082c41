# TLA+ specifications of box-box

box-box is a small pizzeria made of services: a gateway takes orders over HTTP
and puts them on a NATS JetStream stream, maestros take them from the stream,
have a baker make the dough over gRPC, and put the orders back on the stream for
delivery. Everybody has human habits (naps, lunches, smokes), and those habits
meet the orders in goroutines, retries and redeliveries. This directory holds
TLA+ models of that behaviour, TLC runs that check them on small instances, and
TLAPS proofs, for instances of any size, of the checked properties that are not
about liveness.

    tlc -config PanettiereHistory.cfg PanettiereHistory   # any run: see the table below
    tlapm PanettiereProofs.tla                            # any module of proofs

## The system

    client --POST--> gateway --orders.waiting_to_cook--> [ORDERS stream]
    client <--SSE--- gateway <--orders.>-----------------      |  ^
                                    durable consumer, acks     v  | orders.waiting_delivery
                                                            maestro --gRPC MakeDough--> panettiere

| Component | State it keeps | Operations | Talks to |
|---|---|---|---|
| panettiere (`panettiere/main.go`) | `isSleeping`, `isWorkingOnDough`, `shouldSleep`, `status` under one `RWMutex`; the health status | `MakeDough`, `Status`, sleep ticker, wakers, health loop, shutdown | called by maestros; health probes |
| maestro, the turn (`maestro/handler.go`) | batch in hand, current order, `hasTicketed` | fetch, process (dough, publish, ack, smoke), lunch | durable JetStream consumer, panettiere, delivery subject |
| maestro, the process (`maestro/main.go`) | health status | health loop, start, shutdown | NATS connection; shares the health status with lunch |
| paddock-gateway over NATS (`handler.go`, `nats_orderpubsubber.go`) | map of consumers `n.subs`, one channel per client | `OrderNewPizza`, `GetLiveOrdersSSE` (subscribe, stream, unsubscribe) | the stream: publisher, and one ephemeral consumer per client |
| paddock-gateway in memory (`GoChannelOrderPubSubber`) | map of channels under a mutex | publish, subscribe, unsubscribe | the same HTTP handlers; `main` does not construct it |
| the gRPC client (`pacchetto/grpc.go`) | attempts of a call, its connection | retry on Unavailable, at most `Retries` attempts, no deadline | between maestro and panettiere |
| `main` of each service, telemetry (`*/main.go`, `pacchetto/telemetry/`) | what is set up, what is registered for cleanup, the exit code | set-up, undoing a failed one, signal, server shutdown, telemetry shutdown | all of the above |
| settings (`pacchetto/settings.go`) | read once | loading and validation | used by all |
| JetStream, NATS | messages, consumers, acks | external | all |

What is hard here:

* **Interleaving.** The baker's handlers, ticker and wakers share four variables
  over many short critical sections, and one flag serves all handlers. The
  maestro's lunch and health loop both write one status. The gateway's handlers
  share a map without a lock; those of the in-memory feed share a mutex that is held
  over sends on unbuffered channels.
* **Failure between two steps.** A maestro may crash, or its order may be taken
  over by another replica, between the dough, the publication and the ack; an
  answer or an ack may be lost after the work was done. A client whose connection
  breaks calls again, and leaves a handler behind that nobody waits for. A set-up
  fails half-way, or a shutdown with requests in progress.
* **Ordering.** Live events run through a callback and a channel while the client
  may go away, or stop reading, at any moment; and nothing sends them again when
  the connection to NATS was down.
* **Liveness.** Naps must end, deferred naps must be taken, a malformed message
  that comes back for ever must not starve the others, nor one that ends the process
  whenever it comes, a call without a deadline must return, shutdowns must complete.

What makes each component correct, in one line each:

* the baker: one nap at a time, no flag or answer that outlives what it describes,
  every tick paid with at most one nap, every call answered;
* the maestros: no order lost, whatever crashes; no delivery without a dough;
  every readable order closed in the end;
* the maestro's process: the published health settles on the truth;
* maestros, client and baker together: the call ends with a dough or an error, and
  what retries leave behind in the baker is bounded;
* the gateway, with either implementation of its feed: each client sees a gapless
  piece of one history, and then all of it, until the connection to NATS is
  interrupted; no consumer outlives its client;
* every process: what was registered is cleaned up once, an exit code of 0 is
  honest, a signal ends it.

## Modules

| Module | Models |
|---|---|
| `Panettiere` | the whole of `panettiere/main.go` |
| `PanettiereHistory` | the same with three history variables, for the properties that speak of the past |
| `PanettiereProofs` | theorems about both |
| `OrderBook` | abstract: what the kitchen promises for an order |
| `Maestro` | any number of replicas of the maestro's turn and the consumer they share; implements `OrderBook` |
| `MaestroProofs` | theorems about `Maestro`, and that it implements `OrderBook` |
| `Kitchen` | composition: `Maestro` and `Panettiere` joined by the retrying client; implements `Maestro` |
| `KitchenProofs` | theorems about `Kitchen` and the baker in it, and that it implements `Maestro` |
| `MaestroHealth` | one maestro's process: the two writers of its health, start, shutdown |
| `MaestroHealthProofs` | theorems about `MaestroHealth` |
| `LiveFeed` | abstract: what the interface `OrderPubSubber` promises to clients |
| `Gateway` | the gateway's handlers and callbacks over the NATS stream; implements `LiveFeed` |
| `GatewayProofs` | theorems about `Gateway`, and that it implements `LiveFeed` |
| `LiveOrders` | the same handlers over the in-memory channels; implements `LiveFeed` |
| `LiveOrdersProofs` | theorems about `LiveOrders`, and that it implements `LiveFeed` |
| `Process` | `main` of the three services and the life of their telemetry |
| `ProcessProofs` | theorems about `Process` |

### Panettiere

`isSleeping`, `isWorkingOnDough`, `shouldSleep` and `status` are the fields of
`panettiereService`; `pc[h]` is where handler `h` is in `MakeDough`, and a handler
stands for the order it works on (a status that is a handler reads "making dough
of order h"). `sleepers` counts the goroutines that will wake the baker up,
`tick` is a tick the ticker's goroutine has not handled yet, `phase` is `main`.

A step is one critical section of `p.mu`. `MakeDough` has four: the check
(`Refuse`, `Admit`), the mark (`StartDough`), the deferred function
(`FinishDough`) and `checkAndSleep` (`CheckAndSleep`). Between them any other
goroutine may run, which is where the interesting behaviour is. The ticker's
three outcomes are `TickSleep`, `TickDefer` and `TickIgnored`; both wakers are
`WakeUp`. `Terminate`, `GracefulStop`, `StopService` and `Exit` are the end of
`main`, deferred `Stop` included. The same server offers the health service and
reflection, whose streams only their clients end: `watched` says that one is open
when the shutdown begins, `Unwatch` that the last is closed, and `GracefulStop`
waits for that without limit, as it does for the handlers. Therefore
`ShutdownCompletes` begins where no stream is open (any more).

Abstracted: durations (a nap, a dough, oversleeping) are pairs of states that any
step may separate; what a dough contains. `time.Ticker` holds at most one tick,
so ticks that come while one waits merge. The health loop's write and its next
sample are one step: only the sample's own time matters, because the value
written was fixed by the step before, and nobody reads in between. Its read of
`isSleeping` without the mutex is a data race on a word-sized flag: it gets the
value before or after a critical section, which the interleaving covers.

`PanettiereHistory` adds variables that constrain no step: `credit`, the ticks that
have paid for no nap yet (counted up to two, because one tick can wait for its
goroutine and one can be deferred, and no third can matter), `steady`, the turns of
the health loop since the last change (up to two, for the same reason), and
`overlap`, whether two calls have ever been worked on at once. The last one and
its present-tense sister `Overlapping` say precisely how far the promises of
the baker's README go when calls overlap: work priority holds until the first
overlap, deferred naps are taken once overlaps end.

### Maestro and OrderBook

`consumer[o]` is the message's state at the durable consumer: absent, new,
outstanding, due (for another delivery) or acked. `ackWire` holds the acks that
were sent and have not arrived, `doughs` and `delivery` what was made and
published. Each maestro has its `pc`, the order it processes, the `batch` it
received and `want`, what its pull request may still bring.

The steps of one order are the calls of `processNewOrder` in their order, each
with its early return: `DoughMade`/`DoughFails`, `Publish`/`PublishFails`,
`Ack`/`AckFails`, `Smoke`. `PublishFails` has two outcomes, since the stream may
have stored a message whose answer is lost. `DropMalformed` is the early return
after `json.Unmarshal`, which leaves the message outstanding. Before it the trace
context is taken out of the headers: a message without any has a nil map there
(`otel.go:255`), and the process ends (`Panics`) with the rest of its batch. No service
here sends such a message, but the stream takes it from anybody; `Headerless` are
those messages, and they come back after every ack wait like the malformed ones. `Crash` is the end
of the process, at any point: also the end by shutdown, because `main` does not
wait for the turn; whatever is not acked stays with JetStream. `Start` is the
start and every restart. `LunchTick` and `Lunch` are the two sides of
`hasTicketed`; the goroutine writes it without synchronisation, so the turn may
see the write late, which is a later `LunchTick`. While the maestro lunches no
goroutine waits for the ticker, and `Reset` drops what has fired: `LunchIsHad` does
not count those ticks, but a tick that has been seen is cleared by a lunch or by the
end of the process only, and one of them comes.

External and modelled from use: `Deliver` (a pull request is given new and due
messages; `MaxAckPending`, which the code leaves to the server's default, keeps new
ones back while too many are unacknowledged), `ExpireAck` (the ack wait runs out at any
time, so `InProgress` changes nothing that can be told apart), `ServerAck`
(settles the message whichever delivery is acked), `AckLost`. A handler of the
stream's own existence is left out: `newMaestroHandlerV1` fails without it and
the process is started again.

`OrderBook` has one variable, the stage of each order: absent, placed, baked,
dispatched, closed. The refinement mapping `StageOf` reads the stage from the
consumer, the delivery queue and the doughs; what it calls malformed is any message
for which no dough is ever asked (`Unreadable`). Redeliveries, second doughs and
second publications are stutters: an order never goes back.

### Kitchen

`Kitchen` extends `Maestro` and takes `Panettiere` by INSTANCE, its handlers being
`Calls`. `call[m]` is the handler that works for maestro `m`, `attempt[m]` how
often the interceptor has tried. `requestDough` becomes `Attempt`, `Unreachable`
(no baker serves), `Refused` (it sleeps: the interceptor gets the same
`codes.Unavailable`), `Answered` and `GiveUp`: only the last two are steps of
`Maestro`, `DoughMade` and `DoughFails`, and everything between is a stutter of it.

The client sets no deadline and `MakeDough` looks at no context. So when the
connection breaks (`LoseConnection`) or the maestro dies (`MaestroCrashes`) the
handler goes on: `Orphan(h)` is one nobody waits for. The baker may be stopped
(`BakerStops`), crash (`BakerCrashes`) and come back without memory
(`BakerRestarts`).

`ImplementsMaestro` is `Maestro`'s `FairSpec`. That the steps of the composition are
steps of `Maestro` lies in the way they are written, and is a lemma of the proofs.
What can fail is the fairness: `Maestro` takes for granted that a call ends and that a
maestro who asks for doughs again and again gets one, and in `Kitchen` this has to come
out of the baker's goroutines, its naps and restarts, and the client's retries.

Outside: a connection that breaks without the client's noticing. Neither
side sets keepalive parameters, so a call on such a half-open connection waits for
the transport's own limits, which this repository does not set. A watch of the
baker's health that keeps it from shutting down is closed in the end (`Unwatch` in
`BakerLives`); until then the baker is unreachable.

Abstracted: the length of the backoff between attempts, and the baker's
health loop, which no client reads.

### MaestroHealth

The turn is reduced to working and lunching, and the connection changes at will.
In this model the loop's `Publish` and `Sample` are two steps, since lunch may write between
them. Two history variables say how far the loop has got with the last change of
the connection (`news`) and whether lunch wrote after the loop last did
(`overwritten`). The model has no parameters, so TLC's check of its few hundred
states is complete; the proofs add why it holds, and what is left of the promise
that the end of lunch breaks.

### Gateway

`stream` is the ORDERS stream, `log` the messages of it that can be read, in their
order (a history variable: no step looks at it), `next[c]` the position of client `c`'s consumer,
`held[c]` the message its callback is sending on the unbuffered channel,
`conn[c]` where its handler is, `subs` the domain of `n.subs`. The assignment to
the map and the deletion take two steps each, so that two handlers can be inside
the map: then `MapRace` may end the process, as the Go runtime does. `Init`
leaves open whether `CreateStream` returned a stream, since its error is dropped.
`PublishFails` replies 200 with or without a stored message, like the code.

Two things may keep a client that is connected from seeing anything, and neither is
assumed away. A client may stop reading: the write has no timeout, so its handler is
`stalled` until the client reads again or the connection dies. And the
connection to NATS may break (`Outage`): the consumer is ephemeral and wants no acks,
nothing here handles its errors or creates it again, so what was sent meanwhile
is never sent again (`Skip`, counted in the history variable `missed`), and perhaps
nothing more comes at all (fairness of `Consume` ends with the first outage).

Everything but the map, the stream and the channel (headers, tracing, JSON) is
abstracted; an update that `json.Unmarshal` rejects is a member of `Unreadable`.

### LiveFeed and LiveOrders

The gateway's handlers know an interface, `OrderPubSubber`, with two
implementations. `LiveFeed` is what both promise: one history of orders, in which a
client joins at some point and from there receives every order once, in sequence,
unless an outage of what carries the orders keeps some from it (`Miss`). It is an
abstract specification and stands for no lines of code.
`Gateway` implements it with `log`, the readable part of the stream, as the history and
`missed` for `joined`: an ephemeral consumer starts at the first message, so without an
outage nothing is missed. `LiveOrders` has no outage.

`LiveOrders` is `GoChannelOrderPubSubber`. `holder` is who holds `g.mu`; `todo[o]`
and `target[o]` are the loop of `PubOrder` over the map, which picks the next entry
in no particular order and then waits for that one. Channels are unbuffered, so
send and receive are one step (`Send`). Its history is the sequence in which
publishers took the mutex. Two flaws of the design are states of the model. `Jammed`:
a client that is still to be sent to, whether or not it is its turn, has left its loop and
waits for the mutex to unsubscribe, for ever. `Stalled`: the publisher is sending to a
handler that is `blocked` in the write to a client that does not read, until that client
reads again or its connection dies.

### Process

`Plan[service]` is the sequence of steps of each `main`, as the code has them; any
step may fail. A failure before telemetry is set up leaves through the exit code
alone, one inside `SetupOTelSDK` (`ProviderFails`) through `handleErr`, a later
one through the deferred `otelShutdown`. `cleanups` is `shutdownFuncs`,
`pipelines` what really runs, `flushed` what has exported its last batch: they
differ where the code does, since `newLoggerProvider` returns the empty provider
(`NewLoggerProvider`), and a runtime collector that does not start leaves the
running metrics reader unregistered (`LeftBehind`). `ProperCleanup` is what the comment
of `SetupOTelSDK` promises of that, and a violation; `OnlyLogsAreLost` bounds the loss.

The gateway's `Shutdown` gets the context that is already done and returns at once
(`CloseGateway`); the gRPC services' `GracefulStop` waits without limit. Requests
are in progress or not; `Streams` are those only the client ends (SSE, a watch of
the health service).

## Runs

Twelve runs; *violation* runs show that the code does not do what a document of
the repository says. Every property of a passing run has a mutant of the model
(named in the modules next to the definition they change) that violates it.

| Run | Instance | Shows |
|---|---|---|
| `PanettiereHistory.cfg` | 3 calls, with fairness | `HTypeOK`, `OneSleeper`, `WorkingFlagSound`, `StatusNamesLiveOrder`, `NapsArePaid`, `HealthCatchesUp`, `PriorityUntilOverlap`; `NapEnds`, `CallAnswered`, `ShutdownCompletes`, `DeferredSleep`, `EveryTickNaps` |
| `Panettiere_work_priority.cfg` | 2 calls | *violation*: falls asleep over a dough |
| `Panettiere_asleep.cfg` | 1 call | *violation*: begins a dough asleep |
| `Maestro.cfg` | 2 replicas, an order, a malformed and a headerless message, batches of 1, limit 3, 1 failure | `NoOrderLost`, `DeliveredHasDough`; `ImplementsOrderBook`, `EveryOrderCloses`, `LunchIsHad` |
| `Kitchen.cfg` | 1 maestro, 1 order, 2 calls, 2 attempts, 1 failure | `BakerStaysSound`, `OrphansBounded`, `ImplementsMaestro`, `WorkPriorityForOne`, `RequestReturns`, `EveryOrderCloses` |
| `MaestroHealth.cfg` | one process | `TypeOK`, `HealthSettles`, `OutageIsShown`, `ComesBack` |
| `MaestroHealth_outage.cfg` | one process | *violation*: SERVING while NATS is down |
| `Gateway.cfg` | 2 clients, 1 order, 2 updates | `ConsumerIsOwned`, `ImplementsFeed`, `LiveUpdates`, `HandlerLeaves` |
| `Gateway_leak.cfg` | 1 client | *violation*: a callback blocked for ever |
| `LiveOrders.cfg` | 2 clients, 3 orders | `SeenIsSegment`, `ImplementsFeed`, `JamIsForEver`, `PublishReturns`, `LiveUpdates` |
| `Process.cfg` | 3 services, 1 call, 1 stream | `CleanedUpOnce`, `ZeroIsClean`, `OnlyLogsAreLost`, `SignalEnds` |
| `Process_logs.cfg` | as above | *violation*: the logs are not exported, without an error |

**Why the bounds are enough.** Two handlers are enough for one to clear the flag
under the other, three let a third come in between; the invariants are proved for
any number. Two replicas are enough for an order to be in two hands; one malformed
and one headerless message come before the order as often as they like, and with a
limit of three they leave one place for it. `EveryOrderCloses` has the limit as its
condition: as many unreadable messages as `MaxAckPending` would keep every new order out,
for ever. Its other condition is a batch of one as long as there are headerless messages:
one of those at the head of a batch takes the orders behind it down with the process, each
time. `MaxFaults = 1` allows one crash, lost ack,
failed `InProgress`, publication or ack anywhere in a behaviour; refusals by the
baker and expiries of the ack wait are not counted and happen any number of times.
In `Kitchen`, `MaxLosses` bounds the failures of both sides together: with one
maestro, two calls and two attempts, one failure is what makes an orphan and its
replacement meet in the baker. The safety results are proved for any of these
bounds. Two clients are enough to meet in the gateway's map; `Updates` has one
readable and one unreadable message, so that the gap an unreadable message might
leave has something behind it. In `LiveOrders` three orders let two publishers
wait for the mutex while the third sends, and two clients let one jam the loop, or stall
it, before the other has been served. One outage stands for any number: after it any
message may be skipped. `Process` runs through all steps of all three
mains, with a request that is answered and one that may last for ever.

**Deadlock** is checked everywhere except in the runs of `Gateway` and
`LiveOrders`, where nothing is left to do when everything was published and read
(and in `LiveOrders` also when the loop is jammed, which `JamIsForEver` is about).
`Panettiere`, `MaestroHealth` and `Process` say so when they are over
(`Terminated`); `Maestro` and `Kitchen` never stop.

**Fairness.** Weak fairness stands for goroutines that the Go scheduler runs and
sleeps that end: the ticker, the handlers, the wakers, the health loops, the
turns, `main`, the consumers' callbacks until the first outage. Calls, signals, crashes,
outages and connection losses have none, nor have clients, who need not
connect, leave, close a stream or read what is written to them (only `Kitchen` has the
watches of a baker that shuts down closed in the end).
Strong fairness appears in `Maestro` twice. `Deliver`: a message that is due again
and again while some replica has a pull request open is not passed over for ever;
JetStream serves messages in stream order and redeliveries first. `DoughMade`: a
maestro that asks the baker again and again is not refused every time. `Kitchen`
does without the second: `KFairness` has weak fairness for the baker's goroutines
and the client, and `NotAlwaysAsleep`, which says only that a maestro whose attempts
go on for ever does not find each of them in a nap (naps and ack waits have nothing
to do with each other). The rest follows there: that the baker wakes up, that an
admitted call gets its answer, that the client comes back. `WF(Turn)` includes
`Start`, and `KFairness` includes `BakerRestarts`: somebody starts a crashed
service again. That is an assumption about operation: nothing in the repository does
it. `Maestro` and `Kitchen` therefore say nothing of a pizzeria whose failures
never stop.

**What the violations mean.** The flag `isWorkingOnDough` is shared by handlers that
no lock keeps apart, so one handler's end hides another's work from the ticker
(`Panettiere_work_priority`); `PriorityUntilOverlap`, `DeferredSleep` and
`EveryTickNaps` say what is left of the promises. `AsleepMakesNoDough` fails with a
single call: the ticker fires between the check and the mark. `DownIsNotServing`:
the end of lunch publishes SERVING without looking at the connection, and the
health loop corrects it a turn later; `HealthSettles` and `OutageIsShown` say that
it always does. `CallbackReleased`: after `Stop` nobody receives from the channel
the callback is sending on. `ProperCleanup`: `newLoggerProvider` registers and shuts
down the empty provider instead of the one it has made (`otel.go:203`), so the last batch of
logs of every process is lost and the exit code is 0.

**Met, and not a run of their own**, because no document promises otherwise or
because one step shows them: the gateway answers 200 when `PubOrder` fails
(`PublishFails`); two handlers in `n.subs` at once may end the process (`MapRace`);
a client of the gateway sees no more after NATS was away (`Skip`, and the exception in
`LiveUpdates`); the in-memory feed jams for ever when a client leaves before the loop has
got to it, and waits as long as one it is sending to does not read (`Jammed`, `Stalled`;
`JamIsForEver` and `PublishReturns` say that nothing ends the one and nothing but the two
stops the loop); a message without headers ends every maestro that takes it (`Panics`); a
gRPC service whose server fails exits with 0 (`GRPCServerFails`); `GracefulStop` waits
for a client that watches the health for as long as it watches (the exceptions in
`ShutdownCompletes` and `SignalEnds`).

## Proofs

All are checked by TLAPS without assumptions beyond the named `ASSUME`s of the
modules (`HandlersAssumption`, `MaestroAssumption`, `KitchenAssumption`,
`GatewayAssumption`, `LiveOrdersAssumption`, `ProcessAssumption`): model values are
distinct, bounds are natural numbers, and in `Kitchen` maestros and calls are
finitely many. Every invariant of a passing run is proved, and so is every other
property of one that is not about liveness (of `ImplementsMaestro`, which is about both,
the part that is not).

| Theorem | States |
|---|---|
| `PanettiereProofs!SafetyTheorem` | `TypeOK`, `OneSleeper`, `WorkingFlagSound`, `StatusNamesLiveOrder`, for any set of concurrent calls |
| `PanettiereProofs!WorkingFlagTheorem`, `StatusTheorem` | the last two by themselves |
| `PanettiereProofs!WorkPriorityOneCall` | if there is one handler, `WorkPriority` |
| `PanettiereProofs!PriorityTheorem` | `PriorityUntilOverlap`, for any number of calls |
| `PanettiereProofs!HistoryTheorem` | `HTypeOK`, `NapsArePaid`, `HealthCatchesUp`, for any number of calls |
| `PanettiereProofs!HealthTheorem`, `TypeTheorem` | `HealthCatchesUp` and `HTypeOK` by themselves |
| `MaestroProofs!SafetyTheorem` | `TypeOK`, `NoOrderLost`, `DeliveredHasDough`, for any replicas, orders, batch size, limit and number of failures |
| `MaestroProofs!DoughTheorem` | `DeliveredHasDough` by itself |
| `MaestroProofs!RefinementTheorem` | `Spec => ImplementsOrderBook` |
| `KitchenProofs!CompositionIsSafe` | `NoOrderLost` and `DeliveredHasDough` next to the real baker, for any maestros, calls, attempts and failures |
| `KitchenProofs!CompositionIsBook` | `KSpec => ImplementsOrderBook` |
| `KitchenProofs!OrphansTheorem` | `OrphansBounded` |
| `KitchenProofs!BakerTheorem` | `BakerStaysSound`: what `PanettiereProofs` says of the baker, next to orphans and through crashes and restarts |
| `KitchenProofs!WorkPriorityTheorem` | `WorkPriorityForOne` |
| `KitchenProofs!KitchenTypes` | `KTypeOK` |
| `MaestroHealthProofs!TypeTheorem`, `SettlesTheorem` | `TypeOK`; `HealthSettles` |
| `MaestroHealthProofs!OutageTheorem` | `DownIsNotServing`, as long as no lunch has written the status after the loop |
| `GatewayProofs!SafetyTheorem` | `TypeOK`, `ConsumerIsOwned`, for any clients, orders and updates |
| `GatewayProofs!PrefixTheorem` | `log` is the readable part of the stream, and until an outage what a client has seen is a prefix of it |
| `GatewayProofs!RefinementTheorem` | `Spec => ImplementsFeed` |
| `LiveOrdersProofs!TypeCorrect` | `TypeOK` |
| `LiveOrdersProofs!SegmentTheorem` | `SeenIsSegment`, for any clients and orders |
| `LiveOrdersProofs!RefinementTheorem` | `Spec => ImplementsFeed` |
| `LiveOrdersProofs!JamTheorem` | `Spec => JamIsForEver` |
| `ProcessProofs!ExitTheorem` | `TypeOK`, `CleanedUpOnce`, `ZeroIsClean`, `OnlyGatewayCuts`, for any requests and streams |
| `ProcessProofs!CleanupTheorem` | `CleanedUpOnce` by itself |
| `ProcessProofs!LogsTheorem` | `OnlyLogsAreLost`: with an exit code of 0 traces and metrics are flushed |

**Baker.** The inductive invariant `IInv` is types, `OneSleeper`,
`WorkingFlagSound` and `StatusLive`, which is `StatusNamesLiveOrder` for the field
`status` instead of for the answer of `Status` (the answer hides a stale status
during a nap, so the property alone is not inductive). Each part has a step lemma;
`OneSleeper` needs that both places that begin a nap test `isSleeping` in the
critical section that sets it. Work priority rests on `FlagCoversWork` (who cooks
has the flag set), which a step keeps as long as no two handlers work
(`FlagCoversStep`); `WorkPriorityOneCall` and `PriorityTheorem` both use it, the
second with `overlap` in place of the number of handlers. `NapsArePaid` needs that
a nap begins idle of others (`NapsBeginIdle`) and that a tick turns into a debt, a
nap or nothing. `HealthCatchesUp` is strengthened by what one turn achieves (the
sample is right).

**Maestro.** `NoOrderLost` is not inductive: an ack that is on its way, or about
to be sent, settles the message later. The invariant adds that an order in
`ackWire`, or held by a maestro at its ack, is in `delivery`; that an order
held at its publication has a dough (`Ordered`), that a maestro inside
`processNewOrder` holds an order it could read (`HoldsReadable`), and that nobody
works on a message that was never published (`Known`). Refinement uses the same
invariant: each action is matched with `Place`, `Bake`, `Dispatch`, `Close` or a
stutter, where the stutters are the work done a second time.

**Kitchen.** The safety of composition needs no invariant: every step of `KNext` is a
step of `Maestro` or leaves its variables alone (`CompositionLemma`, `KSpec => Spec`), so
the theorems of `MaestroProofs` hold of the composition. `Maestro`'s fairness, the rest of
`ImplementsMaestro`, is left to TLC. `OrphansBounded` needs to count: handlers in progress are those some
maestro waits for, at most one each (`Waiting`: two maestros never wait for the
same handler), and orphans, of which only a failure makes one. Cardinalities
are handled by the library's theorems about finite sets.

`BakerStaysSound` needs the baker's invariant again (`BakerInv`, on the instance
`Baker`), and more than `PanettiereProofs` has: a crash ends the handlers and
wakers of the process, a restart begins with the memory of a new one, and in
between (`phase = "exited"`) the fields mean nothing; `ExitedStep` says that only
a restart ends that time. The theorems about `Panettiere` speak of its own
specification, and the prover has no rule to carry the lemmas of their proofs over to an
instance; so the step lemmas of the baker are proved of `Baker!...`, with what the
composition adds: a call is admitted only for a maestro that asks, and an orphan goes on
like any other (`StepOfBaker` splits a step of the kitchen into
those of the baker). `WorkPriorityForOne` then rests on `CookIsFlagged` (without a
failure and with one maestro, who cooks has the flag set) and `OneAtATime`: without a
failure every handler in progress is one some maestro waits for, so that with one
maestro there is one, and nobody else can clear the flag while it cooks.

**Maestro's health.** `LoopKnows` says what the loop's three stages are worth: once
it has sampled after the last change the sample is the connection, and once it has
published, and no lunch has written since, the status is the sample. `HealthSettles`
follows, and so does `DownIsNotServing` without lunches: the two writers are all that is
wrong there.

**Gateway.** `ConsumerIsOwned` is inductive with the types: what a handler stored
in the map is what it finds there when it leaves, so that it never passes its
clean-up with a consumer still running.

`ImplementsFeed` compares positions in two sequences: the consumer counts messages
of the stream, the client has seen only readable ones. What a filter does to a
sequence needs induction, which the provers cannot do; the invariant carries the
correspondence instead. `HasPositions` says that there is a `rank`, a function that
gives for each place in the stream how many readable messages are up to there
(`Ranked`: it grows by one at a readable message, which is in the log at the new
rank, and stays at others), such that each client has seen as many events as there are
readable messages before its consumer's position, less those it has missed and the one
its callback may still hold (`Position`). Without an outage nothing is missed
(`NothingMissed`). A publication extends the rank by one place
(`RankLemma`), every other step keeps it, and `WriteEvent` writes the
next of the log (`WriteIsNext`), which is the step of the feed; a readable message that is
skipped is a `Miss` of it (`SkipIsMiss`).

**LiveOrders.** The invariant relates a client to the end of the history: it is
behind by exactly the order it holds in its hand and the one the publisher has
not sent it yet, if any: the latter is so when it is in `todo` of the holder. That is
what mutual exclusion by `g.mu` gives: only the holder has a `todo`, and its order is the last of `log`. Refinement and the segment property
follow. A jam lasts because the holder cannot return before it has sent to everybody in
its `todo`, and who waits for the mutex to leave receives nothing.

**Process.** The invariant says that no `Shutdown` is called before `deferred` or
inside a failing set-up and nothing stays registered after it (`Cleanups`), that an
error has reached the exit code, and a lost batch has become an error, by the time
`main` exits (`Errors`), and that requests are left over only in the gateway and
only with an error (`Leftovers`). For `OnlyLogsAreLost` it adds `LogsApart`: every pipeline
but that of the logs is registered before the shutdown if it runs, and flushed after it
unless an error was reported.

**Types.** All type invariants are proved for all constants; those of `Maestro`,
`Kitchen`, `Gateway`, `LiveOrders` and `Process` are not repeated in a run, and
`OnlyGatewayCuts` is proved and has no run either.

**Model-checked only.** Liveness, all of it under fairness (the fairness of
`Maestro` in `ImplementsMaestro`, `NapEnds`, `CallAnswered`,
`ShutdownCompletes`, `DeferredSleep`, `EveryTickNaps`, `EveryOrderCloses`, `LunchIsHad`,
`RequestReturns`, `OutageIsShown`, `ComesBack`, `LiveUpdates`, `HandlerLeaves`,
`PublishReturns`, `SignalEnds`): TLAPS does not reason about fairness and `ENABLED`
here.

## Not modelled, and what comes next

Next, in the order planned:

1. A count of deliveries and publications: an order is published at most as often
   as it was delivered to a maestro, so that duplicates are bounded by redeliveries.
2. The steps between the liveness properties that are safety by themselves: who may
   still move when a handler, a turn or a shutdown waits, as invariants with proofs.

Left out, and why:

* Durations. Smoking (`maestro/handler.go:362` shadows the longer duration),
  oversleeping, ack waits and backoffs last as long as they like here, so a
  property about their length would be about the model. Fixed choices of data have
  no steps either: `requestDough` never passes a size on.
* Generated gRPC code and API docs, the load generator and the deployment files: no
  state of their own.
* What happens inside OpenTelemetry between set-up and shutdown (samplers, batches,
  trace contexts, the format of logs), and inside JetStream (storage, replication).
* Which settings are valid: a library decides. `LoadConfig` succeeds or fails.
* Half-open connections between maestro and baker, and a NATS server that loses the
  stream itself.
* `SayHello` and the gateway's `HealthCheck`, which change no state.
