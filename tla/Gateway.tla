------------------------------- MODULE Gateway -------------------------------
(***************************************************************************)
(* The paddock gateway: POST /v1/order publishes an order to the ORDERS    *)
(* stream, GET /v1/order/sse streams every message of it to a client       *)
(* (handler.go, nats_orderpubsubber.go).                                   *)
(*                                                                         *)
(* Each connection has two goroutines: its handler, and the callback of an *)
(* ephemeral JetStream consumer that hands messages to the handler over an *)
(* unbuffered channel.  All handlers share the map n.subs, which no lock   *)
(* protects: two handlers inside it at once may end the process.           *)
(*                                                                         *)
(* JetStream is external: a stream is a sequence of messages, a consumer a *)
(* position in it that starts at the first message.  It needs no acks, so  *)
(* what the server has sent is not sent again, and nothing renews it: once *)
(* the connection to NATS has been interrupted, messages may be missed and *)
(* the consumer may be gone, while its client stays connected.             *)
(***************************************************************************)
EXTENDS Naturals, Sequences, SequencesExt

CONSTANTS
  Conns,       \* clients of the event stream
  Orders,      \* requests for a pizza, and the messages they become
  Updates,     \* messages other services publish to the stream
  Unreadable,  \* the updates that json.Unmarshal rejects
  NoMsg        \* a callback that holds no message

ASSUME GatewayAssumption ==
  /\ Orders \cap Updates = {} /\ Unreadable \subseteq Updates
  /\ NoMsg \notin Orders \cup Updates

VARIABLES
  reply,       \* progress of each request and its HTTP status
  stream,      \* the ORDERS stream
  log,         \* the messages of it that a client can be shown (history)
  hasStream,   \* CreateStream returned a stream (its error is not looked at)
  conn,        \* where the handler of each connection is
  next,        \* position of the connection's consumer in the stream, 0: none
  missed,      \* messages a client could be shown and that were lost on the way
  held,        \* message the callback is sending on orderCh
  seen,        \* events written to the client
  subs,        \* domain of n.subs
  up,          \* the process runs
  outage       \* the connection to NATS has been interrupted

store    == <<stream, log>>
orders   == <<reply, store>>
position == <<next, missed>>
events   == <<conn, position, held, seen, subs>>
process  == <<hasStream, up, outage>>
vars     == <<orders, events, process>>

Msgs  == Orders \cup Updates
Steps == {"closed", "subscribing", "storing", "writing", "streaming", "stalled",
          "leaving", "deleting", "done"}

TypeOK ==
  /\ reply \in [Orders -> {"none", "publishing", "200", "400"}]
  /\ stream \in Seq(Msgs) /\ log \in Seq(Msgs)
  /\ hasStream \in BOOLEAN /\ up \in BOOLEAN /\ outage \in BOOLEAN
  /\ conn \in [Conns -> Steps]
  /\ next \in [Conns -> Nat] /\ missed \in [Conns -> Nat]
  /\ held \in [Conns -> Msgs \cup {NoMsg}]
  /\ seen \in [Conns -> Seq(Msgs)]
  /\ subs \subseteq Conns

Init ==
  /\ reply = [o \in Orders |-> "none"]
  /\ stream = << >> /\ log = << >>
  /\ hasStream \in BOOLEAN
  /\ conn = [c \in Conns |-> "closed"]
  /\ next = [c \in Conns |-> 0] /\ missed = [c \in Conns |-> 0]
  /\ held = [c \in Conns |-> NoMsg]
  /\ seen = [c \in Conns |-> << >>]
  /\ subs = {}
  /\ up = TRUE /\ outage = FALSE

-----------------------------------------------------------------------------
(* POST /v1/order: OrderNewPizza and PubOrder.                             *)

Readable(m) == m \notin Unreadable

\* A message at the end of the stream.
Stored(m) ==
  /\ stream' = Append(stream, m)
  /\ log' = IF Readable(m) THEN Append(log, m) ELSE log

Answer(o, here, there) == up /\ reply[o] = here /\ reply' = [reply EXCEPT ![o] = there]

BindFails(o) ==
  /\ Answer(o, "none", "400")
  /\ UNCHANGED <<store, events, process>>

Bind(o) ==
  /\ Answer(o, "none", "publishing")
  /\ UNCHANGED <<store, events, process>>

Publish(o) ==
  /\ Answer(o, "publishing", "200")
  /\ Stored(o)
  /\ UNCHANGED <<events, process>>

\* The publication fails, or only its answer is lost; the handler does not look
\* at the error of PubOrder and replies as if nothing had happened.
PublishFails(o) ==
  /\ Answer(o, "publishing", "200")
  /\ UNCHANGED store \/ Stored(o)
  /\ UNCHANGED <<events, process>>

\* Another service (a maestro) publishes to the stream (external).
OtherPublishes(u) ==
  /\ u \notin Range(stream)
  /\ Stored(u)
  /\ UNCHANGED <<reply, events, process>>

-----------------------------------------------------------------------------
(* GET /v1/order/sse: the handler, GetLiveOrdersSSE.                       *)

Goto(c, here, there) == up /\ conn[c] = here /\ conn' = [conn EXCEPT ![c] = there]

Connect(c) ==
  /\ Goto(c, "closed", "subscribing")
  /\ UNCHANGED <<orders, position, held, seen, subs, process>>

\* Without a stream the handler panics and is recovered; with one, creating the
\* consumer or starting to consume may fail.
SubscribeFails(c) ==
  /\ Goto(c, "subscribing", "done")
  /\ UNCHANGED <<orders, position, held, seen, subs, process>>

\* SubLiveOrders up to the return of Consume: the callback may already run.
Subscribe(c) ==
  /\ hasStream
  /\ Goto(c, "subscribing", "storing")
  /\ next' = [next EXCEPT ![c] = 1]
  /\ UNCHANGED <<orders, missed, held, seen, subs, process>>

\* n.subs[flusher] = cons: an assignment to the map begins and ends.
StoreBegins(c) ==
  /\ Goto(c, "storing", "writing")
  /\ UNCHANGED <<orders, position, held, seen, subs, process>>

StoreEnds(c) ==
  /\ Goto(c, "writing", "streaming")
  /\ subs' = subs \cup {c}
  /\ UNCHANGED <<orders, position, held, seen, process>>

\* Mutant of WriteEvent: the message is written again at the next turn of the loop.
WriteEventAgain(c) ==
  /\ up /\ conn[c] = "streaming" /\ held[c] # NoMsg
  /\ seen' = [seen EXCEPT ![c] = Append(@, held[c])]
  /\ UNCHANGED <<orders, conn, position, held, subs, process>>

\* The handler takes the message the callback is sending and writes it.
WriteEvent(c) ==
  /\ up /\ conn[c] = "streaming" /\ held[c] # NoMsg
  /\ seen' = [seen EXCEPT ![c] = Append(@, held[c])]
  /\ held' = [held EXCEPT ![c] = NoMsg]
  /\ UNCHANGED <<orders, conn, position, subs, process>>

WriteFails(c) ==
  /\ held[c] # NoMsg
  /\ Goto(c, "streaming", "leaving")
  /\ held' = [held EXCEPT ![c] = NoMsg]
  /\ UNCHANGED <<orders, position, seen, subs, process>>

\* The handler sees that its client has closed the connection.
ClientCloses(c) ==
  /\ Goto(c, "streaming", "leaving")
  /\ UNCHANGED <<orders, position, held, seen, subs, process>>

\* The client does not read, and no timeout ends the write of the message the
\* handler has taken: the client reads again, or the connection dies in the end.
Stalls(c) ==
  /\ held[c] # NoMsg
  /\ Goto(c, "streaming", "stalled")
  /\ UNCHANGED <<orders, position, held, seen, subs, process>>

ReadsAgain(c) ==
  /\ Goto(c, "stalled", "streaming")
  /\ UNCHANGED <<orders, position, held, seen, subs, process>>

ConnectionDies(c) ==
  /\ Goto(c, "stalled", "leaving")
  /\ held' = [held EXCEPT ![c] = NoMsg]
  /\ UNCHANGED <<orders, position, seen, subs, process>>

\* UnsubLiveOrders looks the consumer up in the map, stops it and deletes it.
\* Stopping does not reach a callback that is blocked on orderCh.
UnsubBegins(c) ==
  /\ Goto(c, "leaving", "deleting")
  /\ UNCHANGED <<orders, position, held, seen, subs, process>>

\* Mutants: the consumer is not stopped; the clean-up waits for the callback.
NotStopped(c)    == next[c]
MayDeleteIdle(c) == held[c] = NoMsg

Stopped(c)   == IF c \in subs THEN 0 ELSE next[c]
MayDelete(c) == TRUE

UnsubEnds(c) ==
  /\ MayDelete(c)
  /\ Goto(c, "deleting", "done")
  /\ next' = [next EXCEPT ![c] = Stopped(c)]
  /\ subs' = subs \ {c}
  /\ UNCHANGED <<orders, missed, held, seen, process>>

\* Two handlers are inside the map: the runtime may end the process.
MapRace ==
  /\ up
  /\ \E c, d \in Conns : c # d /\ {conn[c], conn[d]} \subseteq {"writing", "deleting"}
  /\ up' = FALSE
  /\ conn' = [c \in Conns |-> "done"]
  /\ next' = [c \in Conns |-> 0]
  /\ held' = [c \in Conns |-> NoMsg]
  /\ subs' = {}
  /\ UNCHANGED <<orders, missed, seen, hasStream, outage>>

-----------------------------------------------------------------------------
(* The callback of the consumer, and the connection to NATS.               *)

AfterReadable(c) ==   \* mutant of After: an unreadable message is tried again
  IF Readable(stream[next[c]]) THEN next[c] + 1 ELSE next[c]
After(c) == next[c] + 1

\* The next message: an unreadable one is dropped, another one is sent.
Consume(c) ==
  /\ next[c] \in 1..Len(stream) /\ held[c] = NoMsg
  /\ held' = [held EXCEPT ![c] = IF Readable(stream[next[c]]) THEN stream[next[c]] ELSE NoMsg]
  /\ next' = [next EXCEPT ![c] = After(c)]
  /\ UNCHANGED <<orders, conn, missed, seen, subs, process>>

\* The connection to NATS breaks, for a moment or for ever (external).
Outage ==
  /\ up /\ ~outage
  /\ outage' = TRUE
  /\ UNCHANGED <<orders, events, hasStream, up>>

\* A message sent while the connection was down: without acks the server does not
\* send it again (external).
Skip(c) ==
  /\ outage /\ next[c] \in 1..Len(stream) /\ held[c] = NoMsg
  /\ next' = [next EXCEPT ![c] = @ + 1]
  /\ missed' = [missed EXCEPT ![c] = IF Readable(stream[next[c]]) THEN @ + 1 ELSE @]
  /\ UNCHANGED <<orders, conn, held, seen, subs, process>>

-----------------------------------------------------------------------------
Request(o) == Bind(o) \/ BindFails(o) \/ Publish(o) \/ PublishFails(o)

Handler(c) ==
  \/ Subscribe(c) \/ SubscribeFails(c) \/ StoreBegins(c) \/ StoreEnds(c)
  \/ WriteEvent(c) \/ WriteFails(c) \/ UnsubBegins(c) \/ UnsubEnds(c)

Client(c) == Connect(c) \/ ClientCloses(c) \/ Stalls(c) \/ ReadsAgain(c) \/ ConnectionDies(c)

Next ==
  \/ \E o \in Orders : Request(o)
  \/ \E u \in Updates : OtherPublishes(u)
  \/ \E c \in Conns : Client(c) \/ Handler(c) \/ Consume(c) \/ Skip(c)
  \/ MapRace
  \/ Outage

Spec == Init /\ [][Next]_vars

\* Handlers run, and callbacks until the first outage.  Clients owe nothing, not
\* even to read what is written to them; nor do other services.
Fairness ==
  /\ \A c \in Conns : WF_vars(Handler(c)) /\ WF_vars(~outage /\ Consume(c))
  /\ \A o \in Orders : WF_vars(Publish(o) \/ PublishFails(o))

FairSpec == Spec /\ Fairness

-----------------------------------------------------------------------------
Feed == INSTANCE LiveFeed WITH Clients <- Conns, Published <- Msgs, joined <- missed

\* The consumers of NATSOrderPubSubber implement the live feed the handlers expect
\* of an OrderPubSubber, as the channels of GoChannelOrderPubSubber do: a client is
\* sent what the stream holds from its beginning, in order, without duplicates or
\* unreadable messages, while callback and clean-up run next to its handler; and
\* without gaps as long as the connection to NATS has not been interrupted.
ImplementsFeed == Feed!FeedSpec

\* No consumer escapes its handler: one that runs belongs to a connection that
\* is still open, and to one entry of the map once the handler has stored it.
ConsumerIsOwned ==
  \A c \in Conns : next[c] # 0 =>
    /\ conn[c] \in {"storing", "writing", "streaming", "stalled", "leaving", "deleting"}
    /\ conn[c] \notin {"storing", "writing"} => c \in subs

\* A client that stays connected and reads sees every readable message of the
\* stream, unless the connection to NATS is interrupted: then it may see no more.
LiveUpdates ==
  \A c \in Conns : \A m \in Msgs \ Unreadable :
    (conn[c] = "streaming" /\ m \in Range(stream))
      ~> (m \in Range(seen[c]) \/ conn[c] # "streaming" \/ outage)

\* Every handler that leaves finishes its clean-up, with or without a message
\* in the hands of its callback.
HandlerLeaves == \A c \in Conns : (conn[c] = "leaving") ~> (conn[c] = "done" /\ c \notin subs)

\* "Cleanup: Clean up resources": the callback of a connection that is gone
\* does not stay blocked for ever.
CallbackReleased == \A c \in Conns : (conn[c] = "done") ~> (held[c] = NoMsg)
=============================================================================
