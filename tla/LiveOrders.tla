------------------------------ MODULE LiveOrders ------------------------------
(***************************************************************************)
(* GoChannelOrderPubSubber (paddock-gateway/handler.go), the in-memory     *)
(* implementation of OrderPubSubber, under the two HTTP handlers that use  *)
(* it: POST /v1/order runs PubOrder, GET /v1/order/sse subscribes, writes  *)
(* what it receives and unsubscribes.                                      *)
(*                                                                         *)
(* The channels are unbuffered, and PubOrder sends on them one after the   *)
(* other while it holds g.mu.  Subscribing and unsubscribing take g.mu for *)
(* one assignment, so each is one step that needs it free.                 *)
(***************************************************************************)
EXTENDS Naturals, Sequences

CONSTANTS
  Conns,     \* connections to the event stream
  Orders,    \* requests for a pizza, and the orders they publish
  NoConn,    \* no receiver
  NoOrder    \* no order: g.mu is free, a handler holds nothing

ASSUME LiveOrdersAssumption == NoConn \notin Conns /\ NoOrder \notin Orders

VARIABLES
  holder,    \* the PubOrder that holds g.mu
  pub,       \* where each PubOrder is
  todo,      \* subscribers its loop has not served yet
  target,    \* the one whose channel it is sending on
  subs,      \* domain of g.liveEventSubscribers
  conn,      \* where the handler of each connection is
  hand,      \* the order that handler has received and not yet written
  log,       \* the orders in the sequence in which they took g.mu (history)
  joined,    \* length of log when the connection subscribed (history)
  seen       \* events written to the client

publisher  == <<holder, pub, todo, target>>
subscriber == <<conn, hand>>
vars == <<publisher, subs, subscriber, log, joined, seen>>

Steps == {"closed", "subscribing", "streaming", "writing", "blocked", "leaving", "done"}
Open  == {"streaming", "writing", "blocked", "leaving"}

PublisherOK ==
  /\ holder \in Orders \cup {NoOrder}
  /\ pub \in [Orders -> {"none", "called", "sending", "returned"}]
  /\ todo \in [Orders -> SUBSET Conns]
  /\ target \in [Orders -> Conns \cup {NoConn}]

SubscriberOK ==
  /\ subs \subseteq Conns
  /\ conn \in [Conns -> Steps]
  /\ hand \in [Conns -> Orders \cup {NoOrder}]
  /\ log \in Seq(Orders)
  /\ joined \in [Conns -> Nat]
  /\ seen \in [Conns -> Seq(Orders)]

TypeOK == PublisherOK /\ SubscriberOK

Init ==
  /\ holder = NoOrder
  /\ pub = [o \in Orders |-> "none"]
  /\ todo = [o \in Orders |-> {}]
  /\ target = [o \in Orders |-> NoConn]
  /\ subs = {}
  /\ conn = [c \in Conns |-> "closed"]
  /\ hand = [c \in Conns |-> NoOrder]
  /\ log = << >>
  /\ joined = [c \in Conns |-> 0]
  /\ seen = [c \in Conns |-> << >>]

Unlocked == holder = NoOrder

-----------------------------------------------------------------------------
(* POST /v1/order: PubOrder.                                               *)

Advance(o, here, there) == pub[o] = here /\ pub' = [pub EXCEPT ![o] = there]

OrderNewPizza(o) ==
  /\ Advance(o, "none", "called")
  /\ UNCHANGED <<holder, todo, target, subs, subscriber, log, joined, seen>>

NoLock == TRUE   \* mutant of MayPublish: PubOrder does not take the mutex
MayPublish == Unlocked

Lock(o) ==
  /\ MayPublish
  /\ Advance(o, "called", "sending")
  /\ holder' = o
  /\ todo' = [todo EXCEPT ![o] = subs]
  /\ log' = Append(log, o)
  /\ UNCHANGED <<target, subs, subscriber, joined, seen>>

\* The next entry of the map, in no particular order: the loop now waits for
\* that subscriber, and for no other.
Pick(o, c) ==
  /\ pub[o] = "sending" /\ target[o] = NoConn /\ c \in todo[o]
  /\ target' = [target EXCEPT ![o] = c]
  /\ UNCHANGED <<holder, pub, todo, subs, subscriber, log, joined, seen>>

Goto(c, here, there) == conn[c] = here /\ conn' = [conn EXCEPT ![c] = there]

Served(o, c) ==
  /\ target[o] = c
  /\ target' = [target EXCEPT ![o] = NoConn]
  /\ todo' = [todo EXCEPT ![o] = @ \ {c}]
  /\ UNCHANGED <<holder, pub, subs, log, joined, seen>>

\* Mutant of Send: a subscriber that is not ready is passed over.
SendOrDrop(o, c) ==
  /\ Served(o, c)
  /\ IF conn[c] = "streaming"
       THEN Goto(c, "streaming", "writing") /\ hand' = [hand EXCEPT ![c] = o]
       ELSE UNCHANGED subscriber

\* The send and the receive of an unbuffered channel are one step.
Send(o, c) ==
  /\ Served(o, c)
  /\ Goto(c, "streaming", "writing")
  /\ hand' = [hand EXCEPT ![c] = o]

KeepLock == holder   \* mutant of Unlock: the deferred Unlock is missing
Unlock == NoOrder

Return(o) ==
  /\ todo[o] = {} /\ target[o] = NoConn
  /\ Advance(o, "sending", "returned")
  /\ holder' = Unlock
  /\ UNCHANGED <<todo, target, subs, subscriber, log, joined, seen>>

-----------------------------------------------------------------------------
(* GET /v1/order/sse: GetLiveOrdersSSE, SubLiveOrders and UnsubLiveOrders. *)

Connect(c) ==
  /\ Goto(c, "closed", "subscribing")
  /\ UNCHANGED <<publisher, subs, hand, log, joined, seen>>

Subscribe(c) ==
  /\ Unlocked
  /\ Goto(c, "subscribing", "streaming")
  /\ subs' = subs \cup {c}
  /\ joined' = [joined EXCEPT ![c] = Len(log)]
  /\ UNCHANGED <<publisher, hand, log, seen>>

WriteEvent(c) ==
  /\ Goto(c, "writing", "streaming")
  /\ seen' = [seen EXCEPT ![c] = Append(@, hand[c])]
  /\ hand' = [hand EXCEPT ![c] = NoOrder]
  /\ UNCHANGED <<publisher, subs, log, joined>>

WriteFails(c) ==
  /\ Goto(c, "writing", "leaving")
  /\ hand' = [hand EXCEPT ![c] = NoOrder]
  /\ UNCHANGED <<publisher, subs, log, joined, seen>>

\* The client does not read, and no timeout ends the write: it reads again, or
\* the connection dies in the end.
Stalls(c) ==
  /\ Goto(c, "writing", "blocked")
  /\ UNCHANGED <<publisher, subs, hand, log, joined, seen>>

ReadsAgain(c) ==
  /\ Goto(c, "blocked", "writing")
  /\ UNCHANGED <<publisher, subs, hand, log, joined, seen>>

ConnectionDies(c) ==
  /\ Goto(c, "blocked", "leaving")
  /\ hand' = [hand EXCEPT ![c] = NoOrder]
  /\ UNCHANGED <<publisher, subs, log, joined, seen>>

ClientCloses(c) ==
  /\ Goto(c, "streaming", "leaving")
  /\ UNCHANGED <<publisher, subs, hand, log, joined, seen>>

MayLeave == TRUE   \* mutant of MayUnsubscribe: the entry is deleted without the mutex
MayUnsubscribe == Unlocked

Unsubscribe(c) ==
  /\ MayUnsubscribe
  /\ Goto(c, "leaving", "done")
  /\ subs' = subs \ {c}
  /\ UNCHANGED <<publisher, hand, log, joined, seen>>

-----------------------------------------------------------------------------
PubOrder(o) ==
  Lock(o) \/ Return(o) \/ (\E c \in Conns : Pick(o, c) \/ Send(o, c))

GetLiveOrdersSSE(c) ==
  Subscribe(c) \/ WriteEvent(c) \/ WriteFails(c) \/ Unsubscribe(c)

Client(c) == Connect(c) \/ ClientCloses(c) \/ Stalls(c) \/ ReadsAgain(c) \/ ConnectionDies(c)

Next ==
  \/ \E o \in Orders : OrderNewPizza(o) \/ PubOrder(o)
  \/ \E c \in Conns : Client(c) \/ GetLiveOrdersSSE(c)

Spec == Init /\ [][Next]_vars

\* Both kinds of handlers run; clients owe nothing, not even to read what is
\* written to them.
Fairness ==
  /\ \A o \in Orders : WF_vars(PubOrder(o))
  /\ \A c \in Conns : WF_vars(GetLiveOrdersSSE(c))

FairSpec == Spec /\ Fairness

-----------------------------------------------------------------------------
\* A client sees a gapless piece of the one history of orders, from the moment it
\* subscribed: with clients coming and going between the sends of several orders,
\* none is skipped, repeated or seen in another sequence than elsewhere.
SeenIsSegment ==
  \A c \in Conns :
    /\ joined[c] + Len(seen[c]) <= Len(log)
    /\ \A i \in 1..Len(seen[c]) : seen[c][i] = log[joined[c] + i]

Feed == INSTANCE LiveFeed WITH Clients <- Conns, Published <- Orders, outage <- FALSE

\* The channels implement the live feed the handlers expect of an OrderPubSubber.
ImplementsFeed == Feed!FeedSpec

\* The publisher has yet to send to a subscriber that waits for its mutex to leave.
Jammed == \E o \in Orders, c \in Conns : c \in todo[o] /\ conn[c] = "leaving"

\* The publisher waits for a subscriber that waits for its client to read.
Stalled == \E o \in Orders, c \in Conns : target[o] = c /\ conn[c] = "blocked"

\* A client that leaves while an order is still to be sent to it is a deadlock, also
\* when it is not yet its turn: no step of any handler ends it, the mutex stays with
\* that order, none is published after it, no connection is opened or cleaned up.
JamIsForEver == [][Jammed => Jammed' /\ UNCHANGED <<holder, log, subs>>]_vars

\* Nothing keeps PubOrder from returning but a client that leaves before its turn, or
\* one that does not read while the loop waits for it: not a failed write, not a
\* client that leaves after its turn, not one that stalls while others are served.
PublishReturns ==
  \A o \in Orders :
    (pub[o] \in {"called", "sending"}) ~> (pub[o] = "returned" \/ Jammed \/ Stalled)

\* A client that stays and reads is sent every order published since it subscribed,
\* unless another one leaves or stops reading before the loop has got to it.
LiveUpdates ==
  \A c \in Conns, o \in Orders :
    (c \in todo[o] \/ hand[c] = o)
      ~> \/ o \in {seen[c][i] : i \in 1..Len(seen[c])}
         \/ conn[c] \in {"blocked", "leaving", "done"}
         \/ Jammed \/ Stalled
=============================================================================
