------------------------------- MODULE LiveFeed -------------------------------
(***************************************************************************)
(* What the interface OrderPubSubber promises to the clients of            *)
(* GET /v1/order/sse, whichever of its two implementations serves them:    *)
(* orders are published one after the other, a client joins at some point  *)
(* of that history, and from there on it receives every order, once and in *)
(* the order of publication.  Only an outage of what carries the orders    *)
(* may keep some from it.                                                  *)
(***************************************************************************)
EXTENDS Naturals, Sequences

CONSTANTS
  Clients,   \* event streams
  Published  \* orders that may be published

VARIABLES
  log,       \* the orders published so far
  joined,    \* how many of them a client has missed, by joining late or in an outage
  seen,      \* the orders a client has received
  outage     \* what carries the orders has been interrupted (outside the feed)

feed == <<log, joined, seen>>

FeedInit ==
  /\ log = << >>
  /\ joined = [c \in Clients |-> 0]
  /\ seen = [c \in Clients |-> << >>]

PublishOrder(o) ==
  /\ log' = Append(log, o)
  /\ UNCHANGED <<joined, seen>>

Join(c) ==
  /\ seen[c] = << >>
  /\ joined' = [joined EXCEPT ![c] = Len(log)]
  /\ UNCHANGED <<log, seen>>

Receive(c) ==
  /\ joined[c] + Len(seen[c]) < Len(log)
  /\ seen' = [seen EXCEPT ![c] = Append(@, log[joined[c] + Len(@) + 1])]
  /\ UNCHANGED <<log, joined>>

Miss(c) ==
  /\ outage /\ joined[c] + Len(seen[c]) < Len(log)
  /\ joined' = [joined EXCEPT ![c] = @ + 1]
  /\ UNCHANGED <<log, seen>>

FeedNext ==
  \/ \E o \in Published : PublishOrder(o)
  \/ \E c \in Clients : Join(c) \/ Receive(c) \/ Miss(c)

FeedSpec == FeedInit /\ [][FeedNext]_feed
=============================================================================
