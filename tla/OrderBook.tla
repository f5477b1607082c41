------------------------------ MODULE OrderBook ------------------------------
(***************************************************************************)
(* What the kitchen promises for an order, seen from outside: it is placed,*)
(* its dough is made, it is dispatched to the delivery queue and only then *)
(* is it closed (acknowledged, so that nobody will ever work on it again). *)
(* No order skips a stage or goes back, and every order that can be read   *)
(* is closed eventually, however often it is retried inside.               *)
(***************************************************************************)
EXTENDS Naturals

CONSTANTS
  Orders,      \* all orders a client may place
  Malformed    \* those whose message is not the JSON of an order

VARIABLE stage

Stages == {"absent", "placed", "baked", "dispatched", "closed"}

BookOK == stage \in [Orders -> Stages]

BookInit == stage = [o \in Orders |-> "absent"]

Advance(o, from, to) == stage[o] = from /\ stage' = [stage EXCEPT ![o] = to]

Place(o)    == Advance(o, "absent", "placed")
Bake(o)     == o \notin Malformed /\ Advance(o, "placed", "baked")
Dispatch(o) == Advance(o, "baked", "dispatched")
Close(o)    == Advance(o, "dispatched", "closed")

BookNext == \E o \in Orders : Place(o) \/ Bake(o) \/ Dispatch(o) \/ Close(o)

BookSpec == BookInit /\ [][BookNext]_stage

\* What clients may rely on in the end.
Readable == Orders \ Malformed

EveryOrderCloses == \A o \in Readable : (stage[o] = "placed") ~> (stage[o] = "closed")
=============================================================================
