\* Two clients over a stream of one order, one readable and one unreadable update.
CONSTANTS
  Conns = {c1, c2}
  Orders = {o1}
  Updates = {u1, bad}
  Unreadable = {bad}
  NoMsg = NoMsg
SPECIFICATION FairSpec
INVARIANT ConsumerIsOwned
PROPERTIES ImplementsFeed LiveUpdates HandlerLeaves
\* Everything has been published and read, or the process is gone.
CHECK_DEADLOCK FALSE
