\* One client is enough.
CONSTANTS
  Conns = {c1}
  Orders = {o1}
  Updates = {u1, bad}
  Unreadable = {bad}
  NoMsg = NoMsg
SPECIFICATION FairSpec
PROPERTY CallbackReleased
\* Everything has been published and read, or the process is gone.
CHECK_DEADLOCK FALSE
