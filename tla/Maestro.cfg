\* Two replicas that can hold the same order, next to two messages that come back for
\* ever: one that is no order, and one that ends the process that takes it; and one
\* failure of any kind.
CONSTANTS
  Maestros = {m1, m2}
  Orders = {o1, bad, bare}
  Malformed = {bad}
  Headerless = {bare}
  BatchSize = 1
  MaxAckPending = 3
  MaxFaults = 1
  NoOrder = NoOrder
SPECIFICATION FairSpec
INVARIANTS NoOrderLost DeliveredHasDough
PROPERTIES ImplementsOrderBook EveryOrderCloses LunchIsHad
