CONSTANTS
  Maestros = {m1}
  Orders = {o1}
  Malformed = {}
  Headerless = {}
  BatchSize = 1
  MaxAckPending = 1
  MaxFaults = 1
  NoOrder = NoOrder
  Calls = {h1, h2}
  NoCall = NoCall
  Retries = 2
  MaxLosses = 1
SPECIFICATION KFairSpec
INVARIANTS BakerStaysSound OrphansBounded
PROPERTIES ImplementsMaestro WorkPriorityForOne RequestReturns EveryOrderCloses
