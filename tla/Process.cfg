CONSTANTS
  Requests = {call, watch}
  Streams = {watch}
SPECIFICATION FairSpec
INVARIANTS CleanedUpOnce ZeroIsClean OnlyLogsAreLost
PROPERTY SignalEnds
