\* Three calls at once: every overlap of two handlers with a third, of naps and of the shutdown.
CONSTANT Handlers = {h1, h2, h3}
SPECIFICATION HFairSpec
INVARIANTS HTypeOK OneSleeper WorkingFlagSound StatusNamesLiveOrder NapsArePaid HealthCatchesUp
PROPERTIES PriorityUntilOverlap NapEnds CallAnswered ShutdownCompletes DeferredSleep EveryTickNaps
