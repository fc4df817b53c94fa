SPECIFICATION FairSpec
CONSTANT MaxJobs = 3
INVARIANTS ReadyIsLoaded
PROPERTIES ThreadReturns IdleIsEvicted
