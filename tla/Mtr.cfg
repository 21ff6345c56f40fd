\* Six command lines, safety and liveness.
CONSTANTS
    t1 = t1
    t2 = t2
    t3 = t3
    Options <- AllOptions
SPECIFICATION FairSpec
INVARIANTS
    NothingLost
    NonParallelAlone
    Limits
PROPERTIES
    ImplementsSuite
    StopsOnFailure
    Ends
    AllRun
