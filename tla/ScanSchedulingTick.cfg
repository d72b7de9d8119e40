\* One scheduler and two scans, one of them edited, with fairness.
CONSTANTS
    u1 = u1
    k1 = k1
    NoScan = NoScan
    NoTime = NoTime
    NoOccurrence = NoOccurrence
    Scans = {1, 2}
    Touched = {1}
    Staff = {u1}
    Schedulers = {k1}
    Plans <- TickPlans
    Horizon = 3
    MaxTime = 2
    MaxRevision = 2
    MaxRuns = 1
SPECIFICATION FairSpec
INVARIANTS
    CatchUpIsSingle
PROPERTIES
    DueIsServed
CHECK_DEADLOCK FALSE
