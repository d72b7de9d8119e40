\* An old and a new scheduler process tick at the same time.
CONSTANTS
    u1 = u1
    k1 = k1
    k2 = k2
    NoScan = NoScan
    NoTime = NoTime
    NoOccurrence = NoOccurrence
    Scans = {1}
    Touched = {1}
    Staff = {u1}
    Schedulers = {k1, k2}
    Plans <- MCPlans
    Horizon = 3
    MaxTime = 3
    MaxRevision = 2
    MaxRuns = 1
SPECIFICATION Spec
INVARIANTS
    OccurrenceRunsOnce
    CatchUpIsTheLoop
CHECK_DEADLOCK FALSE
