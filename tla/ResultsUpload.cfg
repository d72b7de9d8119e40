\* Two runs, a failing call or a crash of the worker, one heartbeat; or one run, both.
CONSTANTS
    Jobs = {1, 2}
    Findings = 2
    MaxFaults = 1
    MaxCrashes = 1
    MaxBeats = 1
    MaxLoad = 3
SPECIFICATION Spec
INVARIANTS
    DoneIsComplete
    CountedOnce
    DeletedIsStored
CHECK_DEADLOCK FALSE
PROPERTIES
    AcceptedIsWorked
    FinishedIsCleared
