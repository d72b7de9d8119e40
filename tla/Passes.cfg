\* One LAN run, two requests and the passes that end it; two scheduler processes
\* that compete for the lock, with two troubles; an asset with a report in hand,
\* two thresholds; two devices in pages of one.
CONSTANTS
    l1 = l1
    a1 = a1
    r1 = r1
    r2 = r2
    Central = Central
    NoOne = NoOne
    NoJob = NoJob
    Jobs = {l1}
    LanJobs = {l1}
    Agents = {a1}
    Requests = {r1, r2}
    p1 = p1
    p2 = p2
    Free = Free
    Dead = Dead
    SchedulerProcesses = {p1, p2}
    Tasks = {"schedules", "alerts"}
    MaxTroubles = 2
    Reports = {1}
    Thresholds = {1, 2}
    StaleDays = 2
    MaxDay = 4
    DeviceIds = {1, 2}
    Looks = {"plain", "printer"}
    Unlabelled = {"plain"}
    BatchSize = 1
    Ingests = {1, 2}
    MaxReports = 2
    MaxRestarts = 1
    Parts = {"runs", "leader", "aging", "sweep"}
SPECIFICATION PassSpec
INVARIANTS
    OverlapIsFenced
PROPERTIES
    RunningEnds
    WaitingEnds
    PassesDoTheirWork
CHECK_DEADLOCK FALSE
