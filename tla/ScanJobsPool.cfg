\* One LAN run that two agents compete for and one central run that two
\* scanners do.
CONSTANTS
    l1 = l1
    w1 = w1
    a1 = a1
    a2 = a2
    r1 = r1
    r2 = r2
    Central = Central
    NoOne = NoOne
    NoJob = NoJob
    Jobs = {l1, w1}
    LanJobs = {l1}
    Agents = {a1, a2}
    Requests = {r1, r2}
SPECIFICATION Spec
SYMMETRY PoolSymmetry
PROPERTIES
    ClaimIsPermanent
    CancelIsAnnounced
CHECK_DEADLOCK FALSE
