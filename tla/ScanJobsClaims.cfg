\* Two LAN runs, one agent identity, two requests at once: every
\* interleaving of two starts with each other and with what ends a run.
CONSTANTS
    l1 = l1
    l2 = l2
    a1 = a1
    r1 = r1
    r2 = r2
    Central = Central
    NoOne = NoOne
    NoJob = NoJob
    Jobs = {l1, l2}
    LanJobs = {l1, l2}
    Agents = {a1}
    Requests = {r1, r2}
SPECIFICATION Spec
SYMMETRY ClaimSymmetry
INVARIANTS
    OneRunningPerAgent
PROPERTIES
    NoResurrection
    ImplementsRunClaims
CHECK_DEADLOCK FALSE
