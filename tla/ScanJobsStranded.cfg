\* A LAN run while every eligible agent is unavailable: no request is made.
CONSTANTS
    l1 = l1
    a1 = a1
    Central = Central
    NoOne = NoOne
    NoJob = NoJob
    Jobs = {l1}
    LanJobs = {l1}
    Agents = {a1}
    Requests = {}
SPECIFICATION FairSpec
PROPERTY UnstartedRunsSettle
CHECK_DEADLOCK FALSE
