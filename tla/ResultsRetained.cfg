\* One run, a crash of the agent and one failing call.
CONSTANTS
    Jobs = {1}
    Findings = 1
    MaxFaults = 1
    MaxCrashes = 1
    MaxBeats = 1
    MaxLoad = 3
SPECIFICATION Spec
PROPERTY RawIsRetained
CHECK_DEADLOCK FALSE
