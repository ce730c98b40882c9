SPECIFICATION FairSpec
CONSTANTS
    shell = shell
    sub1 = sub1
    sub2 = sub2
    box = box
    NoJob = NoJob
    Job = {shell, sub1}
    Kind <- MCKind
    Agent <- MCAgent
    MaxQueueSpecs = 2
    MaxCrashes = 0
    MaxFaults = 1
INVARIANTS
    OneVerdict
PROPERTIES
    EveryJobEnds
CHECK_DEADLOCK FALSE
