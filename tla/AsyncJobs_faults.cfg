SPECIFICATION FairSpec
CONSTANTS
    shell = shell
    sub1 = sub1
    sub2 = sub2
    box = box
    NoJob = NoJob
    Job = {shell, box}
    Kind <- MCKind
    Agent <- MCAgent
    MaxQueueSpecs = 2
    MaxCrashes = 1
    MaxFaults = 1
INVARIANTS
    RunningIsOwned
    
PROPERTIES
    EveryJobEnds
CHECK_DEADLOCK FALSE
