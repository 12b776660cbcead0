SPECIFICATION FairSpec
CONSTANTS
    Unedited = Unedited
    Null = Null
    Runs = {r1}
    Procs = {p1, p2}
    Objects = {1, 2, 3}
    Evidence <- MCEvidence
    Archived = {{1, 2}}
    ChunkSizes = {2}
    BatchSizes = {2}
    UnitLimits = {1}
    Concurrency = 2
    MaxFaults = 1
PROPERTIES
    RunCompletes
