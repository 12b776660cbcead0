SPECIFICATION Spec
CONSTANTS
    Unedited = Unedited
    Null = Null
    Runs = {r1}
    Procs = {p1}
    Objects = {1, 2, 3}
    Evidence <- MCEvidence
    Archived = {{1, 2}}
    ChunkSizes = {2}
    BatchSizes = {1, 2}
    UnitLimits = {0}
    Concurrency = 1
    MaxFaults <- NoFaultBound
INVARIANTS
    CompletedMeansComplete
