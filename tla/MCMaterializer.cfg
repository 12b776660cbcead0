SPECIFICATION Spec
CONSTANTS
    Unedited = Unedited
    Null = Null
    Runs = {r1}
    Procs = {p1, p2}
    Objects = {1, 2, 3}
    Evidence <- MCEvidence
    Archived = {{1, 2}}
    ChunkSizes = {1}
    BatchSizes = {2}
    UnitLimits = {2}
    Concurrency = 2
    MaxFaults <- NoFaultBound
SYMMETRY ProcSymmetry
INVARIANTS
    TypeOK
    ExtractBacked
    CommitBacked
    RegisteredOnce
    CompletedMeansComplete
    InputIsolated
PROPERTY
    ImplementsRebuild
