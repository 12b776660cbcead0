SPECIFICATION Spec
CONSTANTS
    Null = Null
    Calls = {1, 2, 3}
    ExtractCount = 2
    UnitCount = 3
    MaxUnits = 2
    MaxAttempts = 2
    Overlap = TRUE
CHECK_DEADLOCK FALSE
INVARIANTS
    WorksOnFixedManifest
    PhaseBacked
PROPERTY
    ManifestImmutable
