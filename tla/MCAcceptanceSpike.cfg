SPECIFICATION Spec
CONSTANTS
    Unedited = Unedited
    Null = Null
    l1 = l1
    l2 = l2
    Loops = {l1, l2}
    Objects = {1, 2, 3}
    Evidence <- MCEvidence
    Fixture <- MCFixture
    Backfilled = {3}
    MaxConcurrent = 2
    WithR2SQL = {l1}
    MaxPolls = 2
    MaxLag = 3
    MaxCleanups = 1
CHECK_DEADLOCK FALSE
INVARIANTS
    TypeOK
    PassedMeansRebuilt
    ComparedTwoTables
    ReportHonest
    PathReferencedOnce
