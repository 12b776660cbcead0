SPECIFICATION FleetSpec
CONSTANTS
    Requests = {r1, r2, r3}
    Second = 2
    InvalidWindow = 3
    GlobalCeiling = 1
    InvalidBudget = 2
    Answers <- FleetAnswers
    Null = Null
    MaxNow = 5
    Channels = {c1, c2}
    MaxAstray = 1
SYMMETRY FleetSymmetry
CHECK_DEADLOCK FALSE
INVARIANTS
    InvalidBounded
    CeilingAtDiscord
    CeilingInEveryWindow
    OncePerWindow
    RefusalHintExact
PROPERTIES
    StopsReachFleet
    PauseHonoured
    InvalidBudgetHonoured
