SPECIFICATION Spec
CONSTANTS
    Requests = {r1}
    Second = 1
    InvalidWindow = 2
    GlobalCeiling = 1
    InvalidBudget = 4
    Answers <- PauseAndCount
    Null = Null
    MaxNow = 5
INVARIANTS NeverAppliedTwice
