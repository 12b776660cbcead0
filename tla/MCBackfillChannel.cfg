SPECIFICATION Spec
CONSTANTS
    Runs = {r1}
    Ranges <- HalfOpen
    PageLimit = 2
    PagesPerAlarm = 2
    BackoffBase = 1
    BackoffMax = 2
    AttemptCap = 1
    Hints = {1}
    RetryAfters = {2}
    Resets = {1}
    FirstMessages = {1, 2, 3, 4}
    Null = Null
    MaxMessage = 4
    MaxLatency = 1
    MaxCrashes = 1
    AlarmsCanBeLost = FALSE
INVARIANTS NoGap ProgressBacked OwedIsPending AlarmArmed
PROPERTIES ReportFirst HoldHonoured ImplementsCrawl
