SPECIFICATION AttendedSpec
CONSTANTS
    Runs = {r1}
    Ranges <- WholeChannel
    PageLimit = 1
    PagesPerAlarm = 1
    BackoffBase = 1
    BackoffMax = 2
    AttemptCap = 1
    Hints = {1}
    RetryAfters = {1}
    Resets = {1}
    FirstMessages = {1}
    Null = Null
    MaxMessage = 2
    MaxLatency = 1
    MaxCrashes = 1
    AlarmsCanBeLost = TRUE
PROPERTIES RunEnds
