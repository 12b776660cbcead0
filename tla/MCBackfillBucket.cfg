SPECIFICATION Spec
CONSTANTS
    Runs = {r1, r2}
    Ranges <- WholeChannel
    PageLimit = 1
    PagesPerAlarm = 1
    BackoffBase = 1
    BackoffMax = 1
    AttemptCap = 0
    Hints = {}
    RetryAfters = {}
    Resets = {2}
    FirstMessages = {}
    Null = Null
    MaxMessage = 1
    MaxLatency = 0
    MaxCrashes = 0
    AlarmsCanBeLost = FALSE
PROPERTIES BucketHonoured
