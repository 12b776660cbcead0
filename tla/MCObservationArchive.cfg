SPECIFICATION Spec
CONSTANTS
    Null = Null
    Garbled = Garbled
    GoWriters = {g1}
    Workers = {w1}
    Readers = {r1}
    Cleaners = {c1}
    Envelopes <- MCEnvelopes
    MaxAttempts = 2
    PageSize = 1
INVARIANTS
    DurableAcceptance
    ReplayComplete
    ReplayFaithful
PROPERTIES
    NoOverwrite
    OwnRetryNoViolation
