SPECIFICATION Spec
CONSTANTS
    Cores = 2
    Second = 4
    MaxCheckTimes = 4
    Limits <- SomeLimits
    CheckTimes = {0, 2}
    MaxLimiters = 2
INVARIANT WithinLimit
PROPERTY HeldEventPasses
