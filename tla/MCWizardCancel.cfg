CONSTANTS
    RangeCount = 1
    FirstCount = 1
    OtherCount = 1
    Required = 1
    MaxAttempts = 2
SPECIFICATION FairSpec
INVARIANT CancelDrains
