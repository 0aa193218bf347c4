CONSTANTS
    Frequencies = 2
    Ladder = 2
    Samples = 2
    MaxCaptures = 3
    RangeCount = 2
    FirstCount = 1
    OtherCount = 2
    Required = 2
    MaxAttempts = 3
    Blocks = 2
    Parts = 2
    Starts_ = 2
SPECIFICATION PagesSpec
INVARIANTS ResultCurrent NobodyStranded OneWriter KeptIsEarned OverIsOver
PROPERTY PagesEnd
