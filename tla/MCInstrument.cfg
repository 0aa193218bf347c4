CONSTANTS
    HalfTurn = 4
    Requests = {"10R", "100R", "INVALID"}
    DeadTime = 2
    SettleTime = 3
    LoopMax = 2
    GpioMayFail = TRUE
    Top = 3
    Readings <- SessionReadings
    StageMax = 2
    Capacity = 4
    MaxTransitions = 1
    TrimmedSamples = 2
    MaxExtraCaptures = 2
    Average = 2
    RequiredSafe = 2
SPECIFICATION InstrumentSpec
INVARIANTS ReadyIsSettled NothingLeftBehind SurveyHonest SensorsHonest
PROPERTIES BreaksBeforeMakes WorkEnds
