CONSTANTS
    Requests <- SingleRequests
    DeadTime = 1
    SettleTime = 1
    RangeTimeout = 2
    NeutralSettle = 1
    SineSettle = 1
    OperateGuard = 1
    ReleaseGuard = 2
    DmaTimeout = 1
    PermitTtl = 1
    BatteryMaxAge = 1
    SessionMax = 2
    SurveyMax = 3
    PowerPeriod = 2
    PowerTimeout = 1
    MaxCaptures = 2
    MaxSearch = 2
    MaxStatistical = 2
    GpioMayFail = TRUE
    AdcMayFail = FALSE
    ChargerMayChange = FALSE
    Order <- TwoButtons
    EventCapacity = 4
    DebounceTime = 1
    LongTime = 1
    RepeatDelay = 1
    RepeatPeriod = 1
    SleepTime = 4
    MaxStall = 1
    Raised = {1, 5, 6}
    QueueCapacity = 2
    NoteTime = 1
    GapTime = 1
    RetryTime = 2
SPECIFICATION FailuresSpec
INVARIANTS ConnectedIsAuthorised RestHoldsNothing BenchHonest
PROPERTIES ReleaseGuardHonoured PanelSafe FaultHeard
