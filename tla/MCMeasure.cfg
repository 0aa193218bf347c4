CONSTANTS
    Requests <- AllRequests
    DeadTime = 1
    SettleTime = 1
    RangeTimeout = 2
    NeutralSettle = 1
    SineSettle = 1
    OperateGuard = 1
    ReleaseGuard = 2
    DmaTimeout = 1
    PermitTtl = 1
    BatteryMaxAge = 3
    SessionMax = 2
    SurveyMax = 3
    PowerPeriod = 1
    PowerTimeout = 2
    MaxCaptures = 2
    MaxSearch = 2
    MaxStatistical = 2
    GpioMayFail = FALSE
    AdcMayFail = TRUE
    ChargerMayChange = TRUE
SPECIFICATION MeasureSpec
INVARIANTS TypeOK BatteryDeadlineHonest ResultHonest AdcExclusive
PROPERTIES SwitchedCold RangeMovesUnderNeutral SettleNotRestarted ImplementsAttempt
