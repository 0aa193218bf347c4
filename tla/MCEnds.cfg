CONSTANTS
    Requests <- EndRequests
    DeadTime = 0
    SettleTime = 0
    RangeTimeout = 1
    NeutralSettle = 0
    SineSettle = 0
    OperateGuard = 0
    ReleaseGuard = 1
    DmaTimeout = 1
    PermitTtl = 1
    BatteryMaxAge = 1
    SessionMax = 2
    SurveyMax = 2
    PowerPeriod = 1
    PowerTimeout = 1
    MaxCaptures = 1
    MaxSearch = 1
    MaxStatistical = 1
    GpioMayFail = FALSE
    AdcMayFail = TRUE
    ChargerMayChange = TRUE
SPECIFICATION FairSpec
PROPERTIES TransactionEnds
