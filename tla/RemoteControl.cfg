SPECIFICATION Spec
CONSTANTS
    NoStatus = NoStatus
    Torn = Torn
    Caller = {"finder", "dispatcher"}
    KnownUser <- MCLea
    MaxInFlight = 1
    MaxLosses = 1
    MaxReports = 1
    MaxPresses = 2
INVARIANTS
    TypeOK
    ScreenCurrent
    DisplayCaughtUp
CHECK_DEADLOCK FALSE
