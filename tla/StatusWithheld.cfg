SPECIFICATION Spec
CONSTANTS
    NoStatus = NoStatus
    Torn = Torn
    Caller = {"finder", "worker"}
    KnownUser <- MCNobody
    MaxInFlight = 1
    MaxLosses = 0
    MaxReports = 2
    MaxPresses = 0
PROPERTY OnlyDuplicatesHeldBack
CHECK_DEADLOCK FALSE
