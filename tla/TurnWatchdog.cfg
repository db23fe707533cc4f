SPECIFICATION Spec
CONSTANTS
    Tick = 2
    Inactivity = 5
    Total = 12
    Lag = 1
    Horizon = 18
INVARIANT SilenceIsReal
INVARIANT SilenceIsNoticed
INVARIANT TotalIsBounded
CHECK_DEADLOCK FALSE
