SPECIFICATION Spec
CONSTANTS
    N = 3
    MaxNotes = 2
    Quirks = {"slow", "dies", "cancel", "noSteer"}
INVARIANT TypeOK
INVARIANT OwnTurnOnly
INVARIANT TurnExclusive
INVARIANT ProcessedOnce
INVARIANT SteerTarget
INVARIANT InitBeforeUse
PROPERTY FreshAfterFailure
CHECK_DEADLOCK FALSE
