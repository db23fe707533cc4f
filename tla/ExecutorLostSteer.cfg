SPECIFICATION Spec
CONSTANTS
    N = 2
    MaxNotes = 1
    Quirks = {"slow"}
INVARIANT AllAnswered
CHECK_DEADLOCK FALSE
