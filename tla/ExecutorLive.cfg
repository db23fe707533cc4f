SPECIFICATION FairSpec
CONSTANTS
    N = 2
    MaxNotes = 1
    Quirks = {"slow", "dies", "hangs", "initRejected", "noId", "spawnFails", "shutdown"}
PROPERTY EveryMessageEnds
CHECK_DEADLOCK FALSE
