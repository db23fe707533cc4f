SPECIFICATION FairSpec
CONSTANTS
    w1 = w1
    w2 = w2
    Shared = Shared
    Workspaces = {w1, w2}
    Owners = {w1}
    Keyed = {w2}
    MaxGen = 2
    MaxBoots = 2
INVARIANT TypeOK
INVARIANT NoReuse
PROPERTY SyncIsMonotone
PROPERTY BootEnds
PROPERTY CatchesUp
CHECK_DEADLOCK FALSE
