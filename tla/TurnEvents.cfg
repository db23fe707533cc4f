SPECIFICATION FairSpec
CONSTANTS
    Servers = {"s1", "s2"}
    Tools = {"t"}
    Configs = {{}, {"s1"}, {"s1", "s2"}}
    Builtins = {"exec"}
    Chunks = {"a", "b"}
    MaxChunks = 2
    Schemas = {"v130", "v72"}
    MayFail = TRUE
    PipeCap = 2
    MaxSaid = 1
    MaxCalls = 1
    MaxTurns = 2
INVARIANT NoServerLeft
INVARIANT ReplyIsWhole
INVARIANT OneRowPerCall
PROPERTY PublishedIsLive
PROPERTY EnumerationEnds
CHECK_DEADLOCK FALSE
