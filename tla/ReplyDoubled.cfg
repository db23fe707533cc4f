SPECIFICATION Spec
CONSTANTS
    Servers = {}
    Tools = {}
    Configs = {{}}
    Builtins = {"exec"}
    Chunks = {"a", "b"}
    MaxChunks = 2
    Schemas = {"v130"}
    MayFail = FALSE
    PipeCap = 1
    MaxSaid = 1
    MaxCalls = 1
    MaxTurns = 1
INVARIANT ReplyIsSaid
CHECK_DEADLOCK FALSE
