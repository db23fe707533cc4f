SPECIFICATION FairSpec
CONSTANTS
    c1 = c1
    i1 = i1
    s1 = s1
    Callers = {c1}
    Subs = {s1}
    Inbounds = {i1}
    MaxRequests = 1
    MaxOut = 1
    OwnCalls = {"request", "notify"}
    ChildLines = {"ok", "elicitation", "note", "junk"}
    PipeCap = 0
    MayHang = TRUE
INVARIANT InboundRepliedOnce
PROPERTY SilentAfterClose
PROPERTY WaitsEnd
PROPERTY CallsReturn
PROPERTY CloseEnds
CHECK_DEADLOCK FALSE
