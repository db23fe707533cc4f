SPECIFICATION Spec
CONSTANTS
    c1 = c1
    c2 = c2
    Callers = {c1, c2}
    Subs = {}
    Inbounds = {}
    MaxRequests = 2
    MaxOut = 3
    OwnCalls = {"request"}
    ChildLines = {"ok", "rpcError", "fatal"}
    PipeCap = 0
    MayHang = FALSE
SYMMETRY CallerSymmetry
INVARIANT TypeOK
INVARIANT NoOrphanWaiter
INVARIANT DeadChannelSettles
INVARIANT PendingHasOwner
PROPERTY ImplementsRpc
PROPERTY SettledOnce
CHECK_DEADLOCK FALSE
