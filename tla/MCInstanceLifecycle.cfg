SPECIFICATION FairSpec
CONSTANTS
    None = None
    r = r
    t = t
    w = w
    v = v
    Root = r
    Natives = {r, t}
    Workers = {w, v}
    MaxPool = 0
    MaxNest <- OneCallsBack
    MaxAttach = 1
    MaxSpawns = 2
INVARIANTS
    TypeOK
    ThreadsFinishFirst
    OneShutdown
    AccessBalanced
    WorkKept
    Anchored
PROPERTIES
    ImplementsShutdown
    WorkersLetTerminate
CHECK_DEADLOCK FALSE
