SPECIFICATION Spec
CONSTANTS
    None = None
    Activities = {x, y, z}
    Dictionaries = {d, e}
    Watchable = {d}
    MaxDepth = 2
    MaxFrames = 4
SYMMETRY Interchangeable
VIEW WithoutOldPosts
INVARIANTS
    TypeOK
    ScopeExclusive
    WaitersQueued
    GuardNotMissed
    CircularWaitInvolvesGuard
PROPERTIES
    HandedInOrder
    ImplementsLock
CHECK_DEADLOCK FALSE
