SPECIFICATION Spec
CONSTANTS
    r1 = r1
    r2 = r2
    x1 = x1
    x2 = x2
    NoActivity = NoActivity
    Rexx = {r1, r2}
    Attachers = {x1}
    Roots = {x2}
    Host <- NestedOnR1
    Yielding <- EverybodyYields
    SizeMax = 7
INVARIANTS
    TypeOK
    AccessExclusive
    WaitingCountsExact
    QueueHoldsWaiters
    NobodyForgotten
PROPERTIES
    ReleaseWakesWaiters
    DispatchInOrder
