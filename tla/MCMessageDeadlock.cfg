SPECIFICATION Spec
CONSTANTS
    None = None
    Activities = {x, y}
    Messages = {m}
    Copies = {}
    Listeners = {}
    MaxDepth = 3
    MaxParties = 0
INVARIANT
    DeadlockNoticed
CHECK_DEADLOCK FALSE
