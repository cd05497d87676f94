SPECIFICATION Spec
CONSTANTS
    None = None
    Activities = {x, y}
    Dictionaries = {d, e}
    Watchable = {d}
    MaxDepth = 2
    MaxFrames = 4
INVARIANT
    NoCircularWait
CHECK_DEADLOCK FALSE
