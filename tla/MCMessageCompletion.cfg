SPECIFICATION Spec
CONSTANTS
    None = None
    Activities = {x, y}
    Messages = {m}
    Copies = {n}
    Listeners = {l}
    MaxDepth = 4
    MaxParties = 2
SYMMETRY Interchangeable
VIEW WhileUsedOnce
INVARIANTS
    TypeOK
    SleepersKnown
    EveryoneTold
    ToldOnce
    DispatchCompletes
    OnlySelfWaits
PROPERTY
    StartedForGood
CHECK_DEADLOCK FALSE
