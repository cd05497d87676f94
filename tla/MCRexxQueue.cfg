SPECIFICATION Spec
CONSTANTS
    None = None
    Names = {n}
    Sessions = {s}
    Processes = {p, r}
    Clients = {a, b, c}
    DataQueues = {d, e}
    Items = {i, j}
    MaxReferences = 3
SYMMETRY Interchangeable
INVARIANTS
    TypeOK
    WaitersExact
    WaiterKeepsQueue
    QueuesInTable
    SleepersUnposted
    SessionKept
PROPERTY
    ImplementsMailbox
