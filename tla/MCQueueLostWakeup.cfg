SPECIFICATION Spec
CONSTANTS
    None = None
    Names = {n}
    Sessions = {s}
    Processes = {p}
    Clients = {a, b}
    DataQueues = {d, e}
    Items = {i, j}
    MaxReferences = 2
INVARIANT
    NobodySleepsOnMail
