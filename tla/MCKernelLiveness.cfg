SPECIFICATION FairSpec
CONSTANTS
    r1 = r1
    r2 = r2
    x1 = x1
    x2 = x2
    NoActivity = NoActivity
    Rexx = {r1, r2}
    Attachers = {x2}
    Roots = {}
    Host <- NoHost
    Yielding <- EverybodyYields
    SizeMax = 7
PROPERTIES
    ImplementsAccess
    EveryoneServed
