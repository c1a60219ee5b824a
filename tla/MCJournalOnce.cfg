SPECIFICATION FairSpec
CONSTANTS
    Writers = {w1, w2}
    Readers = {}
    PlainKinds = {"note"}
    OnceKinds = {"init"}
    PayloadKinds = {"source"}
    Vals = {a, b}
    Cuts = {"half"}
    Faults = {"kill", "power", "oserror"}
    MaxOps = 2
    MaxFaults = 2
    None = None
CHECK_DEADLOCK FALSE
PROPERTY ImplementsEventLog
PROPERTY WantedIsServed
