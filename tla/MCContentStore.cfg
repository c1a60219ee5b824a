SPECIFICATION Spec
CONSTANTS
    Putters = {p1, p2}
    Publishers = {p2}
    Readers = {r1}
    Contents = {a}
    Blocks = 2
    MaxPuts = 3
    MaxFaults = 2
    Faults = {"kill", "power", "oserror", "nosync", "rot", "swap"}
    None = None
SYMMETRY Symmetry
CHECK_DEADLOCK FALSE
INVARIANT NamedIsWhole
INVARIANT PublishedIsDurable
INVARIANT FailedLeavesTrace
INVARIANT ReaderGetsAddress
PROPERTY NeverOverwritten
