SPECIFICATION Spec
CONSTANTS
    Writers = {w1, w2}
    Readers = {r1}
    PlainKinds = {"note"}
    OnceKinds = {"init"}
    PayloadKinds = {"source"}
    Vals = {a}
    Cuts = {"half", "split", "whole"}
    Faults = {"kill", "power", "oserror", "short"}
    MaxOps = 3
    MaxFaults = 2
    None = None
SYMMETRY Symmetry
INVARIANT TypeOK
INVARIANT ReadableIsChain
INVARIANT RememberedHeadIsHead
INVARIANT NoSilentLoss
PROPERTY ReadersAdvance
