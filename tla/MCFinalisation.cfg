SPECIFICATION Spec
CONSTANTS
    None = None
    h1 = h1
    h2 = h2
    r1 = r1
    r2 = r2
    t1 = t1
    t2 = t2
    x1 = x1
    x2 = x2
    p1 = p1
    p2 = p2
    Processes = {p1, p2}
    Humans = {h1, h2}
    Records = {r1, r2}
    Texts = {t1, t2}
    Policies = {x1, x2}
    Scenarios <- AllScenarios
SYMMETRY Symmetric
CHECK_DEADLOCK FALSE
INVARIANT NothingRejected
INVARIANT HeadIsExplained
INVARIANT NamesAreStable
INVARIANT ApprovedIsTrue
PROPERTY NoSilentTakeover
