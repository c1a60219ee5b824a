CONSTANTS
    None = None
    s1 = s1
    s2 = s2
    m1 = m1
    m2 = m2
    Processes = {p1, p2}
    Texts = {s1, s2}
    MetadataInputs = {m1, m2}
    Scenarios <- FirstText
SPECIFICATION Spec
SYMMETRY Symmetric
CHECK_DEADLOCK FALSE
INVARIANT IngestIsEffective
