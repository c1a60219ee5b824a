SPECIFICATION ConfirmationSpec
CONSTANTS
    Processes = {p1}
    Coders = {c1}
    Labels = {l1}
    References = {1}
    Revisions = {r1, r2}
    Fulltexts = {}
    Budgets <- ThereAndBack
    None = None
SYMMETRY Symmetry
CHECK_DEADLOCK FALSE
INVARIANT WrittenIsEffective
