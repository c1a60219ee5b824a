SPECIFICATION ConfirmationSpec
CONSTANTS
    Processes = {p1, p2}
    Coders = {c1, c2}
    Labels = {l1, l2}
    References = {1}
    Revisions = {r1, r2}
    Fulltexts = {f1, f2}
    Budgets <- Together
    None = None
SYMMETRY Symmetry
CHECK_DEADLOCK FALSE
INVARIANT NothingDangling
INVARIANT EffectsInOrder
INVARIANT WrittenIsEffectiveUnlessBack
INVARIANT UsableMeansUndisturbed
PROPERTY DecidedAsSeen
