SPECIFICATION FairConfirmationSpec
CONSTANTS
    Processes = {p1, p2}
    Coders = {c1}
    Labels = {l1, l2}
    References = {1, 2}
    Revisions = {r1}
    Fulltexts = {}
    Budgets <- ToTheEnd
    None = None
CHECK_DEADLOCK FALSE
INVARIANT RetiredForGood
PROPERTY WriterEnds
