SPECIFICATION RegistrySpec
CONSTANTS
    Processes = {p1, p2}
    Coders = {c1}
    Labels = {l1, l2}
    References = {1}
    Budgets <- TwoActs
    None = None
CHECK_DEADLOCK FALSE
INVARIANT WrittenRegisterFolds
