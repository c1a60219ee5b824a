SPECIFICATION WorkspaceSpec
CONSTANTS
    Yields <- GraphYielded
    Scenarios <- AllScenarios
    DefaultRuntime = "dinoh"
    TransferReferences = {"r1", "r2"}
    p1 = p1
    p2 = p2
    p3 = p3
    None = None
    Torn = Torn
SYMMETRY Symmetry
CHECK_DEADLOCK FALSE
INVARIANT NothingUnreviewedLeaves
INVARIANT NoDirectEdge
INVARIANT PendingIsNamed
INVARIANT PlanIsRun
INVARIANT OneContract
PROPERTY BindingDiscipline
PROPERTY OnlyWhatWasHandedOver
