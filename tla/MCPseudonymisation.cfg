SPECIFICATION Spec
CONSTANTS
    r1 = r1
    r2 = r2
    Records = {r1, r2}
    Fold <- SmallFold
    Texts <- SmallTexts
    Places <- SmallPlaces
    Policies <- SmallPolicies
    BlockSizes = {1, 2}
    Plans <- SmallPlans
CHECK_DEADLOCK FALSE
INVARIANT EditsStand
INVARIANT RegisterServes
INVARIANT ReportIsTrue
INVARIANT SuggestionsStand
PROPERTY SettledByHand
