SPECIFICATION Spec
CONSTANTS
    h1 = h1
    h2 = h2
    Handlers = {h1, h2}
    AccountIds = {"food", "travel", "salary", "tea"}
    Root = Root
    Keep = Keep
    Defaults <- MCDefaults
    MutationIds <- MCMutationIds
    Mutations <- MCMutations
    MaxPushes = 4
    MaxFaults = 1
SYMMETRY MCSymmetry
INVARIANTS
    TypeOK
    TwoLevel
    ReplayIsTwoLevel
    ReplayReachesRows
CHECK_DEADLOCK FALSE
