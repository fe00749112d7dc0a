SPECIFICATION FairSpec
CONSTANTS
    h1 = h1
    h2 = h2
    Handlers = {h1, h2}
    Readers = {"phone"}
    TxIds = {"A", "B"}
    AccountIds = {"cash", "food"}
    InitAccounts = {"cash", "food"}
    MutationIds <- MCMutationIds
    NoMutation = NoMutation
    Mutations <- MCMutations
    Fingerprints = {"pay"}
    NoFp = NoFp
    Batches <- MCCrossed
    Limit = 1
    MaxPushes = 3
    MaxFaults = 0
INVARIANTS
    OneLiveRowPerFp
    AnswersHold
PROPERTIES
    PushEnds
CHECK_DEADLOCK FALSE
