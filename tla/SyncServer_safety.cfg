SPECIFICATION Spec
CONSTANTS
    h1 = h1
    h2 = h2
    Handlers = {h1, h2}
    Readers = {}
    TxIds = {"A", "B"}
    AccountIds = {"cash", "food"}
    InitAccounts = {"cash"}
    MutationIds <- MCMutationIds
    NoMutation = NoMutation
    Mutations <- MCMutations
    Fingerprints = {"pay"}
    NoFp = NoFp
    Batches <- MCBatches
    Limit = 1
    MaxPushes = 3
    MaxFaults = 1
SYMMETRY MCSymmetry
INVARIANTS
    TypeOK
    LogFaithful
    AckedIsDurable
PROPERTIES
    ImplementsBook
CHECK_DEADLOCK FALSE
