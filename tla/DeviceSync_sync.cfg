SPECIFICATION FairSpec
CONSTANTS
    phone = phone
    tablet = tablet
    Devices = {phone, tablet}
    Runs = {1}
    TxIds = {"T"}
    Creator <- MCOneCreator
    Limit = 2
    MaxOps = 3
    MaxKeeps = 1
    MaxAborts = 1
    MaxErrors = 1
INVARIANTS
    TypeOK
    PendingKept
    Converged
PROPERTIES
    SyncedUnlessError
