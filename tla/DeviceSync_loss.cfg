SPECIFICATION Spec
CONSTANTS
    phone = phone
    tablet = tablet
    Devices = {phone, tablet}
    Runs = {1}
    TxIds = {"T"}
    Creator <- MCOneCreator
    Limit = 2
    MaxOps = 2
    MaxKeeps = 0
    MaxAborts = 0
    MaxErrors = 0
INVARIANTS
    NoSilentLoss
