SPECIFICATION Spec
CONSTANTS
    phone = phone
    tablet = tablet
    Devices = {phone, tablet}
    Runs = {1, 2}
    TxIds = {"T"}
    Creator <- MCOneCreator
    Limit = 1
    MaxOps = 2
    MaxKeeps = 0
    MaxAborts = 0
    MaxErrors = 0
INVARIANTS
    Converged
