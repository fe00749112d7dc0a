SPECIFICATION FairSpec
CONSTANTS
    phone = phone
    tablet = tablet
    Devices = {phone, tablet}
    Runs = {1}
    TxIds = {"T"}
    Creator <- MCOneCreator
    Limit = 2
    MaxOps = 1
    MaxKeeps = 0
    MaxAborts = 0
    MaxErrors = 1
PROPERTIES
    EventuallySynced
