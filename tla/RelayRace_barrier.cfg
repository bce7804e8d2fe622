CONSTANTS
    GroupIds = {g1}
    Nonces = {n1, n2}
    None = None
    MaxDuplicates = 0
    RegistrationMayFail = FALSE
    Deadlines = {}
    MaxEarlyRetries = 1
    MaxLosses = 0
    Lossable = {}
SPECIFICATION ReliableSpec
PROPERTIES BarrierOpens
