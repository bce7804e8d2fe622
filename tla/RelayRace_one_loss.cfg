CONSTANTS
    GroupIds = {g1}
    Nonces = {n1, n2}
    None = None
    MaxDuplicates = 0
    RegistrationMayFail = FALSE
    Deadlines = {"send_baton", "await_baton"}
    MaxEarlyRetries = 0
    MaxLosses = 1
    Lossable = {"SignatureReply"}
SPECIFICATION ReliableSpec
PROPERTIES LastSignatureArrives
