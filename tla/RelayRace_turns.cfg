CONSTANTS
    GroupIds = {g1}
    Nonces = {n1, n2}
    None = None
    MaxDuplicates = 1
    RegistrationMayFail = FALSE
    Deadlines = {"await_baton", "budget"}
    MaxEarlyRetries = 1
    MaxLosses = 0
    Lossable = {}
SPECIFICATION Spec
SYMMETRY NonceSymmetry
INVARIANTS SignedIsIssued BundleIsComplete OnlyRoundOneCompletes AcceptedIsRecorded RelayOrder
PROPERTIES TakesTurns SignedOnce BarrierStaysShut
