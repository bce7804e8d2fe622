CONSTANTS
    GroupIds = {g1}
    Nonces = {n1, n2}
    None = None
    MaxDuplicates = 0
    RegistrationMayFail = TRUE
    Deadlines = {"registration", "group_ready", "follow", "await_baton", "send_baton", "challenge", "result", "budget"}
    MaxEarlyRetries = 0
    MaxLosses = 1
    Lossable = {"GroupReadyAck", "SignatureReply", "BatonAck"}
SPECIFICATION LossySpec
INVARIANTS TypeOK OneLeaderAtATime BudgetStartsAfterBarrier RejectedOnlyAfterBudget
PROPERTIES WaitsAreBounded LostForGood
