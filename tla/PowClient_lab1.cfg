CONSTANTS
    p1 = p1
    p2 = p2
    ann = ann
    Ann = Ann
    joe = joe
    odd = odd
    stranger = stranger
    u1 = u1
    u2 = u2
    bad = bad
    k = k
    None = None
    Process = {p1, p2}
    Environments <- Machines
    MaxCrashes = 1
    Email <- Emails
    Url = {u1, u2, bad}
    Key = {k}
    Canonical <- CanonicalEmail
    WellFormed = {ann, Ann, joe, odd}
    AllowedUrl = {u1, u2}
    ServedEmail = {ann, Ann, joe}
    ServedUrl = {u1, u2}
    MaxNonce = 2
    MaxPort = 2
    Digest <- Digests
    ServerDifficulty = 12
    Arguments <- Commands
SPECIFICATION FairSpec
INVARIANTS TypeOK SolvedIsFirst RejectedHasCause VerdictIsServers FoundIsSound
PROPERTIES SettledFileStays EveryRunEnds
CHECK_DEADLOCK FALSE
