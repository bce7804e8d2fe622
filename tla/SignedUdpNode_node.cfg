CONSTANTS
    p = p
    k1 = k1
    k2 = k2
    None = None
    Senders <- OneSender
    Team <- OneSender
    Kinds <- TwoKinds
    MaxSequence = 2
    MaxLives = 1
SPECIFICATION FairSpec
INVARIANTS TypeOK Numbered Conserved RefusedOnlyIfAccepted
PROPERTIES DeliversAtMostOnce AcceptedIsRead
