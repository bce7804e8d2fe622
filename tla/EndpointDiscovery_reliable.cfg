CONSTANTS
    a = a
    b = b
    c = c
    Member = {a, b, c}
    Walks <- Ring
    MaxLives = 1
SPECIFICATION FairSpec
PROPERTY EverybodyRaces
INVARIANTS NoHearsay
