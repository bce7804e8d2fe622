CONSTANTS
    a = a
    b = b
    c = c
    Member = {a, b, c}
    Walks <- Line
    MaxLives = 1
SPECIFICATION FairSpec
PROPERTY GossipConnects
