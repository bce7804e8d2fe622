CONSTANTS
    a = a
    b = b
    c = c
    Member = {a, b}
    Walks <- EveryPair
    Plans <- EveryPlan
    Racers = {a, b}
    MaxLives = 1
SPECIFICATION PrepSpec
INVARIANTS OkMeansAnswered
CHECK_DEADLOCK FALSE
