CONSTANTS
    a = a
    b = b
    c = c
    Member = {a, b}
    Walks <- EveryPair
    Plans <- EveryPlan
    Racers = {a}
    MaxLives = 3
SPECIFICATION FairPrepSpec
INVARIANTS TypeOK RaceKnowsTeam OkMeansFound ReportsOnTeam
PROPERTIES EveryPrepEnds ForsakenFails TeamMeets MisledForGood
CHECK_DEADLOCK FALSE
