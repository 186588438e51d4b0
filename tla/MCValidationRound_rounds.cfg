SPECIFICATION FairSpec
CONSTANTS
    w1 = w1  w2 = w2
    File <- TwoFiles
    Worker <- TwoWorkers
    MaxDraw = 4
INVARIANTS
    RoundTypeOK
    ProofIsEarned
    VerdictsOfTheRound
PROPERTY RoundEnds
CHECK_DEADLOCK FALSE
