SPECIFICATION SrdSpec
CONSTANTS
    Disk <- TwoDisks
    Capacity <- Space
    SRD_MAX_INC_PER_TURN = 2
    SRD_MAX_DEC_PER_TURN = 1
    SRD_NUMBER_UPPER_LIMIT = 3
    SRD_VALIDATE_MIN_NUM = 2
    Checker = {c1}
    Already <- OnEach
    Changes <- MoreOrLess
    MaxChanges = 1
    MaxSrd = 3
    Faults <- OneOrLate
    Upgrades = {"NONE", "SUCCESS"}
CONSTRAINT InTime
INVARIANTS
    SrdTypeOK
    BufferedIsCondemned
    HeldIsThere
    InfoExact
CHECK_DEADLOCK FALSE
