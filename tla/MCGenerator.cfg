SPECIFICATION Spec
CONSTANTS
    Variations <- Mnemonics
    Iterations = 3
    Threshold = 100
CHECK_DEADLOCK FALSE
INVARIANTS
    FreshRequestFits
    FollowsOperandSize
