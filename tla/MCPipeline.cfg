SPECIFICATION Spec
CONSTANTS
    Obj = {a, b, c}
    Decoded = {"plain", "near"}
    Created = {"loose", "indirect"}
    Targets = {0, 2}
    Reach = 3
    MaxEdits = 2
    Null = Null
SYMMETRY Blocks
CHECK_DEADLOCK FALSE
INVARIANTS
    Lands
    TargetsLive
    OnlyLoneJumpAborts
PROPERTIES
    EncodeKeepsValid
