SPECIFICATION Spec
CONSTANTS
    Obj = {a, b, c}
    Decoded = {"plain", "near"}
    Created = {"loose"}
    Targets = {2, 4}
    Reach = 3
    MaxEdits = 1
    Null = Null
CHECK_DEADLOCK FALSE
INVARIANT
    NoAbort
