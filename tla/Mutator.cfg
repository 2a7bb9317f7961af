\* Two instructions of every kind: a jump and its target, either of which is
\* mutated, removed or left broken, and mutated again.
SPECIFICATION MutatorSpec
CONSTANTS
    Obj = {a, b}
    Decoded = {"plain", "banned", "fragile", "rip", "far", "short", "near", "indirect"}
    Created = {"plain", "banned", "fragile", "rip", "far", "loose", "indirect"}
    Targets = {0, 2}
    Reach = 0
    MaxEdits = 3
    Null = Null
CHECK_DEADLOCK FALSE
INVARIANTS
    ValidateSucceeds
    EncodesAfterPipeline
PROPERTY
    PipelineEnds
