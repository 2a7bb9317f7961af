SPECIFICATION DrawSpec
CONSTANT
    Word = 8
CHECK_DEADLOCK FALSE
INVARIANTS
    DrawsAdmissible
    EveryValueOnce
