SPECIFICATION Spec
CONSTANTS
    Size = 2
    MaxChain = 3
    Foreign = {f1}
    Null = Null
INVARIANTS
    TypeOK
    CountsExact
    NoBlockTwice
PROPERTIES
    FailsOnlyWhenFull
    ImplementsPool
