SPECIFICATION EitherSpec
CONSTANTS
    Null = Null
    ListHead = ListHead
    Node = {n1, n2, n3}
    Values = {65}
    MaxItems = 3
    Growth = 2
    Threshold = 2
    Unlimited = Unlimited
    Junk = 97
    Blank = 97
    Width = 2
    Wrap = 8
INVARIANTS
    Ring
    WellFormed
    SearchesExact
PROPERTIES
    ImplementsSequence
    ImplementsContainer
