SPECIFICATION SnippetSpec
CONSTANTS
    Size = 1
    MaxChain = 3
    Foreign = {}
    Null = Null
    SnippetHead = SnippetHead
INVARIANTS
    CountIsLength
    NoFault
PROPERTIES
    SwapKeepsIndexes
    InsertedAtInnerIndex
    LostOnlyInDecode
