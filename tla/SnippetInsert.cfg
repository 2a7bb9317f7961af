SPECIFICATION SnippetSpec
CONSTANTS
    Size = 2
    MaxChain = 1
    Foreign = {}
    Null = Null
    SnippetHead = SnippetHead
PROPERTY
    InsertedAtIndex
