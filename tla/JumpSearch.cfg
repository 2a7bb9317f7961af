SPECIFICATION SearchSpec
CONSTANTS
    MaxCount = 5
    Address = {0, 1, 2, 3, 4, 5, 6, 7, 8}
    NotFound = NotFound
INVARIANTS
    InBounds
    FoundIffPresent
PROPERTY
    SearchEnds
