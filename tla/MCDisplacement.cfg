SPECIFICATION CodecSpec
CONSTANTS
    Buffers <- MCLoads
    Tree <- ZydisTree
    Root <- ZydisRoot
    EncoderTable <- ZydisEncodable
    MaxLength = 15
    CodeSize = 26
INVARIANT DisplacementUsed
CHECK_DEADLOCK FALSE
