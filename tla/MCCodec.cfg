\* The program returns when a call fails.
SPECIFICATION CodecSpec
CONSTANTS
    Buffers <- MCBuffers
    Tree <- ZydisTree
    Root <- ZydisRoot
    EncoderTable <- ZydisEncodable
    MaxLength = 15
    CodeSize = 26
INVARIANTS
    NeverOverruns
    SegmentsTile
    AttributesBacked
    ScaleIsOperandSize
    SameBytesSameMeaning
    CutOffIsNoMoreData
    EncodesWhatItDecoded
    SameCode
    NeverLonger
    SameFromAddresses
PROPERTY Terminates
CHECK_DEADLOCK FALSE
