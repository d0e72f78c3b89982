SPECIFICATION Spec
CONSTANTS
    Texts <- AllTexts
    Cap = 9
    MaxEntries = 2
    LongKeys <- LongNames
    ValueCap = 7
    ChunkCap = 2
    MaxInts = 2
    PortMax = 20
    IntMax = 31
    StrictOverflow = TRUE
INVARIANTS
    TypeOK
    AnswersAreTheText
    PortsAgree
    ArraysAreLists
