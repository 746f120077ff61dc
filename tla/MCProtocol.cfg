CONSTANTS
    Digits <- MCDigits
    MaxTokens = 6
    MaxKey = 2
    UintMax = 6
    SizeMax = 29
    Streams <- MCStreams
    Values <- MCValues
    Texts <- MCTexts
    OutputCap = 20
SPECIFICATION Spec
INVARIANTS
    TypeOK
    CutsDoNotMatter
    RequestsRecognized
    KeysServed
    RepliesReadBack
