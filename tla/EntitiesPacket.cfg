SPECIFICATION Spec
CONSTANTS
    Width = 8
    MaxCount = 3
    Header <- MCHeader
    Epochs <- MCEpochs
    Entities <- MCEntities
    Key <- MCKey
    Behind <- MCBehind
    NaNs <- MCNaNs
    Zeros <- MCZeros
CHECK_DEADLOCK FALSE
INVARIANTS
    DecodingInBounds
    DrawsTheWorld
    OnlyDifferences
PROPERTIES
    BehindKept
