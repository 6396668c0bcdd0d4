SPECIFICATION FairSpec
CONSTANTS
    Client = {a1, a2}
    Half = 2
    MaxQueue = 2
INVARIANTS
    TypeOK
    PromptlyKept
PROPERTIES
    DeadForgotten
