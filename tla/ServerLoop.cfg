SPECIFICATION FairSpec
CONSTANTS
    Peer = {p1}
    Wait = 3
    Lifetime = 7
    MaxBurst = 3
CHECK_DEADLOCK FALSE
PROPERTIES
    WorldAdvances
    TermObeyed
    Retires
