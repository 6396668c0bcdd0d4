SPECIFICATION Spec
CONSTANTS
    s1 = s1
    s2 = s2
    b1 = b1
    b2 = b2
    b3 = b3
    Peer = {s1, s2}
    PlayerId = {5}
    Body = {b1}
    AICount = 1
    MaxEntities = 4
    MaxTs = 4
    OldGames <- LargerGame
    MaxFlight = 2
SYMMETRY Symmetry
CHECK_DEADLOCK FALSE
PROPERTIES
    AIsAreNotSteered
