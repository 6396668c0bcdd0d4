SPECIFICATION Spec
CONSTANTS
    s1 = s1
    s2 = s2
    b1 = b1
    b2 = b2
    b3 = b3
    Peer = {s1, s2}
    PlayerId = {5}
    Body = {b1, b2}
    AICount = 1
    MaxEntities = 3
    MaxTs = 3
    OldGames <- LargerGame
    MaxFlight = 1
SYMMETRY Symmetry
CONSTRAINT FreshSlots
CHECK_DEADLOCK FALSE
INVARIANTS
    BaselineHonest
    InSync
    TypeOK
    OwnEntity
    NoOrphans
PROPERTIES
    BaselineKept
