SPECIFICATION Spec
CONSTANTS
    weight = 48
    height = 32
    XS = {0, 24, 56}
    YS = {20}
    Radii = {8, 16}
    Spawned = 1
    MaxBodies = 3
    NaN = NaN
CHECK_DEADLOCK FALSE
INVARIANTS
    TargetsRight
PROPERTIES
    Walls
    LostForEver
