SPECIFICATION Spec
CONSTANTS
    p1 = p1
    p2 = p2
    p3 = p3
    Client = {p1, p2, p3}
    MaxStarts = 2
    MaxLines = 1
SYMMETRY Symmetry
CHECK_DEADLOCK FALSE
INVARIANTS
    TypeOK
    IntroducedOnce
    RightName
