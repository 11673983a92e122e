SPECIFICATION Spec
CONSTANTS
    Photos = {p1, p2}
    Handlers = {h1, h2}
    Processes = {q1}
    Cap = 2
    Attempts = 1
    OfRoom = FALSE
    Faults = {"delay"}
SYMMETRY Symmetry
CHECK_DEADLOCK FALSE
INVARIANTS
    OneVisibleCover
    ObjectsHaveAnOwner
PROPERTY CoverGoesWithItsPhoto
