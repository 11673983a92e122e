SPECIFICATION Spec
CONSTANTS
    Photos = {p1}
    Handlers = {h1, h2}
    Processes = {q1, q2}
    Cap = 2
    Attempts = 3
    OfRoom = TRUE
    Faults = {"delay", "request", "storage", "process"}
SYMMETRY Symmetry
CHECK_DEADLOCK FALSE
INVARIANTS
    PhotosAreServed
