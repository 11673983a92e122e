SPECIFICATION Spec
SYMMETRY Symmetry
CONSTANTS
    Rooms = {r1, r2}
    Nights = 2
    Months = 2
    Mouse = mouse
    Fingers = {f1, f2}
    MaxAtOnce = 2
    None = None
INVARIANTS RunHangsFromAnchor ArmedRowIsHeld RestingFingersOnly
PROPERTIES PicksStartWherePressed
