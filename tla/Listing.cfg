SPECIFICATION Spec
CONSTANTS
    Devices = {d1, d2}
    Rooms = {r1}
    Steps <- MCSteps
    MaxChanges = 1
    MaxDecisions = 2
SYMMETRY Symmetry
INVARIANTS QueuedOnesWereComplete
PROPERTIES VerdictsStand RefusalsAreNews
