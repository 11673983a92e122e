SPECIFICATION FairSpec
CONSTANTS
    Photos = {p1}
    Handlers = {h1, h2}
    Processes = {q1}
    Cap = 1
    Attempts = 2
    OfRoom = TRUE
    Faults = {"delay", "storage"}
CHECK_DEADLOCK FALSE
INVARIANT ProcessingIsQueued
PROPERTIES
    UploadsSettle
    AbandonedUploadsGo
