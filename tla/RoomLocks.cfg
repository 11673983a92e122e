SPECIFICATION FairSpec
CONSTANTS
    Rooms = {r1, r2, r3}
    Txns = {t1, t2}
    MAX_ROOMS_PER_PROPERTY = 1
    MaxNamed = 2
    MaxPlace = 1
INVARIANT RoomsNearTheLimit
PROPERTIES ImplementsRoomBoard RequestsEnd
CHECK_DEADLOCK FALSE
