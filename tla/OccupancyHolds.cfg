SPECIFICATION FairSpec
CONSTANTS
    Rooms = {r1}
    BookingIds = {b1, b2}
    BlockIds = {}
    Workers = {w1}
    Sweepers = {p1, p2}
    Ranges <- TwoNights
    Buyouts <- NoBuyout
    HoldHours = 1
    MaxTime = 2
PROPERTIES ExpiredHoldsAreReleased
