SPECIFICATION Spec
CONSTANTS
    Rooms = {r1}
    BookingIds = {b1, b2}
    BlockIds = {k1}
    Workers = {w1, w2}
    Sweepers = {p1}
    Ranges <- Overlapping
    Buyouts = {TRUE}
    HoldHours = 1
    MaxTime = 1
SYMMETRY Symmetry
INVARIANTS TypeOK NoDoubleBooking OccupancyFollowsStatus OnlyAHoldExpires
PROPERTIES SweepTakesOnlyExpiredHolds
