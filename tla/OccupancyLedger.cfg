SPECIFICATION Spec
CONSTANTS
    Rooms = {r1, r2}
    BookingIds = {b1}
    BlockIds = {k1}
    Workers = {w1, w2}
    Sweepers = {p1}
    Ranges <- OneRange
    Buyouts <- NoBuyout
    HoldHours = 1
    MaxTime = 1
    Nobody = nobody
SYMMETRY Symmetry
INVARIANTS BookingHoldsItsRooms StaysHaveARoom
PROPERTIES HistorySurvives ImplementsNightLedger
