SPECIFICATION Spec
CONSTANTS
    r1 = r1
    r2 = r2
    Rooms = {r1, r2}
    SeasonIds = {s1, s2}
    BookingIds = {1}
    Workers = {w1, w2}
    Forms = 1
    WeekendNights = {1}
    SeasonForms <- TwoSeasonForms
    RoomForms <- OneRoomEdited
    PropertyForms <- TwoPropertyForms
    Stays <- OneStay
    ColumnMax = 1600000
    Unread = unread
SYMMETRY Symmetry
INVARIANTS SeasonsNeverOverlap BookingsReconcile SeasonsDecideThePrice ShownIsCharged
PROPERTIES SeasonsLandWhole ImplementsRateCalendar
