----------------------------- MODULE PricedStay -----------------------------
(***************************************************************************)
(* Where a price comes from: the rates on the rooms, the seasons over them *)
(* (rate_overrides), the property's meal charge and GST switch, the        *)
(* booking form that shows a quote, and BookingsService.create, which      *)
(* computes the price again and writes it.                                 *)
(*                                                                         *)
(* create reads the three tables in three statements sent together, which  *)
(* the database answers in any order: each is a step.  Which rooms are     *)
(* free, and how bookings move afterwards, is Occupancy's.                 *)
(***************************************************************************)
EXTENDS Quote

CONSTANTS Rooms,            \* room ids this property may ever have
          SeasonIds,        \* ids of seasons: one per createOverride that writes
          BookingIds,
          Workers,          \* requests (a season, or a booking's form) in flight
          Forms,            \* booking forms open at once: a bound for TLC
          SeasonForms,      \* [startDate, endDate, nightlyRate, minStayNights]
          RoomForms,        \* [Rooms -> what the room may be updated to]
          PropertyForms,    \* what the property's prices may be updated to
          Stays,            \* [guests, checkIn, checkOut, overrideTotal]
          ColumnMax,        \* the largest value of an INTEGER column
          Unread            \* the answer of a statement that is still out

\* createRateOverrideSchema, the CHECKs of the migration, createBookingSchema.
ASSUME SeasonAssumption ==
    \A form \in SeasonForms : /\ form.startDate \in Nat /\ form.endDate \in Nat
                              /\ form.startDate <= form.endDate
                              /\ form.nightlyRate \in 0 .. ColumnMax
                              /\ form.minStayNights \in {Null} \cup 1 .. 30
ASSUME StayAssumption ==
    \A stay \in Stays : /\ stay.checkIn \in Nat /\ stay.checkOut \in Nat
                        /\ stay.checkIn < stay.checkOut
                        /\ IsFiniteSet(DOMAIN stay.guests)
                        /\ \A room \in DOMAIN stay.guests : stay.guests[room] \in Nat

\* The INTEGER columns of rooms and properties, and their CHECKs.
ASSUME RatesAssumption ==
    /\ \A room \in Rooms : \A form \in RoomForms[room] :
           /\ form.baseRate \in Nat \cup {Null} /\ form.weekendRate \in Nat \cup {Null}
           /\ form.standardOccupancy \in Nat /\ form.extraGuestCharge \in Nat
    /\ \A form \in PropertyForms : form.mealCharge \in Nat
    /\ ColumnMax \in Nat

VARIABLES property,     \* [mealPlan, mealCharge, gstEnabled]
          rooms,        \* a function from the rooms that exist to their rows
          overrides,    \* the rate_overrides table
          bookings,     \* the price columns and line items of each booking
          jobs          \* [Workers -> a request in flight, or Idle]

vars == <<property, rooms, overrides, bookings, jobs>>

-----------------------------------------------------------------------------
Idle   == [kind |-> "idle"]
Nothing == [property |-> Unread, rooms |-> Unread, overrides |-> Unread]

OverlapsExclusive(form, row) ==     \* mutant: the last night is left out
    form.startDate < row.endDate /\ row.startDate < form.endDate

\* Both dates are nights of the season.
Overlaps(form, row) == form.startDate <= row.endDate /\ row.startDate <= form.endDate

FitsUnchecked(job) == job.rooms \subseteq DOMAIN rooms  \* mutant: no constraint

\* rate_overrides_no_overlap, and the foreign key to the room.
Fits(job) == /\ job.rooms \subseteq DOMAIN rooms
             /\ \A row \in overrides : row.room \in job.rooms => ~Overlaps(job.form, row)

Row(id, room, form) ==
    [id |-> id, room |-> room, startDate |-> form.startDate, endDate |-> form.endDate,
     nightlyRate |-> form.nightlyRate, minStayNights |-> form.minStayNights]

\* A booking on its way; undisturbed while no price was edited since the form
\* showed its quote.
BookJob(stay, shown) ==
    [kind |-> "book", step |-> "reads", seen |-> Nothing, stay |-> stay,
     shown |-> shown, price |-> Unread, undisturbed |-> TRUE]

\* Jobs after an edit of anything a price is computed from.
Disturbed == [w \in Workers |-> IF jobs[w].kind = "book"
                                THEN [jobs[w] EXCEPT !.undisturbed = FALSE, !.shown = Unread]
                                ELSE jobs[w]]

Advance(w, step) == jobs' = [jobs EXCEPT ![w].step = step]
End(w) == jobs' = [jobs EXCEPT ![w] = Idle]

Init == /\ property \in PropertyForms
        /\ rooms \in {rows \in [Rooms -> UNION {RoomForms[r] : r \in Rooms}] :
                       \A r \in Rooms : rows[r] \in RoomForms[r]}
        /\ overrides = {} /\ bookings = <<>>
        /\ jobs = [w \in Workers |-> Idle]

-----------------------------------------------------------------------------
(* Edits the tables see as one write.                                      *)

PropertyUpdate == \E form \in PropertyForms :
    /\ property' = form
    /\ jobs' = Disturbed
    /\ UNCHANGED <<rooms, overrides, bookings>>

RoomUpdate(room) == \E form \in RoomForms[room] :
    /\ room \in DOMAIN rooms
    /\ rooms' = [rooms EXCEPT ![room] = form]
    /\ jobs' = Disturbed
    /\ UNCHANGED <<property, overrides, bookings>>

\* RESTRICT keeps a room with bookings; the room's seasons go with it (CASCADE).
RoomRemove(room) ==
    /\ room \in DOMAIN rooms
    /\ \A id \in DOMAIN bookings : room \notin DOMAIN bookings[id].stay.guests
    /\ rooms' = [r \in DOMAIN rooms \ {room} |-> rooms[r]]
    /\ overrides' = {row \in overrides : row.room # room}
    /\ jobs' = Disturbed
    /\ UNCHANGED <<property, bookings>>

RemoveOverride(row) ==
    /\ overrides' = overrides \ {row}
    /\ jobs' = Disturbed
    /\ UNCHANGED <<property, rooms, bookings>>

-----------------------------------------------------------------------------
(* createOverride: the rooms are read, then what is in the way, then one   *)
(* createMany.                                                             *)

SeasonBegin(w) ==
    /\ jobs[w] = Idle
    /\ \E rs \in SUBSET Rooms \ {{}}, form \in SeasonForms :
           jobs' = [jobs EXCEPT ![w] =
                       [kind |-> "season", step |-> "rooms", rooms |-> rs, form |-> form]]
    /\ UNCHANGED <<property, rooms, overrides, bookings>>

SeasonAt(w, step) == jobs[w].kind = "season" /\ jobs[w].step = step

SeasonCheckRooms(w) ==
    /\ SeasonAt(w, "rooms")
    /\ IF jobs[w].rooms \subseteq DOMAIN rooms THEN Advance(w, "overlap") ELSE End(w)
    /\ UNCHANGED <<property, rooms, overrides, bookings>>

AssertNoOverlap(w) ==
    /\ SeasonAt(w, "overlap")
    /\ IF \E row \in overrides : row.room \in jobs[w].rooms /\ Overlaps(jobs[w].form, row)
       THEN End(w) ELSE Advance(w, "write")
    /\ UNCHANGED <<property, rooms, overrides, bookings>>

Inserted(job, id) == {Row(id, room, job.form) : room \in job.rooms}

SeasonWriteEach(w) ==           \* mutant: one insert per room
    /\ SeasonAt(w, "write") /\ Fits(jobs[w])
    /\ \E id \in SeasonIds \ {row.id : row \in overrides}, room \in jobs[w].rooms :
          /\ overrides' = overrides \cup {Row(id, room, jobs[w].form)}
          /\ jobs' = IF jobs[w].rooms = {room} THEN [Disturbed EXCEPT ![w] = Idle]
                     ELSE [Disturbed EXCEPT ![w].rooms = @ \ {room}]
    /\ UNCHANGED <<property, rooms, bookings>>

SeasonWrite(w) ==
    /\ SeasonAt(w, "write") /\ Fits(jobs[w])
    /\ \E id \in SeasonIds \ {row.id : row \in overrides} :
           overrides' = overrides \cup Inserted(jobs[w], id)
    /\ jobs' = [Disturbed EXCEPT ![w] = Idle]
    /\ UNCHANGED <<property, rooms, bookings>>

\* The insert is refused: it does not fit, it names a room twice (and clashes
\* with itself), or the database is gone.
SeasonRefused(w) ==
    /\ SeasonAt(w, "write")
    /\ End(w)
    /\ UNCHANGED <<property, rooms, overrides, bookings>>

-----------------------------------------------------------------------------
(* The booking form, and create on the server, which reads the property,   *)
(* the rooms the stay names and the seasons in any order.                  *)

BookAt(w, step) == jobs[w].kind = "book" /\ jobs[w].step = step

Read(w, table, value) ==
    /\ jobs[w].seen[table] = Unread
    /\ jobs' = [jobs EXCEPT ![w].seen[table] = value]
    /\ UNCHANGED <<property, rooms, overrides, bookings>>

ReadProperty(w)  == BookAt(w, "reads") /\ Read(w, "property", property)
ReadRooms(w)     == BookAt(w, "reads") /\ Read(w, "rooms",
                        [r \in DOMAIN rooms \cap DOMAIN jobs[w].stay.guests |-> rooms[r]])
ReadOverrides(w) == BookAt(w, "reads") /\ Read(w, "overrides", overrides)

HasRead(w) == \A table \in DOMAIN Nothing : jobs[w].seen[table] # Unread

\* What both call sites hand to quote(): a property that has not said how it
\* feeds its guests charges the room only.
MealPlanOf(seen) == IF seen.property.mealPlan = "none" THEN "ROOM_ONLY"
                    ELSE seen.property.mealPlan

QuoteInput(seen, stay) ==
    [checkIn |-> stay.checkIn, checkOut |-> stay.checkOut, guests |-> stay.guests,
     rates |-> seen.rooms, overrides |-> seen.overrides, mealPlan |-> MealPlanOf(seen),
     mealCharge |-> seen.property.mealCharge, gstEnabled |-> seen.property.gstEnabled]

Tables == [property |-> property, rooms |-> rooms, overrides |-> overrides]

PricedAllInclusive(seen, stay) ==       \* mutant: no meal plan means all meals
    QuoteOf([QuoteInput(seen, stay) EXCEPT !.mealPlan =
        IF seen.property.mealPlan = "none" THEN "ALL_MEALS" ELSE @])

Shown(seen, stay)  == QuoteOf(QuoteInput(seen, stay)).total
Priced(seen, stay) == QuoteOf(QuoteInput(seen, stay))

\* The form offers the rooms in service, shows the quote of what it read and
\* sends the stay; it refuses neither an unpriced room nor a short stay.  What it
\* read is as old as the edits that come between this step and create's reads.
Submit(w) ==
    /\ jobs[w] = Idle /\ Cardinality({v \in Workers : jobs[v].kind = "book"}) < Forms
    /\ \E stay \in Stays :
           /\ DOMAIN stay.guests \subseteq {r \in DOMAIN rooms : rooms[r].isActive}
           /\ jobs' = [jobs EXCEPT ![w] = BookJob(stay, Shown(Tables, stay))]
    /\ UNCHANGED <<property, rooms, overrides, bookings>>

OverCapacity(seen, stay) ==
    \E r \in DOMAIN stay.guests : stay.guests[r] > seen.rooms[r].maxOccupancy

\* NOT_FOUND, out of service, over capacity, ROOM_NOT_PRICED, MIN_STAY_VIOLATION.
Refuses(seen, stay) ==
    \/ DOMAIN seen.rooms # DOMAIN stay.guests
    \/ \E r \in DOMAIN seen.rooms : ~seen.rooms[r].isActive
    \/ OverCapacity(seen, stay)
    \/ Priced(seen, stay).unpricedRooms # {}
    \/ Priced(seen, stay).shortOfMinStay # {}

PriceStay(w) ==
    /\ BookAt(w, "reads") /\ HasRead(w)
    /\ IF Refuses(jobs[w].seen, jobs[w].stay) THEN End(w)
       ELSE jobs' = [jobs EXCEPT ![w] = [@ EXCEPT !.step = "write",
                        !.price = Priced(jobs[w].seen, jobs[w].stay)]]
    /\ UNCHANGED <<property, rooms, overrides, bookings>>

\* The INTEGER columns of bookings.  An amount beyond them fails the write.
Stored(job) == {job.price.roomTotal, job.price.extraGuestTotal, job.price.mealTotal,
                job.price.subtotal, job.price.taxTotal, job.price.total,
                job.stay.overrideTotal}

FitsColumns(job) == \A amount \in Stored(job) : amount <= ColumnMax

Record(job) == [stay |-> job.stay, price |-> job.price]

\* Rooms taken meanwhile, a room deleted, an amount too large: nothing is written.
BookWrite(w) ==
    /\ BookAt(w, "write")
    /\ \/ /\ DOMAIN jobs[w].stay.guests \subseteq DOMAIN rooms
          /\ FitsColumns(jobs[w])
          /\ \E id \in BookingIds \ DOMAIN bookings :
                 bookings' = [b \in DOMAIN bookings \cup {id} |->
                                 IF b = id THEN Record(jobs[w]) ELSE bookings[b]]
       \/ bookings' = bookings
    /\ End(w)
    /\ UNCHANGED <<property, rooms, overrides>>

-----------------------------------------------------------------------------
SeasonStep(w) == \/ SeasonBegin(w) \/ SeasonCheckRooms(w) \/ AssertNoOverlap(w)
                 \/ SeasonWrite(w) \/ SeasonRefused(w)

BookStep(w) == \/ Submit(w) \/ ReadProperty(w) \/ ReadRooms(w) \/ ReadOverrides(w)
               \/ PriceStay(w) \/ BookWrite(w)

Edit == \/ PropertyUpdate
        \/ \E room \in Rooms : RoomUpdate(room) \/ RoomRemove(room)
        \/ \E row \in overrides : RemoveOverride(row)

Next == Edit \/ \E w \in Workers : SeasonStep(w) \/ BookStep(w)

Spec == Init /\ [][Next]_vars
-----------------------------------------------------------------------------
(* Properties.                                                             *)

StayNights   == UNION {NightsBetween(stay.checkIn, stay.checkOut) : stay \in Stays}
SeasonNights == UNION {form.startDate .. form.endDate : form \in SeasonForms}
Nights       == StayNights \cup SeasonNights

\* A row of the rates table names a room that exists and only that, a job is
\* one of the two requests, and a booking carries a whole stay.
TypeOK ==
    /\ property \in PropertyForms
    /\ DOMAIN rooms \subseteq Rooms
    /\ \A room \in DOMAIN rooms : rooms[room] \in RoomForms[room]
    /\ overrides \subseteq {Row(id, room, form) :
           id \in SeasonIds, room \in DOMAIN rooms, form \in SeasonForms}
    /\ DOMAIN bookings \subseteq BookingIds
    /\ \A w \in Workers : jobs[w].kind \in {"idle", "season", "book"}

\* No night of a room has two seasons, whatever two devices save at once: the
\* check of createOverride is for the host, the exclusion constraint is what
\* keeps rate resolution a function.
SeasonsNeverOverlap ==
    \A a, b \in overrides : a.room = b.room /\ Overlaps(a, b) => a = b

\* A season priced for several rooms is saved for all of them or for none: an
\* insert that one room refuses leaves no row for the others.
SeasonsLandWhole ==
    [][\A row \in overrides' \ overrides : \E w \in Workers :
           /\ jobs[w].kind = "season" /\ jobs'[w] = Idle
           /\ {other.room : other \in overrides' \ overrides} = jobs[w].rooms]_vars

\* The rates table implements RateCalendar: the room-nights its rows cover
\* change hands as a calendar of seasons does.
CellsOf(rows) == UNION {{<<row.room, n, row.id>> : n \in row.startDate .. row.endDate} :
                            row \in rows}

Calendar == INSTANCE RateCalendar WITH Seasons <- SeasonIds, cells <- CellsOf(overrides)

ImplementsRateCalendar == Calendar!Spec

\* The rate bands as the tax rules state them, apart from the table in the code.
TaxBand(tariff) == IF tariff <= 100000 THEN 0 ELSE IF tariff <= 750000 THEN 500 ELSE 1800

ToHalfAPaisa(tax, tariff, points) == tax * 10000 - tariff * points \in (-5000) .. 5000

LineReconciles(line) ==
    /\ line.tariff = line.roomCharge + line.extraGuestCharge + line.mealCharge
    /\ line.gstBasisPoints \in {0, TaxBand(line.tariff)}
    /\ ToHalfAPaisa(line.taxAmount, line.tariff, line.gstBasisPoints)

Reconciles(stay, price) ==
    /\ {<<line.room, line.date>> : line \in price.lines}
           = (DOMAIN stay.guests) \X NightsBetween(stay.checkIn, stay.checkOut)
    /\ price.total = SumFunction([line \in price.lines |-> line.tariff + line.taxAmount])
    /\ price.total = price.subtotal + price.taxTotal /\ price.total <= ColumnMax
    /\ stay.overrideTotal <= ColumnMax
    /\ \A line \in price.lines : LineReconciles(line)

\* A written booking explains itself: one line per room and night, the total is
\* what the lines come to with their tax, each tax is its own band's to half a
\* paisa, and every amount is what was computed, not what a column could hold.
BookingsReconcile ==
    \A id \in DOMAIN bookings : Reconciles(bookings[id].stay, bookings[id].price)

\* While a booking waits to be written, each of its nights costs what every
\* season it read over that night says, and no season it read asks for more
\* nights than it has.
SeasonsDecideThePrice ==
    \A w \in Workers : BookAt(w, "write") =>
        \A line \in jobs[w].price.lines, o \in jobs[w].seen.overrides :
            o.room = line.room /\ Covers(o, line.date) =>
                /\ line.roomCharge = o.nightlyRate
                /\ jobs[w].stay.checkOut - jobs[w].stay.checkIn >= o.minStayNights

\* If no price was edited between the form's first read and the server's last,
\* the guest is charged what the host was shown: the two call sites of quote()
\* cannot drift.
ShownIsCharged ==
    \A w \in Workers : BookAt(w, "write") /\ jobs[w].undisturbed =>
        jobs[w].price.total = jobs[w].shown
=============================================================================
