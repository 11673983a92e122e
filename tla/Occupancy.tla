----------------------------- MODULE Occupancy -----------------------------
(***************************************************************************)
(* One property's rooms, bookings and room_stays, and everything in the    *)
(* API that writes them: BookingsService, AvailabilityService, the parts   *)
(* of RoomsService that decide whether a room may be slept in, and the     *)
(* bookings queue's sweep of expired holds.                                *)
(*                                                                         *)
(* A handler is a job that moves one step at each await on the database.   *)
(* A single Prisma write, nested write or $transaction is one step: it     *)
(* commits whole or not at all.  Between two steps of one handler every    *)
(* other handler, the sweep and the clock may move, which is what makes    *)
(* the values a job remembers stale.                                       *)
(***************************************************************************)
EXTENDS BookingLifecycle, Integers, FiniteSets

CONSTANTS Rooms,        \* room ids this property may ever have
          BookingIds,   \* ids of bookings
          BlockIds,     \* ids of closures: one per createBlocks call
          Workers,      \* handlers that may be in flight at once
          Sweepers,     \* bookings-queue workers, one per API process
          Ranges,       \* the stay ranges requests ask for
          Buyouts,      \* the values of isWholeProperty requests carry
          HoldHours,    \* properties.hold_expiry_hours
          MaxTime       \* the clock stops here: a bound for TLC

\* createBookingSchema and createBlockSchema accept only ranges that cover a
\* night; properties_hold_expiry_is_positive keeps the hold time above zero.
ASSUME RangesAssumption ==
    Ranges \subseteq {range \in [checkIn : Nat, checkOut : Nat] :
                          range.checkIn < range.checkOut}
ASSUME BuyoutsAssumption == Buyouts \subseteq BOOLEAN
ASSUME HoldAssumption == HoldHours \in Nat \ {0} /\ MaxTime \in Nat
ASSUME IdsAssumption == BookingIds \cap BlockIds = {}

VARIABLES rooms,      \* [Rooms -> "none" | "active" | "inactive" | "deleted"]
          bookings,   \* the bookings table: its DOMAIN is the ids in use
          stays,      \* the room_stays table: a set of rows
          jobs,       \* [Workers -> a handler in flight, or Idle]
          sweeps,     \* [Sweepers -> ids its findMany returned, not yet done]
          now         \* the clock, in hours

vars == <<rooms, bookings, stays, jobs, sweeps, now>>

-----------------------------------------------------------------------------
(* Rows.                                                                   *)

Never == -1     \* bookings.expires_at IS NULL

RoomStates == {"none", "active", "inactive", "deleted"}
Reasons    == {"none", "host", "expired"}       \* cancellation_reason

BookingRow == [rooms : SUBSET Rooms, checkIn : Nat, checkOut : Nat,
               isWholeProperty : BOOLEAN, status : Statuses,
               expiresAt : Nat \cup {Never}, reason : Reasons]

\* A stay's key is its owner and its room: one row per room of a booking
\* (owner is booking_id), one row per room of a closure.
StayRow == [room : Rooms, owner : BookingIds \cup BlockIds,
            kind : {"BOOKING", "BLOCK"}, checkIn : Nat, checkOut : Nat,
            occupies : BOOLEAN]

Exists(room)    == rooms[room] \in {"active", "inactive"}
InService       == {room \in Rooms : rooms[room] = "active"}
StaysOf(b)      == {s \in stays : s.kind = "BOOKING" /\ s.owner = b}

Idle == [op |-> "idle"]
CreateJob == [op : {"create"}, step : {"count", "check", "write"},
              rooms : SUBSET Rooms, range : Ranges, whole : BOOLEAN,
              status : {"PENDING", "CONFIRMED"}]
BlockJob  == [op : {"block"}, step : {"check", "write"},
              rooms : SUBSET Rooms, range : Ranges]
StatusJob == [op : {"status"}, booking : BookingIds, to : Statuses]
RemoveJob == [op : {"remove"}, room : Rooms]
Jobs      == {Idle} \cup CreateJob \cup BlockJob \cup StatusJob \cup RemoveJob

NewStay(room, owner, kind, range) ==
    [room |-> room, owner |-> owner, kind |-> kind, checkIn |-> range.checkIn,
     checkOut |-> range.checkOut, occupies |-> TRUE]

-----------------------------------------------------------------------------
(* What the database refuses.                                              *)

\* Half-open ranges overlap when each starts before the other ends.
Overlap(p, q) == p.checkIn < q.checkOut /\ q.checkIn < p.checkOut

\* Mutant of Excluded: the constraint's predicate is kind, not occupies.
ExcludedByKind(s, t) ==
    /\ s.kind = "BOOKING" /\ t.kind = "BOOKING"
    /\ s.room = t.room /\ Overlap(s, t)

\* The two rows room_stays_no_overlap will not hold together.
Excluded(s, t) ==
    s.occupies /\ t.occupies /\ s.room = t.room /\ Overlap(s, t)

\* The constraint tests each written row against the rest of the table.
Fits(written, table) ==
    \A s \in written : \A t \in table \cup written : s # t => ~Excluded(s, t)

\* Mutant of RoomsExist: the foreign key is missing.
AnyRooms(picked) == TRUE

\* room_stays_room_id_property_id_fkey: a stay's room is a row of rooms.
RoomsExist(picked) == \A room \in picked : Exists(room)

-----------------------------------------------------------------------------
Init ==
    /\ rooms \in [Rooms -> {"none", "active"}]
    /\ bookings = [b \in {} |-> {}]
    /\ stays = {}
    /\ jobs = [w \in Workers |-> Idle]
    /\ sweeps = [p \in Sweepers |-> {}]
    /\ now = 0

Begin(w, job) == jobs[w] = Idle /\ jobs' = [jobs EXCEPT ![w] = job]
Advance(w, step) == jobs' = [jobs EXCEPT ![w].step = step]
Finish(w) == jobs' = [jobs EXCEPT ![w] = Idle]
At(w, ops, step) == jobs[w].op \in ops /\ jobs[w].step = step

-----------------------------------------------------------------------------
(* BookingsService.create.                                                 *)

\* The first read: every named room is there and in service.  A request that
\* names a missing or inactive room is answered here and changes nothing.
CreateRead(w) ==
    /\ \E picked \in (SUBSET InService) \ {{}}, range \in Ranges,
          whole \in Buyouts, status \in {"PENDING", "CONFIRMED"} :
          Begin(w, [op |-> "create", step |-> IF whole THEN "count" ELSE "check",
                    rooms |-> picked, range |-> range, whole |-> whole,
                    status |-> status])
    /\ UNCHANGED <<rooms, bookings, stays, sweeps, now>>

\* A buyout counts the rooms in service, in a second read.
CreateCount(w) ==
    /\ At(w, {"create"}, "count")
    /\ IF Cardinality(InService) = Cardinality(jobs[w].rooms)
       THEN Advance(w, "check")
       ELSE Finish(w)
    /\ UNCHANGED <<rooms, bookings, stays, sweeps, now>>

\* Over capacity, no rate for a night, or short of a minimum stay: decided from
\* the rates and the party, which this module leaves out, so either may happen.
CreateRefused(w) ==
    /\ At(w, {"create"}, "check")
    /\ Finish(w)
    /\ UNCHANGED <<rooms, bookings, stays, sweeps, now>>

\* The rows assertRoomsAreFree finds in the way.
Clashing(picked, range) ==
    {s \in stays : s.room \in picked /\ s.occupies /\ Overlap(s, range)}

\* assertRoomsAreFree, as create and createBlocks call it before they write.
CheckRoomsAreFree(w) ==
    /\ At(w, {"create", "block"}, "check")
    /\ IF Clashing(jobs[w].rooms, jobs[w].range) = {}
       THEN Advance(w, "write")
       ELSE Finish(w)
    /\ UNCHANGED <<rooms, bookings, stays, sweeps, now>>

NewBooking(job) ==
    [rooms |-> job.rooms, checkIn |-> job.range.checkIn,
     checkOut |-> job.range.checkOut, isWholeProperty |-> job.whole,
     status |-> job.status, reason |-> "none",
     expiresAt |-> IF job.status = "PENDING" THEN now + HoldHours ELSE Never]

\* One nested write: the booking, its line items and a stay for every room.
CreateWrite(w) ==
    /\ At(w, {"create"}, "write")
    /\ RoomsExist(jobs[w].rooms)
    /\ \E b \in BookingIds \ DOMAIN bookings :
          LET written == {NewStay(room, b, "BOOKING", jobs[w].range) :
                              room \in jobs[w].rooms}
          IN  /\ Fits(written, stays)
              /\ stays' = stays \cup written
              /\ bookings' = [x \in DOMAIN bookings \cup {b} |->
                                 IF x = b THEN NewBooking(jobs[w])
                                          ELSE bookings[x]]
    /\ Finish(w)
    /\ UNCHANGED <<rooms, sweeps, now>>

-----------------------------------------------------------------------------
(* AvailabilityService.createBlocks and removeBlock.                       *)

\* The rooms are there; unlike a booking's, they may be out of service.
BlockRead(w) ==
    /\ \E picked \in (SUBSET {room \in Rooms : Exists(room)}) \ {{}},
          range \in Ranges :
          Begin(w, [op |-> "block", step |-> "check", rooms |-> picked,
                    range |-> range])
    /\ UNCHANGED <<rooms, bookings, stays, sweeps, now>>

\* One transaction for the whole closure, one row per room.
BlockWrite(w) ==
    /\ At(w, {"block"}, "write")
    /\ RoomsExist(jobs[w].rooms)
    /\ \E k \in BlockIds :
          LET written == {NewStay(room, k, "BLOCK", jobs[w].range) :
                              room \in jobs[w].rooms}
          IN  /\ \A s \in stays : s.owner # k
              /\ Fits(written, stays)
              /\ stays' = stays \cup written
    /\ Finish(w)
    /\ UNCHANGED <<rooms, bookings, sweeps, now>>

\* Mutant of Removable: removeBlock does not ask for the kind.
AnyStay(s) == TRUE

\* removeBlock's where clause: never the row of a booking.
Removable(s) == s.kind = "BLOCK"

RemoveBlock ==
    /\ \E s \in stays : Removable(s) /\ stays' = stays \ {s}
    /\ UNCHANGED <<rooms, bookings, jobs, sweeps, now>>

-----------------------------------------------------------------------------
(* BookingsService.changeStatus.                                           *)

\* The graph is consulted on the status this read returns ...
StatusRead(w) ==
    /\ \E b \in DOMAIN bookings, to \in Statuses :
          /\ CanTransition(bookings[b].status, to)
          /\ Begin(w, [op |-> "status", booking |-> b, to |-> to])
    /\ UNCHANGED <<rooms, bookings, stays, sweeps, now>>

\* Mutant of Moved: confirming a hold leaves its expiry behind.
MovedWithExpiry(row, to) ==
    [row EXCEPT !.status = to,
                !.reason = IF to \in {"CANCELLED", "NO_SHOW"} THEN "host" ELSE @]

Moved(row, to) ==
    [row EXCEPT !.status = to,
                !.expiresAt = IF to = "PENDING" THEN @ ELSE Never,
                !.reason = IF to \in {"CANCELLED", "NO_SHOW"} THEN "host" ELSE @]

Updated(s, occupies) == [s EXCEPT !.occupies = occupies]

\* Mutants of WithOccupies: the stays are left as they were, deleted when they
\* stop holding their rooms, or only one of them is updated.
UntouchedStays(b, occupies) == StaysOf(b)

DeletedStays(b, occupies) == IF occupies THEN StaysOf(b) ELSE {}

OneStayUpdated(b, occupies) ==
    LET one == CHOOSE s \in StaysOf(b) : TRUE
    IN  (StaysOf(b) \ {one}) \cup {Updated(one, occupies)}

\* stays.updateMany: every stay of the booking, and no other row.
WithOccupies(b, occupies) ==
    {Updated(s, occupies) : s \in StaysOf(b)}

\* ... and the write, by id alone, moves whatever the booking has become.  A
\* booking that consumes its rooms again is tested against the whole table.
StatusWrite(w) ==
    /\ jobs[w].op = "status"
    /\ LET b == jobs[w].booking
           written == WithOccupies(b, OccupiesRooms(jobs[w].to))
       IN  /\ Fits(written, stays \ StaysOf(b))
           /\ stays' = (stays \ StaysOf(b)) \cup written
           /\ bookings' = [bookings EXCEPT ![b] = Moved(@, jobs[w].to)]
    /\ Finish(w)
    /\ UNCHANGED <<rooms, sweeps, now>>

\* A write the database turns down leaves nothing: the exclusion constraint or
\* a foreign key refuses it, it loses a deadlock, or the connection drops.
WriteFails(w) ==
    /\ jobs[w].op \in {"status", "remove"} \/ At(w, {"create", "block"}, "write")
    /\ Finish(w)
    /\ UNCHANGED <<rooms, bookings, stays, sweeps, now>>

-----------------------------------------------------------------------------
(* BookingsService.releaseExpiredHolds, run by BookingsProcessor.          *)

Expired(b) == bookings[b].status = "PENDING" /\ bookings[b].expiresAt <= now

\* Mutant of SweepFind: the comparison with the clock is the wrong way round.
SweepFindUnexpired(p) ==
    /\ sweeps[p] = {}
    /\ sweeps' = [sweeps EXCEPT ![p] =
                     {b \in DOMAIN bookings : /\ bookings[b].status = "PENDING"
                                              /\ bookings[b].expiresAt > now}]
    /\ UNCHANGED <<rooms, bookings, stays, jobs, now>>

SweepFind(p) ==
    /\ sweeps[p] = {}
    /\ sweeps' = [sweeps EXCEPT ![p] = {b \in DOMAIN bookings : Expired(b)}]
    /\ UNCHANGED <<rooms, bookings, stays, jobs, now>>

\* Mutant of StillPending: the write trusts the list the sweep read.
Listed(b) == TRUE

\* The where clause of the sweep's write, re-evaluated as it commits.
StillPending(b) == bookings[b].status = "PENDING"

\* Mutant of Released: a status the enum does not have.
ReleasedAsExpired(row) ==
    [row EXCEPT !.status = "EXPIRED", !.reason = "expired", !.expiresAt = Never]

Released(row) ==
    [row EXCEPT !.status = "CANCELLED", !.reason = "expired",
                !.expiresAt = Never]

\* One guarded transaction per booking, in whatever order findMany returned.
SweepRelease(p, b) ==
    /\ b \in sweeps[p]
    /\ IF StillPending(b)
       THEN /\ bookings' = [bookings EXCEPT ![b] = Released(@)]
            /\ stays' = (stays \ StaysOf(b)) \cup WithOccupies(b, FALSE)
       ELSE UNCHANGED <<bookings, stays>>
    /\ sweeps' = [sweeps EXCEPT ![p] = @ \ {b}]
    /\ UNCHANGED <<rooms, jobs, now>>

\* The loop stops halfway: a transaction throws, and the job is retried or the
\* scheduler's next one starts over.
SweepFails(p) ==
    /\ sweeps' = [sweeps EXCEPT ![p] = {}]
    /\ UNCHANGED <<rooms, bookings, stays, jobs, now>>

-----------------------------------------------------------------------------
(* RoomsService: the operations that change what may be slept in.          *)

RoomCreate(room) ==
    /\ rooms[room] = "none"
    /\ rooms' = [rooms EXCEPT ![room] = "active"]
    /\ UNCHANGED <<bookings, stays, jobs, sweeps, now>>

\* isActive rides along with the edit, and nothing else about the room is asked.
RoomUpdate(room) ==
    /\ Exists(room)
    /\ \E state \in {"active", "inactive"} :
          rooms' = [rooms EXCEPT ![room] = state]
    /\ UNCHANGED <<bookings, stays, jobs, sweeps, now>>

\* remove first counts the stays of bookings, whatever their status ...
RoomRemoveCheck(w) ==
    /\ \E room \in Rooms :
          /\ Exists(room)
          /\ ~\E s \in stays : s.room = room /\ s.kind = "BOOKING"
          /\ Begin(w, [op |-> "remove", room |-> room])
    /\ UNCHANGED <<rooms, bookings, stays, sweeps, now>>

BlocksIn(room) == {s \in stays : s.room = room /\ s.kind = "BLOCK"}

\* ON DELETE RESTRICT, for room_stays and booking_line_items alike.
Unreferenced(room) ==
    /\ \A s \in stays \ BlocksIn(room) : s.room # room
    /\ \A b \in DOMAIN bookings : room \notin bookings[b].rooms

\* ... then deletes its blocks and the row, if nothing refers to it any more.
RoomRemoveWrite(w) ==
    /\ jobs[w].op = "remove"
    /\ LET room == jobs[w].room
       IN  /\ Exists(room)
           /\ Unreferenced(room)
           /\ stays' = stays \ BlocksIn(room)
           /\ rooms' = [rooms EXCEPT ![room] = "deleted"]
    /\ Finish(w)
    /\ UNCHANGED <<bookings, sweeps, now>>

-----------------------------------------------------------------------------
(* The environment.                                                        *)

\* The process dies with every handler and sweep it was running.
Crash ==
    /\ jobs' = [w \in Workers |-> Idle]
    /\ sweeps' = [p \in Sweepers |-> {}]
    /\ UNCHANGED <<rooms, bookings, stays, now>>

Tick ==
    /\ now < MaxTime
    /\ now' = now + 1
    /\ UNCHANGED <<rooms, bookings, stays, jobs, sweeps>>

Handler(w) ==
    \/ CreateRead(w) \/ CreateCount(w) \/ CreateRefused(w)
    \/ CheckRoomsAreFree(w) \/ CreateWrite(w)
    \/ BlockRead(w) \/ BlockWrite(w)
    \/ StatusRead(w) \/ StatusWrite(w)
    \/ RoomRemoveCheck(w) \/ RoomRemoveWrite(w)
    \/ WriteFails(w)

Sweep(p) ==
    \/ SweepFind(p)
    \/ \E b \in BookingIds : SweepRelease(p, b)
    \/ SweepFails(p)

Next ==
    \/ \E w \in Workers : Handler(w)
    \/ \E p \in Sweepers : Sweep(p)
    \/ RemoveBlock
    \/ \E room \in Rooms : RoomCreate(room) \/ RoomUpdate(room)
    \/ Crash
    \/ Tick

Spec == Init /\ [][Next]_vars

\* The scheduler starts a sweep every five minutes for ever (BookingsModule
\* upserts it on every boot).  A run that always died before the same booking's
\* turn would never release it, and BullMQ's retries do not exclude that:
\* strong fairness assumes the failures are not that regular.
FairSpec ==
    /\ Spec
    /\ \A p \in Sweepers :
          /\ WF_vars(SweepFind(p))
          /\ \A b \in BookingIds : SF_vars(SweepRelease(p, b))

-----------------------------------------------------------------------------
(* What makes it correct.                                                  *)

\* Every table row, every handler's memory and the clock has its shape.
TypeOK ==
    /\ rooms \in [Rooms -> RoomStates]
    /\ DOMAIN bookings \subseteq BookingIds
    /\ bookings \in [DOMAIN bookings -> BookingRow]
    /\ stays \subseteq StayRow
    /\ jobs \in [Workers -> Jobs]
    /\ sweeps \in [Sweepers -> SUBSET DOMAIN bookings]
    /\ now \in Nat

Nights == UNION {range.checkIn .. range.checkOut - 1 : range \in Ranges}

\* The stay consumes its room on this night.
Holds(s, night) ==
    s.occupies /\ s.checkIn <= night /\ night < s.checkOut

\* The guarantee of room_stays_no_overlap: whatever order handlers, sweeps and
\* status changes commit in, no room is sold or closed twice for one night.
NoDoubleBooking ==
    \A s, t \in stays :
        s # t /\ s.room = t.room =>
            \A night \in Nights : ~(Holds(s, night) /\ Holds(t, night))

\* RoomStay.occupies mirrors the booking's status, so cancelling gives every
\* night back and nothing else does; a closure always holds its rooms.
OccupancyFollowsStatus ==
    \A s \in stays :
        s.occupies <=> \/ s.kind = "BLOCK"
                       \/ OccupiesRooms(bookings[s.owner].status)

\* No stay without a booking to explain it, and no booking holding anything but
\* the rooms it was priced for, all of them, for its own dates.
BookingHoldsItsRooms ==
    /\ \A s \in stays : s.kind = "BOOKING" => s.owner \in DOMAIN bookings
    /\ \A b \in DOMAIN bookings :
          /\ {s.room : s \in StaysOf(b)} = bookings[b].rooms
          /\ bookings[b].rooms # {}
          /\ \A s \in StaysOf(b) : /\ s.checkIn = bookings[b].checkIn
                                   /\ s.checkOut = bookings[b].checkOut

\* A hold always has a time at which the sweep may release it, and nothing else
\* has one: a confirmed booking carrying an expiry would be released.
OnlyAHoldExpires ==
    \A b \in DOMAIN bookings :
        bookings[b].status = "PENDING" <=> bookings[b].expiresAt # Never

\* A room is deleted only while nothing refers to it, although the handler
\* counted its bookings a step earlier.
StaysHaveARoom == \A s \in stays : Exists(s.room)

\* The sweep cancels nothing but holds whose time is up: a booking the host
\* confirmed between the sweep's read and its write keeps its rooms.
SweepTakesOnlyExpiredHolds ==
    [][\A b \in DOMAIN bookings :
           bookings'[b].reason = "expired" /\ bookings[b].reason # "expired"
               => Expired(b)]_vars

\* What was agreed is never rewritten: no step drops a booking, its rooms, its
\* dates, or one of the stays that record that someone slept there.
HistorySurvives ==
    [][\A b \in DOMAIN bookings :
           /\ b \in DOMAIN bookings'
           /\ bookings'[b].rooms = bookings[b].rooms
           /\ {[room |-> s.room, checkIn |-> s.checkIn, checkOut |-> s.checkOut] :
                  s \in StaysOf(b)}
              = {[room |-> s.room, checkIn |-> s.checkIn, checkOut |-> s.checkOut] :
                  s \in {t \in stays' : t.kind = "BOOKING" /\ t.owner = b}}]_vars

\* A hold that outlives its window is given back, whatever fails on the way.
ExpiredHoldsAreReleased ==
    \A b \in BookingIds :
        (b \in DOMAIN bookings /\ Expired(b))
            ~> (b \in DOMAIN bookings /\ bookings[b].status # "PENDING")
=============================================================================
