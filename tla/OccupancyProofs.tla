-------------------------- MODULE OccupancyProofs --------------------------
(***************************************************************************)
(* Occupancy's safety, and that it implements NightLedger, for every set   *)
(* of rooms, bookings, closures, handlers, sweeps and ranges.              *)
(***************************************************************************)
EXTENDS OccupancyLedger, TLAPS

-----------------------------------------------------------------------------
(* The rows a write produces.                                              *)

\* A new stay is a row, and names what it was made from.
LEMMA NewStayRow ==
    ASSUME NEW room \in Rooms, NEW owner \in BookingIds \cup BlockIds,
           NEW kind \in {"BOOKING", "BLOCK"}, NEW range \in Ranges
    PROVE  LET s == NewStay(room, owner, kind, range)
           IN  /\ s \in StayRow
               /\ s.room = room /\ s.owner = owner /\ s.kind = kind
               /\ s.occupies = TRUE
               /\ s.checkIn = range.checkIn /\ s.checkOut = range.checkOut
  BY RangesAssumption DEF NewStay, StayRow

\* One new stay for each room named.
LEMMA NewStaysType ==
    ASSUME NEW picked \in SUBSET Rooms, NEW owner \in BookingIds \cup BlockIds,
           NEW kind \in {"BOOKING", "BLOCK"}, NEW range \in Ranges
    PROVE  {NewStay(room, owner, kind, range) : room \in picked} \subseteq StayRow
  <1> SUFFICES ASSUME NEW room \in picked
               PROVE  NewStay(room, owner, kind, range) \in StayRow
    OBVIOUS
  <1> QED BY NewStayRow

\* stays.updateMany changes occupies and nothing else of a stay.
LEMMA UpdatedStayRow ==
    ASSUME NEW s \in StayRow, NEW occupies \in BOOLEAN
    PROVE  LET t == Updated(s, occupies)
           IN  /\ t \in StayRow
               /\ t.room = s.room /\ t.owner = s.owner /\ t.kind = s.kind
               /\ t.checkIn = s.checkIn /\ t.checkOut = s.checkOut
               /\ t.occupies = occupies
  BY DEF StayRow, Updated

\* The two writes that move a booking leave a row of the same rooms and dates,
\* with an expiry exactly while it is a hold.
LEMMA MovedRow ==
    ASSUME NEW row \in BookingRow, NEW to \in Statuses
    PROVE  /\ Moved(row, to) \in BookingRow
           /\ Moved(row, to).rooms = row.rooms
           /\ Moved(row, to).checkIn = row.checkIn
           /\ Moved(row, to).checkOut = row.checkOut
           /\ Moved(row, to).status = to
           /\ Moved(row, to).expiresAt =
                 IF to = "PENDING" THEN row.expiresAt ELSE Never
  BY DEF Moved, BookingRow, Reasons, Never

LEMMA ReleasedRow ==
    ASSUME NEW row \in BookingRow
    PROVE  /\ Released(row) \in BookingRow
           /\ Released(row).rooms = row.rooms
           /\ Released(row).checkIn = row.checkIn
           /\ Released(row).checkOut = row.checkOut
           /\ Released(row).status = "CANCELLED"
           /\ Released(row).expiresAt = Never
  BY DEF Released, BookingRow, Reasons, Statuses, Never

-----------------------------------------------------------------------------
(* Typing.                                                                 *)

\* What a handler remembers is what its kind of handler remembers.
LEMMA JobTypes ==
    ASSUME TypeOK, NEW w \in Workers
    PROVE  /\ jobs[w] \in Jobs
           /\ \A step : At(w, {"create"}, step) => jobs[w] \in CreateJob
           /\ \A step : At(w, {"block"}, step) => jobs[w] \in BlockJob
           /\ \A step : At(w, {"create", "block"}, step)
                            => jobs[w] \in CreateJob \cup BlockJob
           /\ jobs[w].op = "status" => jobs[w] \in StatusJob
           /\ jobs[w].op = "remove" => jobs[w] \in RemoveJob
  BY DEF TypeOK, At, Jobs, Idle, CreateJob, BlockJob, StatusJob, RemoveJob

\* Starting and finishing a handler keeps the jobs well formed.
LEMMA JobsKeepType ==
    ASSUME TypeOK, NEW w \in Workers
    PROVE  /\ Finish(w) => jobs' \in [Workers -> Jobs]
           /\ \A job \in Jobs : Begin(w, job) => jobs' \in [Workers -> Jobs]
  BY DEF TypeOK, Finish, Begin, Jobs

\* The stays a status change or the sweep leaves are rows again.
LEMMA UpdatedStaysType ==
    ASSUME TypeOK, NEW b, NEW occupies \in BOOLEAN
    PROVE  WithOccupies(b, occupies) \subseteq StayRow
  BY UpdatedStayRow DEF TypeOK, WithOccupies, StaysOf

\* Every reachable state is well typed, and the sweep and the status changes in
\* flight only ever name bookings that exist.
THEOREM Typing == Spec => []TypeOK
<1>1. Init => TypeOK
  BY DEF Init, TypeOK, RoomStates, Jobs
<1>2. TypeOK /\ [Next]_vars => TypeOK'
  <2> SUFFICES ASSUME TypeOK, [Next]_vars PROVE TypeOK'
    OBVIOUS
  <2>1. ASSUME NEW w \in Workers, Handler(w) PROVE TypeOK'
    <3>1. CASE CreateRead(w)
      <4>1. PICK picked \in (SUBSET InService) \ {{}}, range \in Ranges,
                 whole \in Buyouts, status \in {"PENDING", "CONFIRMED"} :
              Begin(w, [op |-> "create",
                        step |-> IF whole THEN "count" ELSE "check",
                        rooms |-> picked, range |-> range, whole |-> whole,
                        status |-> status])
        BY <3>1 DEF CreateRead
      <4>2. [op |-> "create", step |-> IF whole THEN "count" ELSE "check",
             rooms |-> picked, range |-> range, whole |-> whole,
             status |-> status] \in Jobs
        BY BuyoutsAssumption DEF Jobs, CreateJob, InService
      <4>3. jobs' \in [Workers -> Jobs]
        BY <4>1, <4>2, JobsKeepType
      <4> QED BY <3>1, <4>3 DEF CreateRead, TypeOK
    <3>2. CASE CreateCount(w)
      <4>1. jobs[w] \in CreateJob
        BY <3>2, JobTypes DEF CreateCount
      <4>2. [jobs[w] EXCEPT !.step = "check"] \in Jobs
        BY <4>1 DEF CreateJob, Jobs
      <4>3. jobs' \in [Workers -> Jobs]
        BY <3>2, <4>2, JobsKeepType DEF CreateCount, Advance, TypeOK
      <4> QED BY <3>2, <4>3 DEF CreateCount, TypeOK
    <3>3. CASE CreateRefused(w)
      BY <3>3, JobsKeepType DEF CreateRefused, TypeOK
    <3>4. CASE CheckRoomsAreFree(w)
      <4>1. jobs[w] \in CreateJob \cup BlockJob
        BY <3>4, JobTypes DEF CheckRoomsAreFree
      <4>2. [jobs[w] EXCEPT !.step = "write"] \in Jobs
        BY <4>1 DEF CreateJob, BlockJob, Jobs
      <4>3. jobs' \in [Workers -> Jobs]
        BY <3>4, <4>2, JobsKeepType DEF CheckRoomsAreFree, Advance, TypeOK
      <4> QED BY <3>4, <4>3 DEF CheckRoomsAreFree, TypeOK
    <3>5. CASE CreateWrite(w)
      <4>1. jobs[w] \in CreateJob
        BY <3>5, JobTypes DEF CreateWrite
      <4>2. PICK b \in BookingIds \ DOMAIN bookings :
              /\ stays' = stays \cup {NewStay(room, b, "BOOKING", jobs[w].range) :
                                          room \in jobs[w].rooms}
              /\ bookings' = [x \in DOMAIN bookings \cup {b} |->
                                 IF x = b THEN NewBooking(jobs[w])
                                          ELSE bookings[x]]
        BY <3>5 DEF CreateWrite
      <4>3. NewBooking(jobs[w]) \in BookingRow
        BY <4>1, RangesAssumption, HoldAssumption
           DEF NewBooking, BookingRow, CreateJob, Reasons, Statuses, Never, TypeOK
      <4>4. stays' \subseteq StayRow
        <5>1. jobs[w].rooms \in SUBSET Rooms /\ jobs[w].range \in Ranges
          BY <4>1 DEF CreateJob
        <5>2. {NewStay(room, b, "BOOKING", jobs[w].range) : room \in jobs[w].rooms}
                 \subseteq StayRow
          BY <5>1, NewStaysType
        <5> QED BY <4>2, <5>2 DEF TypeOK
      <4>5. /\ bookings' \in [DOMAIN bookings' -> BookingRow]
            /\ DOMAIN bookings' \subseteq BookingIds
            /\ DOMAIN bookings \subseteq DOMAIN bookings'
        BY <4>2, <4>3 DEF TypeOK
      <4>6. jobs' \in [Workers -> Jobs]
        BY <3>5, JobsKeepType DEF CreateWrite
      <4>7. sweeps' \in [Sweepers -> SUBSET DOMAIN bookings']
        BY <3>5, <4>5 DEF CreateWrite, TypeOK
      <4> QED BY <3>5, <4>4, <4>5, <4>6, <4>7 DEF CreateWrite, TypeOK
    <3>6. CASE BlockRead(w)
      <4>1. PICK picked \in SUBSET Rooms, range \in Ranges :
              Begin(w, [op |-> "block", step |-> "check", rooms |-> picked,
                        range |-> range])
        BY <3>6 DEF BlockRead
      <4>2. [op |-> "block", step |-> "check", rooms |-> picked,
             range |-> range] \in Jobs
        BY DEF Jobs, BlockJob
      <4>3. jobs' \in [Workers -> Jobs]
        BY <4>1, <4>2, JobsKeepType
      <4> QED BY <3>6, <4>3 DEF BlockRead, TypeOK
    <3>7. CASE BlockWrite(w)
      <4>1. jobs[w] \in BlockJob
        BY <3>7, JobTypes DEF BlockWrite
      <4>2. PICK k \in BlockIds :
              stays' = stays \cup {NewStay(room, k, "BLOCK", jobs[w].range) :
                                       room \in jobs[w].rooms}
        BY <3>7 DEF BlockWrite
      <4>3. stays' \subseteq StayRow
        <5>1. jobs[w].rooms \in SUBSET Rooms /\ jobs[w].range \in Ranges
          BY <4>1 DEF BlockJob
        <5>2. {NewStay(room, k, "BLOCK", jobs[w].range) : room \in jobs[w].rooms}
                 \subseteq StayRow
          BY <5>1, NewStaysType
        <5> QED BY <4>2, <5>2 DEF TypeOK
      <4>4. jobs' \in [Workers -> Jobs]
        BY <3>7, JobsKeepType DEF BlockWrite
      <4> QED BY <3>7, <4>3, <4>4 DEF BlockWrite, TypeOK
    <3>8. CASE StatusRead(w)
      <4>1. PICK b \in DOMAIN bookings, to \in Statuses :
              Begin(w, [op |-> "status", booking |-> b, to |-> to])
        BY <3>8 DEF StatusRead
      <4>2. [op |-> "status", booking |-> b, to |-> to] \in Jobs
        BY DEF Jobs, StatusJob, TypeOK
      <4>3. jobs' \in [Workers -> Jobs]
        BY <4>1, <4>2, JobsKeepType
      <4> QED BY <3>8, <4>3 DEF StatusRead, TypeOK
    <3>9. CASE StatusWrite(w)
      <4> DEFINE b == jobs[w].booking
                 to == jobs[w].to
      <4>1. b \in BookingIds /\ to \in Statuses
        BY <3>9, JobTypes DEF StatusWrite, StatusJob
      <4>2. stays' = (stays \ StaysOf(b)) \cup WithOccupies(b, OccupiesRooms(to))
        BY <3>9 DEF StatusWrite
      <4>3. stays' \subseteq StayRow
        <5>1. OccupiesRooms(to) \in BOOLEAN
          BY DEF OccupiesRooms
        <5>2. WithOccupies(b, OccupiesRooms(to)) \subseteq StayRow
          BY <5>1, UpdatedStaysType
        <5> QED BY <4>2, <5>2 DEF TypeOK
      <4>4. bookings' = [bookings EXCEPT ![b] = Moved(@, to)]
        BY <3>9 DEF StatusWrite
      <4>5. /\ bookings' \in [DOMAIN bookings -> BookingRow]
            /\ DOMAIN bookings' = DOMAIN bookings
        BY <4>1, <4>4, MovedRow DEF TypeOK
      <4>6. jobs' \in [Workers -> Jobs]
        BY <3>9, JobsKeepType DEF StatusWrite
      <4> QED BY <3>9, <4>3, <4>5, <4>6 DEF StatusWrite, TypeOK
    <3>10. CASE RoomRemoveCheck(w)
      <4>1. PICK room \in Rooms : Begin(w, [op |-> "remove", room |-> room])
        BY <3>10 DEF RoomRemoveCheck
      <4>2. [op |-> "remove", room |-> room] \in Jobs
        BY DEF Jobs, RemoveJob
      <4>3. jobs' \in [Workers -> Jobs]
        BY <4>1, <4>2, JobsKeepType
      <4> QED BY <3>10, <4>3 DEF RoomRemoveCheck, TypeOK
    <3>11. CASE RoomRemoveWrite(w)
      BY <3>11, JobsKeepType DEF RoomRemoveWrite, TypeOK, RoomStates
    <3>12. CASE WriteFails(w)
      BY <3>12, JobsKeepType DEF WriteFails, TypeOK
    <3> QED
      BY <2>1, <3>1, <3>2, <3>3, <3>4, <3>5, <3>6, <3>7, <3>8, <3>9, <3>10,
         <3>11, <3>12 DEF Handler
  <2>2. ASSUME NEW p \in Sweepers, Sweep(p) PROVE TypeOK'
    <3>1. CASE SweepFind(p)
      BY <3>1 DEF SweepFind, TypeOK
    <3>2. ASSUME NEW b \in BookingIds, SweepRelease(p, b) PROVE TypeOK'
      <4>1. CASE StillPending(b)
        <5>1. /\ bookings' = [bookings EXCEPT ![b] = Released(@)]
              /\ stays' = (stays \ StaysOf(b)) \cup WithOccupies(b, FALSE)
          BY <3>2, <4>1 DEF SweepRelease
        <5>2. stays' \subseteq StayRow
          BY <5>1, UpdatedStaysType DEF TypeOK
        <5>3. /\ bookings' \in [DOMAIN bookings -> BookingRow]
              /\ DOMAIN bookings' = DOMAIN bookings
          BY <5>1, ReleasedRow DEF TypeOK
        <5> QED BY <3>2, <5>2, <5>3 DEF SweepRelease, TypeOK
      <4>2. CASE ~StillPending(b)
        BY <3>2, <4>2 DEF SweepRelease, TypeOK
      <4> QED BY <4>1, <4>2
    <3>3. CASE SweepFails(p)
      BY <3>3 DEF SweepFails, TypeOK
    <3> QED BY <2>2, <3>1, <3>2, <3>3 DEF Sweep
  <2>3. CASE RemoveBlock
    BY <2>3 DEF RemoveBlock, TypeOK
  <2>4. ASSUME NEW room \in Rooms, RoomCreate(room) \/ RoomUpdate(room)
        PROVE  TypeOK'
    BY <2>4 DEF RoomCreate, RoomUpdate, TypeOK, RoomStates
  <2>5. CASE Crash
    BY <2>5 DEF Crash, TypeOK, Jobs
  <2>6. CASE Tick
    BY <2>6 DEF Tick, TypeOK
  <2>7. CASE UNCHANGED vars
    BY <2>7 DEF vars, TypeOK
  <2> QED BY <2>1, <2>2, <2>3, <2>4, <2>5, <2>6, <2>7 DEF Next
<1> QED BY <1>1, <1>2, PTL DEF Spec

-----------------------------------------------------------------------------
(* Safety.  The exclusion constraint speaks of rows, so the invariant does  *)
(* too; a status change in flight remembers a booking that exists and never *)
(* moves one back to a hold; and a booking in flight names some room.       *)

NoExcludedStays == \A s, t \in stays : s # t => ~Excluded(s, t)

JobsRemember ==
    \A w \in Workers :
        /\ jobs[w].op \in {"create", "block"} => jobs[w].rooms # {}
        /\ jobs[w].op = "status" => /\ jobs[w].booking \in DOMAIN bookings
                                    /\ jobs[w].to # "PENDING"

TablesInv ==
    /\ NoExcludedStays
    /\ OccupancyFollowsStatus
    /\ BookingHoldsItsRooms
    /\ OnlyAHoldExpires
    /\ StaysHaveARoom

IInv == TypeOK /\ TablesInv /\ JobsRemember

\* Rows that fit a table without excluded rows leave it without them.
LEMMA FitKeepsExclusion ==
    ASSUME NEW table, NEW written, Fits(written, table),
           \A s, t \in table : s # t => ~Excluded(s, t)
    PROVE  \A s, t \in table \cup written : s # t => ~Excluded(s, t)
  BY DEF Fits, Excluded, Overlap

\* stays.updateMany, seen from the rows it updates.
LEMMA UpdatedStays ==
    ASSUME TypeOK, NEW b, NEW occupies \in BOOLEAN
    PROVE  \A r \in StaysOf(b) :
              LET s == Updated(r, occupies)
              IN  /\ r \in stays
                  /\ s.room = r.room /\ s.owner = b /\ s.kind = "BOOKING"
                  /\ s.checkIn = r.checkIn /\ s.checkOut = r.checkOut
                  /\ s.occupies = occupies
  <1> SUFFICES ASSUME NEW r \in StaysOf(b)
               PROVE  LET s == Updated(r, occupies)
                      IN  /\ r \in stays
                          /\ s.room = r.room /\ s.owner = b /\ s.kind = "BOOKING"
                          /\ s.checkIn = r.checkIn /\ s.checkOut = r.checkOut
                          /\ s.occupies = occupies
    OBVIOUS
  <1>1. r \in StayRow /\ r \in stays /\ r.owner = b /\ r.kind = "BOOKING"
    BY DEF TypeOK, StaysOf
  <1> QED BY <1>1, UpdatedStayRow

\* Which stays a booking has after stays.updateMany.
LEMMA StaysAfterUpdate ==
    ASSUME TypeOK, NEW b, NEW occupies \in BOOLEAN,
           stays' = (stays \ StaysOf(b)) \cup WithOccupies(b, occupies)
    PROVE  /\ StaysOf(b)' = WithOccupies(b, occupies)
           /\ \A c : c # b => StaysOf(c)' = StaysOf(c)
           /\ \A s \in stays' :
                 \/ s \in stays /\ s \notin StaysOf(b)
                 \/ \E r \in StaysOf(b) :
                       s = Updated(r, occupies)
  <1>1. \A s \in WithOccupies(b, occupies) : s.kind = "BOOKING" /\ s.owner = b
    BY UpdatedStays DEF WithOccupies
  <1>2. \A s \in stays \ StaysOf(b) : ~(s.kind = "BOOKING" /\ s.owner = b)
    BY DEF StaysOf
  <1>3. StaysOf(b)' = WithOccupies(b, occupies)
    BY <1>1, <1>2 DEF StaysOf
  <1>4. ASSUME NEW c, c # b PROVE StaysOf(c)' = StaysOf(c)
    BY <1>1, <1>4 DEF StaysOf
  <1> QED BY <1>3, <1>4 DEF WithOccupies

\* Moving a booking to another status, its stays following in the same write.
LEMMA UpdateKeepsTables ==
    ASSUME TypeOK, TablesInv, NEW b \in DOMAIN bookings, NEW row \in BookingRow,
           row.rooms = bookings[b].rooms,
           row.checkIn = bookings[b].checkIn,
           row.checkOut = bookings[b].checkOut,
           row.status = "PENDING" <=> row.expiresAt # Never,
           bookings' = [bookings EXCEPT ![b] = row],
           stays' = (stays \ StaysOf(b))
                       \cup WithOccupies(b, OccupiesRooms(row.status)),
           Fits(WithOccupies(b, OccupiesRooms(row.status)), stays \ StaysOf(b)),
           UNCHANGED rooms
    PROVE  TablesInv'
  <1> DEFINE occupies == OccupiesRooms(row.status)
  <1>1. occupies \in BOOLEAN
    BY DEF OccupiesRooms
  <1>2. /\ StaysOf(b)' = WithOccupies(b, occupies)
        /\ \A c : c # b => StaysOf(c)' = StaysOf(c)
        /\ \A s \in stays' :
              \/ s \in stays /\ s \notin StaysOf(b)
              \/ \E r \in StaysOf(b) : s = Updated(r, occupies)
    BY <1>1, StaysAfterUpdate
  <1>3. /\ DOMAIN bookings' = DOMAIN bookings
        /\ bookings'[b] = row
        /\ \A c \in DOMAIN bookings : c # b => bookings'[c] = bookings[c]
    BY DEF TypeOK
  <1>4. \A r \in StaysOf(b) :
           LET s == Updated(r, occupies)
           IN  /\ r \in stays
               /\ s.room = r.room /\ s.owner = b /\ s.kind = "BOOKING"
               /\ s.checkIn = r.checkIn /\ s.checkOut = r.checkOut
               /\ s.occupies = occupies
    BY <1>1, UpdatedStays
  <1>5. NoExcludedStays'
    <2>1. \A s, t \in stays \ StaysOf(b) : s # t => ~Excluded(s, t)
      BY DEF TablesInv, NoExcludedStays
    <2>2. \A s, t \in stays' : s # t => ~Excluded(s, t)
      BY <2>1, FitKeepsExclusion
    <2> QED BY <2>2 DEF NoExcludedStays, Excluded, Overlap
  <1>6. OccupancyFollowsStatus'
    <2> SUFFICES ASSUME NEW s \in stays'
                 PROVE  s.occupies <=> \/ s.kind = "BLOCK"
                                       \/ OccupiesRooms(bookings'[s.owner].status)
      BY DEF OccupancyFollowsStatus, OccupiesRooms
    <2>1. CASE s \in stays /\ s \notin StaysOf(b)
      <3>1. s.kind \in {"BOOKING", "BLOCK"}
        BY <2>1 DEF TypeOK, StayRow
      <3>2. s.kind = "BOOKING" => s.owner \in DOMAIN bookings /\ s.owner # b
        BY <2>1 DEF TablesInv, BookingHoldsItsRooms, StaysOf
      <3> QED
        BY <2>1, <3>1, <3>2, <1>3 DEF TablesInv, OccupancyFollowsStatus
    <2>2. CASE \E r \in StaysOf(b) : s = Updated(r, occupies)
      BY <2>2, <1>3, <1>4
    <2> QED BY <1>2, <2>1, <2>2
  <1>7. BookingHoldsItsRooms'
    <2>1. ASSUME NEW s \in stays', s.kind = "BOOKING"
          PROVE  s.owner \in DOMAIN bookings'
      <3>1. CASE s \in stays
        BY <2>1, <3>1, <1>3 DEF TablesInv, BookingHoldsItsRooms
      <3>2. CASE \E r \in StaysOf(b) : s = Updated(r, occupies)
        BY <3>2, <1>3, <1>4
      <3> QED BY <1>2, <3>1, <3>2
    <2>2. ASSUME NEW c \in DOMAIN bookings, c # b
          PROVE  /\ {s.room : s \in StaysOf(c)'} = bookings'[c].rooms
                 /\ bookings'[c].rooms # {}
                 /\ \A s \in StaysOf(c)' : /\ s.checkIn = bookings'[c].checkIn
                                           /\ s.checkOut = bookings'[c].checkOut
      BY <2>2, <1>2, <1>3 DEF TablesInv, BookingHoldsItsRooms
    <2>3. /\ {s.room : s \in StaysOf(b)} = row.rooms
          /\ row.rooms # {}
          /\ \A s \in StaysOf(b) : /\ s.checkIn = row.checkIn
                                   /\ s.checkOut = row.checkOut
      BY DEF TablesInv, BookingHoldsItsRooms
    <2>4. {s.room : s \in WithOccupies(b, occupies)} = {r.room : r \in StaysOf(b)}
      <3>1. \A r \in StaysOf(b) : Updated(r, occupies).room = r.room
        BY <1>4
      <3> QED BY <3>1 DEF WithOccupies
    <2>5. \A s \in WithOccupies(b, occupies) : /\ s.checkIn = row.checkIn
                                               /\ s.checkOut = row.checkOut
      BY <1>4, <2>3 DEF WithOccupies
    <2>6. /\ {s.room : s \in StaysOf(b)'} = bookings'[b].rooms
          /\ bookings'[b].rooms # {}
          /\ \A s \in StaysOf(b)' : /\ s.checkIn = bookings'[b].checkIn
                                    /\ s.checkOut = bookings'[b].checkOut
      BY <1>2, <1>3, <2>3, <2>4, <2>5
    <2> QED BY <1>3, <2>1, <2>2, <2>6 DEF BookingHoldsItsRooms
  <1>8. OnlyAHoldExpires'
    BY <1>3 DEF TablesInv, OnlyAHoldExpires
  <1>9. StaysHaveARoom'
    <2> SUFFICES ASSUME NEW s \in stays'
                 PROVE  \E r \in stays : s.room = r.room
      BY DEF TablesInv, StaysHaveARoom, Exists
    <2>1. CASE \E r \in StaysOf(b) : s = Updated(r, occupies)
      BY <2>1, <1>4
    <2> QED BY <1>2, <2>1
  <1> QED BY <1>5, <1>6, <1>7, <1>8, <1>9 DEF TablesInv

\* A row that does not consume its room fits anywhere.
LEMMA ReleasedStaysFit ==
    ASSUME TypeOK, NEW b, NEW table PROVE Fits(WithOccupies(b, FALSE), table)
  <1>1. \A r \in StaysOf(b) : r \in StayRow
    BY DEF TypeOK, StaysOf
  <1>2. \A r \in StaysOf(b) : Updated(r, FALSE).occupies = FALSE
    BY <1>1, UpdatedStayRow
  <1>3. \A s \in WithOccupies(b, FALSE) : s.occupies = FALSE
    BY <1>2 DEF WithOccupies
  <1> QED BY <1>3 DEF Fits, Excluded

\* Rows of bookings and blocks that only their kind tells apart: taking blocks
\* away, or putting blocks that fit beside the rest, touches no booking.
LEMMA BlocksLeaveBookingsAlone ==
    ASSUME TypeOK, TablesInv, UNCHANGED bookings,
           \A s \in stays' : s \in stays \/ (s.kind = "BLOCK" /\ s.occupies = TRUE),
           \A s \in stays : s \in stays' \/ s.kind = "BLOCK",
           NoExcludedStays', StaysHaveARoom'
    PROVE  TablesInv'
  <1>1. ASSUME NEW b PROVE StaysOf(b)' = StaysOf(b)
    BY DEF StaysOf
  <1>2. OccupancyFollowsStatus'
    BY DEF TablesInv, OccupancyFollowsStatus, OccupiesRooms
  <1>3. BookingHoldsItsRooms'
    <2>1. \A s \in stays' : s.kind = "BOOKING" => s.owner \in DOMAIN bookings
      BY DEF TablesInv, BookingHoldsItsRooms
    <2> QED BY <1>1, <2>1 DEF TablesInv, BookingHoldsItsRooms
  <1>4. OnlyAHoldExpires'
    BY DEF TablesInv, OnlyAHoldExpires
  <1> QED BY <1>2, <1>3, <1>4 DEF TablesInv

LEMMA CreateWriteKeepsTables ==
    ASSUME TypeOK, TablesInv, JobsRemember, NEW w \in Workers, CreateWrite(w)
    PROVE  TablesInv'
  <1> DEFINE job == jobs[w]
  <1>1. job \in CreateJob /\ job.rooms # {} /\ RoomsExist(job.rooms)
    BY JobTypes DEF CreateWrite, JobsRemember, At
  <1>2. PICK b \in BookingIds \ DOMAIN bookings :
           /\ Fits({NewStay(room, b, "BOOKING", job.range) : room \in job.rooms},
                   stays)
           /\ stays' = stays \cup {NewStay(room, b, "BOOKING", job.range) :
                                       room \in job.rooms}
           /\ bookings' = [x \in DOMAIN bookings \cup {b} |->
                              IF x = b THEN NewBooking(job) ELSE bookings[x]]
    BY DEF CreateWrite
  <1> DEFINE written == {NewStay(room, b, "BOOKING", job.range) : room \in job.rooms}
  <1>3. job.rooms \in SUBSET Rooms /\ job.range \in Ranges
    BY <1>1 DEF CreateJob
  <1>4. \A room \in job.rooms :
           LET s == NewStay(room, b, "BOOKING", job.range)
           IN  /\ s.room = room /\ s.owner = b /\ s.kind = "BOOKING"
               /\ s.occupies = TRUE
               /\ s.checkIn = job.range.checkIn /\ s.checkOut = job.range.checkOut
    BY DEF NewStay
  <1>5. /\ DOMAIN bookings' = DOMAIN bookings \cup {b}
        /\ bookings'[b] = NewBooking(job)
        /\ \A c \in DOMAIN bookings : bookings'[c] = bookings[c]
    BY <1>2
  <1>6. /\ NewBooking(job).rooms = job.rooms
        /\ NewBooking(job).checkIn = job.range.checkIn
        /\ NewBooking(job).checkOut = job.range.checkOut
        /\ NewBooking(job).status \in {"PENDING", "CONFIRMED"}
        /\ NewBooking(job).status = "PENDING" <=> NewBooking(job).expiresAt # Never
    BY <1>1, HoldAssumption DEF NewBooking, CreateJob, Never, TypeOK
  <1>7. \A s \in stays : s.kind = "BOOKING" => s.owner \in DOMAIN bookings
    BY DEF TablesInv, BookingHoldsItsRooms
  <1>8. /\ StaysOf(b)' = written
        /\ \A c \in DOMAIN bookings : StaysOf(c)' = StaysOf(c)
    BY <1>2, <1>4, <1>7 DEF StaysOf
  <1>9. NoExcludedStays'
    <2>1. \A s, t \in stays' : s # t => ~Excluded(s, t)
      BY <1>2, FitKeepsExclusion DEF TablesInv, NoExcludedStays
    <2> QED BY <2>1 DEF NoExcludedStays, Excluded, Overlap
  <1>10. OccupancyFollowsStatus'
    <2> SUFFICES ASSUME NEW s \in stays'
                 PROVE  s.occupies <=> \/ s.kind = "BLOCK"
                                       \/ OccupiesRooms(bookings'[s.owner].status)
      BY DEF OccupancyFollowsStatus, OccupiesRooms
    <2>1. CASE s \in stays
      <3>1. s.kind \in {"BOOKING", "BLOCK"}
        BY <2>1 DEF TypeOK, StayRow
      <3> QED
        BY <2>1, <3>1, <1>5, <1>7 DEF TablesInv, OccupancyFollowsStatus
    <2>2. CASE s \in written
      BY <2>2, <1>4, <1>5, <1>6 DEF OccupiesRooms, Occupying
    <2> QED BY <1>2, <2>1, <2>2
  <1>11. BookingHoldsItsRooms'
    <2>1. \A s \in stays' : s.kind = "BOOKING" => s.owner \in DOMAIN bookings'
      BY <1>2, <1>4, <1>5, <1>7
    <2>2. \A c \in DOMAIN bookings :
             /\ {s.room : s \in StaysOf(c)'} = bookings'[c].rooms
             /\ bookings'[c].rooms # {}
             /\ \A s \in StaysOf(c)' : /\ s.checkIn = bookings'[c].checkIn
                                       /\ s.checkOut = bookings'[c].checkOut
      BY <1>5, <1>8 DEF TablesInv, BookingHoldsItsRooms
    <2>3. {s.room : s \in written} = job.rooms
      BY <1>4
    <2>4. /\ {s.room : s \in StaysOf(b)'} = bookings'[b].rooms
          /\ bookings'[b].rooms # {}
          /\ \A s \in StaysOf(b)' : /\ s.checkIn = bookings'[b].checkIn
                                    /\ s.checkOut = bookings'[b].checkOut
      BY <1>1, <1>4, <1>5, <1>6, <1>8, <2>3
    <2> QED BY <1>5, <2>1, <2>2, <2>4 DEF BookingHoldsItsRooms
  <1>12. OnlyAHoldExpires'
    BY <1>5, <1>6 DEF TablesInv, OnlyAHoldExpires
  <1>13. StaysHaveARoom'
    BY <1>1, <1>2, <1>4
       DEF CreateWrite, TablesInv, StaysHaveARoom, RoomsExist, Exists
  <1> QED BY <1>9, <1>10, <1>11, <1>12, <1>13 DEF TablesInv

LEMMA BlockWriteKeepsTables ==
    ASSUME TypeOK, TablesInv, NEW w \in Workers, BlockWrite(w)
    PROVE  TablesInv'
  <1> DEFINE job == jobs[w]
  <1>1. job.rooms \in SUBSET Rooms /\ job.range \in Ranges /\ RoomsExist(job.rooms)
    BY JobTypes DEF BlockWrite, BlockJob
  <1>2. PICK k \in BlockIds :
           /\ Fits({NewStay(room, k, "BLOCK", job.range) : room \in job.rooms},
                   stays)
           /\ stays' = stays \cup {NewStay(room, k, "BLOCK", job.range) :
                                       room \in job.rooms}
    BY DEF BlockWrite
  <1>3. \A room \in job.rooms :
           LET s == NewStay(room, k, "BLOCK", job.range)
           IN  s.room = room /\ s.kind = "BLOCK" /\ s.occupies = TRUE
    BY DEF NewStay
  <1>4. NoExcludedStays'
    <2>1. \A s, t \in stays' : s # t => ~Excluded(s, t)
      BY <1>2, FitKeepsExclusion DEF TablesInv, NoExcludedStays
    <2> QED BY <2>1 DEF NoExcludedStays, Excluded, Overlap
  <1>5. StaysHaveARoom'
    BY <1>1, <1>2, <1>3
       DEF BlockWrite, TablesInv, StaysHaveARoom, RoomsExist, Exists
  <1>6. /\ \A s \in stays' : s \in stays \/ (s.kind = "BLOCK" /\ s.occupies = TRUE)
        /\ \A s \in stays : s \in stays' \/ s.kind = "BLOCK"
    BY <1>2, <1>3
  <1> QED BY <1>4, <1>5, <1>6, BlocksLeaveBookingsAlone DEF BlockWrite

\* What handlers remember stays true until they use it: bookings are never
\* deleted, so nothing another handler does can make it false.
LEMMA StepKeepsMemory ==
    ASSUME TypeOK, JobsRemember, [Next]_vars, TypeOK' PROVE JobsRemember'
  <1>1. ASSUME NEW w \in Workers, jobs' = [jobs EXCEPT ![w] = Idle],
               DOMAIN bookings \subseteq DOMAIN bookings'
        PROVE  JobsRemember'
    BY <1>1 DEF TypeOK, JobsRemember, Idle
  <1>2. ASSUME NEW w \in Workers, NEW job, Begin(w, job), UNCHANGED bookings,
               /\ job.op \in {"create", "block"} => job.rooms # {}
               /\ job.op = "status" => /\ job.booking \in DOMAIN bookings
                                       /\ job.to # "PENDING"
        PROVE  JobsRemember'
    BY <1>2 DEF TypeOK, JobsRemember, Begin
  <1>3. ASSUME NEW w \in Workers, NEW step, Advance(w, step),
               jobs[w] \in CreateJob \cup BlockJob, UNCHANGED bookings
        PROVE  JobsRemember'
    <2>1. LET job == [jobs[w] EXCEPT !.step = step]
          IN  job.op = jobs[w].op /\ job.rooms = jobs[w].rooms
      BY <1>3 DEF CreateJob, BlockJob
    <2>2. jobs[w].op \in {"create", "block"}
      BY <1>3 DEF CreateJob, BlockJob
    <2> QED BY <1>3, <2>1, <2>2 DEF TypeOK, JobsRemember, Advance
  <1>4. ASSUME UNCHANGED jobs, DOMAIN bookings \subseteq DOMAIN bookings'
        PROVE  JobsRemember'
    BY <1>4 DEF JobsRemember
  <1>5. ASSUME NEW w \in Workers, Handler(w) PROVE JobsRemember'
    <2>1. CASE CreateRead(w)
      <3>1. PICK picked \in (SUBSET InService) \ {{}}, range \in Ranges,
                 whole \in Buyouts, status \in {"PENDING", "CONFIRMED"} :
              Begin(w, [op |-> "create",
                        step |-> IF whole THEN "count" ELSE "check",
                        rooms |-> picked, range |-> range, whole |-> whole,
                        status |-> status])
        BY <2>1 DEF CreateRead
      <3> DEFINE job == [op |-> "create",
                         step |-> IF whole THEN "count" ELSE "check",
                         rooms |-> picked, range |-> range, whole |-> whole,
                         status |-> status]
      <3>2. job.op = "create" /\ job.rooms # {}
        OBVIOUS
      <3>3. Begin(w, job) /\ UNCHANGED bookings
        BY <2>1, <3>1 DEF CreateRead
      <3> HIDE DEF job
      <3> QED BY <3>2, <3>3, <1>2
    <2>2. CASE CreateCount(w)
      BY <2>2, <1>1, <1>3, JobTypes DEF CreateCount, Finish
    <2>3. CASE CreateRefused(w)
      BY <2>3, <1>1 DEF CreateRefused, Finish
    <2>4. CASE CheckRoomsAreFree(w)
      BY <2>4, <1>1, <1>3, JobTypes DEF CheckRoomsAreFree, Finish
    <2>5. CASE CreateWrite(w)
      BY <2>5, <1>1 DEF CreateWrite, Finish
    <2>6. CASE BlockRead(w)
      <3>1. PICK picked \in (SUBSET Rooms) \ {{}}, range \in Ranges :
              Begin(w, [op |-> "block", step |-> "check", rooms |-> picked,
                        range |-> range])
        BY <2>6 DEF BlockRead
      <3> DEFINE job == [op |-> "block", step |-> "check", rooms |-> picked,
                         range |-> range]
      <3>2. job.op = "block" /\ job.rooms # {}
        OBVIOUS
      <3>3. Begin(w, job) /\ UNCHANGED bookings
        BY <2>6, <3>1 DEF BlockRead
      <3> HIDE DEF job
      <3> QED BY <3>2, <3>3, <1>2
    <2>7. CASE BlockWrite(w)
      BY <2>7, <1>1 DEF BlockWrite, Finish
    <2>8. CASE StatusRead(w)
      <3>1. PICK b \in DOMAIN bookings, to \in Statuses :
              /\ CanTransition(bookings[b].status, to)
              /\ Begin(w, [op |-> "status", booking |-> b, to |-> to])
        BY <2>8 DEF StatusRead
      <3>2. bookings[b].status \in Statuses
        BY DEF TypeOK, BookingRow
      <3>3. to # "PENDING"
        BY <3>1, <3>2 DEF CanTransition, Transitions, Statuses
      <3> QED BY <2>8, <3>1, <3>3, <1>2 DEF StatusRead
    <2>9. CASE StatusWrite(w)
      BY <2>9, <1>1 DEF StatusWrite, Finish, TypeOK
    <2>10. CASE RoomRemoveCheck(w)
      BY <2>10, <1>2 DEF RoomRemoveCheck
    <2>11. CASE RoomRemoveWrite(w)
      BY <2>11, <1>1 DEF RoomRemoveWrite, Finish
    <2>12. CASE WriteFails(w)
      BY <2>12, <1>1 DEF WriteFails, Finish
    <2> QED
      BY <1>5, <2>1, <2>2, <2>3, <2>4, <2>5, <2>6, <2>7, <2>8, <2>9, <2>10,
         <2>11, <2>12 DEF Handler
  <1>6. ASSUME NEW p \in Sweepers, Sweep(p) PROVE JobsRemember'
    BY <1>6, <1>4 DEF Sweep, SweepFind, SweepRelease, SweepFails, TypeOK
  <1>7. CASE RemoveBlock \/ Tick \/ UNCHANGED vars
    BY <1>7, <1>4 DEF RemoveBlock, Tick, vars
  <1>8. ASSUME NEW room \in Rooms, RoomCreate(room) \/ RoomUpdate(room)
        PROVE  JobsRemember'
    BY <1>8, <1>4 DEF RoomCreate, RoomUpdate
  <1>9. CASE Crash
    BY <1>9 DEF Crash, JobsRemember, Idle
  <1> QED BY <1>5, <1>6, <1>7, <1>8, <1>9 DEF Next

\* Every step keeps the tables consistent.
LEMMA StepKeepsTables ==
    ASSUME IInv, [Next]_vars PROVE TablesInv'
  <1> USE DEF IInv
  <1>1. ASSUME UNCHANGED <<rooms, bookings, stays>> PROVE TablesInv'
    BY <1>1 DEF TablesInv, NoExcludedStays, Excluded, Overlap,
                OccupancyFollowsStatus, BookingHoldsItsRooms, StaysOf,
                OnlyAHoldExpires, StaysHaveARoom, Exists, OccupiesRooms
  <1>2. ASSUME NEW w \in Workers, StatusWrite(w) PROVE TablesInv'
    <2> DEFINE b == jobs[w].booking
               row == Moved(bookings[b], jobs[w].to)
    <2>1. /\ b \in DOMAIN bookings /\ jobs[w].to \in Statuses
          /\ jobs[w].to # "PENDING"
      BY <1>2, JobTypes DEF StatusWrite, StatusJob, JobsRemember
    <2>2. bookings[b] \in BookingRow
      BY <2>1 DEF TypeOK
    <2>3. /\ row \in BookingRow /\ row.rooms = bookings[b].rooms
          /\ row.checkIn = bookings[b].checkIn
          /\ row.checkOut = bookings[b].checkOut
          /\ row.status = jobs[w].to
          /\ row.expiresAt = Never
      BY <2>1, <2>2, MovedRow
    <2>4. /\ bookings' = [bookings EXCEPT ![b] = row]
          /\ stays' = (stays \ StaysOf(b))
                         \cup WithOccupies(b, OccupiesRooms(jobs[w].to))
          /\ Fits(WithOccupies(b, OccupiesRooms(jobs[w].to)), stays \ StaysOf(b))
          /\ UNCHANGED rooms
      BY <1>2, <2>1 DEF StatusWrite
    <2> HIDE DEF row
    <2> QED BY <2>1, <2>3, <2>4, UpdateKeepsTables
  <1>3. ASSUME NEW p \in Sweepers, NEW b \in BookingIds, SweepRelease(p, b)
        PROVE  TablesInv'
    <2>1. CASE StillPending(b)
      <3> DEFINE row == Released(bookings[b])
      <3>1. b \in DOMAIN bookings
        BY <1>3 DEF SweepRelease, TypeOK
      <3>2. bookings[b] \in BookingRow
        BY <3>1 DEF TypeOK
      <3>3. /\ row \in BookingRow /\ row.rooms = bookings[b].rooms
            /\ row.checkIn = bookings[b].checkIn
            /\ row.checkOut = bookings[b].checkOut
            /\ row.status = "CANCELLED" /\ row.expiresAt = Never
        BY <3>2, ReleasedRow
      <3>4. OccupiesRooms(row.status) = FALSE
        BY <3>3 DEF OccupiesRooms, Occupying
      <3>5. /\ bookings' = [bookings EXCEPT ![b] = row]
            /\ stays' = (stays \ StaysOf(b)) \cup WithOccupies(b, FALSE)
            /\ UNCHANGED rooms
        BY <1>3, <2>1 DEF SweepRelease
      <3>6. Fits(WithOccupies(b, FALSE), stays \ StaysOf(b))
        BY ReleasedStaysFit
      <3> HIDE DEF row
      <3> QED BY <3>1, <3>3, <3>4, <3>5, <3>6, UpdateKeepsTables
    <2>2. CASE ~StillPending(b)
      BY <1>1, <1>3, <2>2 DEF SweepRelease
    <2> QED BY <2>1, <2>2
  <1>4. ASSUME NEW w \in Workers, RoomRemoveWrite(w) PROVE TablesInv'
    <2>1. PICK room \in Rooms :
            /\ Unreferenced(room)
            /\ stays' = stays \ BlocksIn(room)
            /\ rooms' = [rooms EXCEPT ![room] = "deleted"]
      BY <1>4, JobTypes DEF RoomRemoveWrite, RemoveJob
    <2>2. StaysHaveARoom'
      BY <2>1 DEF TablesInv, StaysHaveARoom, Exists, Unreferenced, TypeOK
    <2>3. NoExcludedStays'
      BY <2>1 DEF TablesInv, NoExcludedStays, Excluded, Overlap
    <2>4. \A s \in stays : s \in stays' \/ s.kind = "BLOCK"
      BY <2>1 DEF BlocksIn
    <2> QED
      BY <1>4, <2>1, <2>2, <2>3, <2>4, BlocksLeaveBookingsAlone
         DEF RoomRemoveWrite
  <1>5. CASE RemoveBlock
    <2>1. PICK s \in stays : s.kind = "BLOCK" /\ stays' = stays \ {s}
      BY <1>5 DEF RemoveBlock, Removable
    <2>2. StaysHaveARoom' /\ NoExcludedStays'
      BY <1>5, <2>1 DEF RemoveBlock, TablesInv, StaysHaveARoom, Exists,
                        NoExcludedStays, Excluded, Overlap
    <2> QED BY <1>5, <2>1, <2>2, BlocksLeaveBookingsAlone DEF RemoveBlock
  <1>6. ASSUME NEW room \in Rooms, RoomCreate(room) \/ RoomUpdate(room)
        PROVE  TablesInv'
    <2>1. \A other \in Rooms : Exists(other) => Exists(other)'
      <3>1. CASE RoomCreate(room)
        BY <3>1 DEF RoomCreate, Exists, TypeOK
      <3>2. CASE RoomUpdate(room)
        BY <3>2 DEF RoomUpdate, Exists, TypeOK
      <3> QED BY <1>6, <3>1, <3>2
    <2>2. UNCHANGED <<bookings, stays>>
      BY <1>6 DEF RoomCreate, RoomUpdate
    <2>3. NoExcludedStays'
      BY <2>2 DEF TablesInv, NoExcludedStays, Excluded, Overlap
    <2>4. StaysHaveARoom'
      BY <2>1, <2>2 DEF TablesInv, StaysHaveARoom, TypeOK, StayRow
    <2> QED BY <2>2, <2>3, <2>4, BlocksLeaveBookingsAlone
  <1>7. ASSUME NEW w \in Workers, Handler(w) PROVE TablesInv'
    <2>1. CASE CreateWrite(w)
      BY <2>1, CreateWriteKeepsTables
    <2>2. CASE BlockWrite(w)
      BY <2>2, BlockWriteKeepsTables
    <2>3. CASE CreateRead(w) \/ CreateCount(w) \/ CreateRefused(w)
      BY <2>3, <1>1 DEF CreateRead, CreateCount, CreateRefused
    <2>4. CASE CheckRoomsAreFree(w) \/ BlockRead(w) \/ StatusRead(w)
      BY <2>4, <1>1 DEF CheckRoomsAreFree, BlockRead, StatusRead
    <2>5. CASE RoomRemoveCheck(w) \/ WriteFails(w)
      BY <2>5, <1>1 DEF RoomRemoveCheck, WriteFails
    <2> QED BY <1>7, <1>2, <1>4, <2>1, <2>2, <2>3, <2>4, <2>5 DEF Handler
  <1>8. ASSUME NEW p \in Sweepers, Sweep(p) PROVE TablesInv'
    BY <1>8, <1>1, <1>3 DEF Sweep, SweepFind, SweepFails
  <1>9. CASE Crash \/ Tick \/ UNCHANGED vars
    BY <1>9, <1>1 DEF Crash, Tick, vars
  <1> QED BY <1>5, <1>6, <1>7, <1>8, <1>9 DEF Next

\* The inductive invariant holds in every reachable state.
THEOREM Invariance == Spec => []IInv
<1>1. Init => TablesInv /\ JobsRemember
  BY DEF Init, TablesInv, NoExcludedStays, OccupancyFollowsStatus,
         BookingHoldsItsRooms, OnlyAHoldExpires, StaysHaveARoom, JobsRemember, Idle
<1>2. TablesInv /\ JobsRemember /\ TypeOK /\ TypeOK' /\ [Next]_vars
         => (TablesInv /\ JobsRemember)'
  BY StepKeepsMemory, StepKeepsTables DEF IInv
<1> QED BY <1>1, <1>2, Typing, PTL DEF Spec, IInv

\* No room is sold or closed twice for one night, however the handlers, the
\* sweep and crashes interleave: nights and half-open ranges agree.
THEOREM NoDoubleBookingEver == Spec => []NoDoubleBooking
<1>1. IInv => NoDoubleBooking
  <2> SUFFICES ASSUME IInv, NEW s \in stays, NEW t \in stays, s # t,
                      s.room = t.room, NEW night \in Nights,
                      Holds(s, night), Holds(t, night)
               PROVE  FALSE
    BY DEF NoDoubleBooking
  <2>1. night \in Int
    BY RangesAssumption DEF Nights
  <2>2. /\ s.checkIn \in Nat /\ s.checkOut \in Nat
        /\ t.checkIn \in Nat /\ t.checkOut \in Nat
    BY DEF IInv, TypeOK, StayRow
  <2>3. Overlap(s, t)
    BY <2>1, <2>2 DEF Holds, Overlap
  <2> QED BY <2>3 DEF IInv, TablesInv, NoExcludedStays, Excluded, Holds
<1> QED BY <1>1, Invariance, PTL

\* A stay consumes its room exactly while its booking's status says so.
THEOREM OccupancyFollows == Spec => []OccupancyFollowsStatus
<1>1. IInv => OccupancyFollowsStatus
  BY DEF IInv, TablesInv
<1> QED BY <1>1, Invariance, PTL

\* No stay without a booking, no booking without exactly its rooms, for its dates.
THEOREM BookingsHoldTheirRooms == Spec => []BookingHoldsItsRooms
<1>1. IInv => BookingHoldsItsRooms
  BY DEF IInv, TablesInv
<1> QED BY <1>1, Invariance, PTL

\* A booking carries an expiry exactly while it is a hold.
THEOREM OnlyHoldsExpire == Spec => []OnlyAHoldExpires
<1>1. IInv => OnlyAHoldExpires
  BY DEF IInv, TablesInv
<1> QED BY <1>1, Invariance, PTL

\* No room is ever deleted from under a stay.
THEOREM RoomsOutliveStays == Spec => []StaysHaveARoom
<1>1. IInv => StaysHaveARoom
  BY DEF IInv, TablesInv
<1> QED BY <1>1, Invariance, PTL

-----------------------------------------------------------------------------
(* What a step may never do.                                               *)

\* A sweep's list is never wrong about a booking that is still a hold.
SweepsRemember ==
    \A p \in Sweepers : \A b \in sweeps[p] : StillPending(b) => Expired(b)

LEMMA StepKeepsSweeps ==
    ASSUME IInv, SweepsRemember, [Next]_vars PROVE SweepsRemember'
  <1> USE DEF IInv
  <1>1. ASSUME sweeps' = sweeps,
               \A b \in DOMAIN bookings :
                  bookings'[b].status = "PENDING" =>
                      /\ bookings[b].status = "PENDING"
                      /\ bookings'[b].expiresAt = bookings[b].expiresAt,
               now' = now \/ now' = now + 1
        PROVE  SweepsRemember'
    <2> SUFFICES ASSUME NEW p \in Sweepers, NEW b \in sweeps[p],
                        bookings'[b].status = "PENDING"
                 PROVE  bookings'[b].expiresAt <= now'
      BY <1>1 DEF SweepsRemember, StillPending, Expired
    <2>1. /\ b \in DOMAIN bookings /\ bookings[b] \in BookingRow /\ now \in Nat
      BY DEF TypeOK
    <2>2. /\ bookings[b].status = "PENDING" /\ bookings'[b].expiresAt = bookings[b].expiresAt
      BY <1>1, <2>1
    <2>3. bookings[b].expiresAt <= now /\ bookings[b].expiresAt \in Int
      BY <2>1, <2>2 DEF SweepsRemember, StillPending, Expired, BookingRow, Never
    <2> QED
      BY <1>1, <2>1, <2>2, <2>3
  <1>2. ASSUME UNCHANGED <<bookings, sweeps>>, now' = now \/ now' = now + 1
        PROVE  SweepsRemember'
    BY <1>1, <1>2
  <1>3. ASSUME NEW w \in Workers, Handler(w) PROVE SweepsRemember'
    <2>1. CASE CreateWrite(w)
      <3>1. PICK c \in BookingIds \ DOMAIN bookings :
               bookings' = [x \in DOMAIN bookings \cup {c} |->
                               IF x = c THEN NewBooking(jobs[w]) ELSE bookings[x]]
        BY <2>1 DEF CreateWrite
      <3>2. \A b \in DOMAIN bookings : bookings'[b] = bookings[b]
        BY <3>1
      <3> QED
        BY <1>1, <2>1, <3>2 DEF CreateWrite
    <2>2. CASE StatusWrite(w)
      <3> DEFINE c == jobs[w].booking
      <3>1. c \in DOMAIN bookings /\ jobs[w].to \in Statuses /\ jobs[w].to # "PENDING"
        BY <2>2, JobTypes DEF StatusWrite, StatusJob, JobsRemember
      <3>2. bookings' = [bookings EXCEPT ![c] = Moved(bookings[c], jobs[w].to)]
        BY <2>2, <3>1 DEF StatusWrite
      <3>3. Moved(bookings[c], jobs[w].to).status = jobs[w].to
        BY <3>1, MovedRow DEF TypeOK
      <3> HIDE DEF c
      <3>4. \A b \in DOMAIN bookings :
               bookings'[b] = IF b = c THEN Moved(bookings[c], jobs[w].to) ELSE bookings[b]
        BY <3>1, <3>2
      <3> QED
        BY <1>1, <2>2, <3>1, <3>3, <3>4 DEF StatusWrite
    <2> QED
      BY <1>2, <1>3, <2>1, <2>2
         DEF Handler, CreateRead, CreateCount, CreateRefused, CheckRoomsAreFree, BlockRead,
             BlockWrite, StatusRead, RoomRemoveCheck, RoomRemoveWrite, WriteFails
  <1>4. ASSUME NEW p \in Sweepers, SweepFind(p) PROVE SweepsRemember'
    BY <1>4 DEF SweepFind, SweepsRemember, StillPending, Expired, TypeOK
  <1>5. ASSUME NEW p \in Sweepers, NEW c \in BookingIds, SweepRelease(p, c)
        PROVE  SweepsRemember'
    <2>1. c \in DOMAIN bookings /\ now' = now
      BY <1>5 DEF SweepRelease, TypeOK
    <2>2. \A q \in Sweepers : sweeps'[q] \subseteq sweeps[q]
      BY <1>5 DEF SweepRelease, TypeOK
    <2>3. Released(bookings[c]).status = "CANCELLED"
      BY <2>1, ReleasedRow DEF TypeOK
    <2>4. \A b \in DOMAIN bookings :
             bookings'[b] = bookings[b] \/ bookings'[b].status = "CANCELLED"
      BY <1>5, <2>1, <2>3 DEF SweepRelease, TypeOK
    <2>5. \A q \in Sweepers : sweeps[q] \subseteq DOMAIN bookings
      BY DEF TypeOK
    <2> QED
      BY <2>1, <2>2, <2>4, <2>5 DEF SweepsRemember, StillPending, Expired
  <1>6. ASSUME NEW p \in Sweepers, SweepFails(p) PROVE SweepsRemember'
    BY <1>6 DEF SweepFails, SweepsRemember, StillPending, Expired, TypeOK
  <1>7. CASE Crash
    BY <1>7 DEF Crash, SweepsRemember
  <1>8. CASE RemoveBlock \/ Tick \/ UNCHANGED vars
    BY <1>2, <1>8 DEF RemoveBlock, Tick, vars
  <1>9. ASSUME NEW room \in Rooms, RoomCreate(room) \/ RoomUpdate(room) PROVE SweepsRemember'
    BY <1>2, <1>9 DEF RoomCreate, RoomUpdate
  <1> QED
    BY <1>3, <1>4, <1>5, <1>6, <1>7, <1>8, <1>9 DEF Next, Sweep

\* A reason is given by a host's change, or by a sweep to a hold whose time is up.
LEMMA ExpiredByTheSweep ==
    ASSUME IInv, SweepsRemember, [Next]_vars, NEW b \in DOMAIN bookings,
           bookings'[b].reason = "expired", bookings[b].reason # "expired"
    PROVE  Expired(b)
  <1> USE DEF IInv
  <1>1. bookings' # bookings
    OBVIOUS
  <1>2. ASSUME NEW w \in Workers, Handler(w) PROVE FALSE
    <2>1. ~CreateWrite(w)
      <3> SUFFICES ASSUME CreateWrite(w) PROVE FALSE
        OBVIOUS
      <3>1. PICK c \in BookingIds \ DOMAIN bookings :
               bookings' = [x \in DOMAIN bookings \cup {c} |->
                               IF x = c THEN NewBooking(jobs[w]) ELSE bookings[x]]
        BY DEF CreateWrite
      <3> QED
        BY <3>1
    <2>2. ~StatusWrite(w)
      <3> SUFFICES ASSUME StatusWrite(w) PROVE FALSE
        OBVIOUS
      <3> DEFINE c == jobs[w].booking
      <3>1. bookings' = [bookings EXCEPT ![c] = Moved(bookings[c], jobs[w].to)]
        BY JobTypes DEF StatusWrite, JobsRemember
      <3>2. c = b
        BY <3>1 DEF TypeOK
      <3>3. bookings'[b] = Moved(bookings[b], jobs[w].to) /\ bookings[b] \in BookingRow
        BY <3>1, <3>2 DEF TypeOK
      <3>4. Moved(bookings[b], jobs[w].to).reason \in {"host", bookings[b].reason}
        BY <3>3 DEF Moved, BookingRow
      <3> QED
        BY <3>3, <3>4
    <2> QED
      BY <1>1, <1>2, <2>1, <2>2
         DEF Handler, CreateRead, CreateCount, CreateRefused, CheckRoomsAreFree, BlockRead,
             BlockWrite, StatusRead, RoomRemoveCheck, RoomRemoveWrite, WriteFails
  <1>3. ASSUME NEW p \in Sweepers, NEW c \in BookingIds, SweepRelease(p, c) PROVE Expired(b)
    <2>1. c = b /\ StillPending(c) /\ c \in sweeps[p]
      BY <1>1, <1>3 DEF SweepRelease, TypeOK
    <2> QED
      BY <2>1 DEF SweepsRemember
  <1> QED
    BY <1>1, <1>2, <1>3
       DEF Next, Sweep, SweepFind, SweepFails, Crash, RemoveBlock, Tick, vars, RoomCreate,
           RoomUpdate

\* The sweep cancels nothing but holds whose time is up, however old its list.
THEOREM OnlyExpiredHoldsAreTaken == Spec => SweepTakesOnlyExpiredHolds
<1>1. Init => SweepsRemember
  BY DEF Init, SweepsRemember
<1>2. IInv /\ SweepsRemember /\ [Next]_vars => SweepsRemember'
  BY StepKeepsSweeps
<1>3. IInv /\ SweepsRemember /\ [Next]_vars =>
        \A b \in DOMAIN bookings :
           bookings'[b].reason = "expired" /\ bookings[b].reason # "expired" => Expired(b)
  BY ExpiredByTheSweep
<1> QED
  BY <1>1, <1>2, <1>3, Invariance, PTL DEF Spec, SweepTakesOnlyExpiredHolds

\* What a stay records: that the room was agreed for these dates.
Recorded(table) ==
    {[room |-> s.room, checkIn |-> s.checkIn, checkOut |-> s.checkOut] : s \in table}

\* Moving a booking changes nothing its stays record.
LEMMA UpdateKeepsRecords ==
    ASSUME TypeOK, NEW b, NEW occupies \in BOOLEAN,
           stays' = (stays \ StaysOf(b)) \cup WithOccupies(b, occupies)
    PROVE  \A c : Recorded(StaysOf(c)') = Recorded(StaysOf(c))
  <1>1. /\ StaysOf(b)' = WithOccupies(b, occupies)
        /\ \A c : c # b => StaysOf(c)' = StaysOf(c)
    BY StaysAfterUpdate
  <1>2. \A r \in StaysOf(b) : LET s == Updated(r, occupies) IN
            s.room = r.room /\ s.checkIn = r.checkIn /\ s.checkOut = r.checkOut
    BY UpdatedStays
  <1>3. Recorded(WithOccupies(b, occupies)) = Recorded(StaysOf(b))
    BY <1>2 DEF Recorded, WithOccupies
  <1> QED
    BY <1>1, <1>3

\* What is still on record of a booking after a step.
LEMMA BookingsStayOnRecord ==
    ASSUME IInv, [Next]_vars, NEW b \in DOMAIN bookings
    PROVE  /\ b \in DOMAIN bookings' /\ bookings'[b].rooms = bookings[b].rooms
           /\ Recorded(StaysOf(b)') = Recorded(StaysOf(b))
  <1> USE DEF IInv
  <1> DEFINE Kept == /\ b \in DOMAIN bookings' /\ bookings'[b].rooms = bookings[b].rooms
                     /\ Recorded(StaysOf(b)') = Recorded(StaysOf(b))
  <1>1. ASSUME UNCHANGED bookings, \A s : s.kind = "BOOKING" => (s \in stays' <=> s \in stays)
        PROVE  Kept
    <2>1. StaysOf(b)' = StaysOf(b)
      BY <1>1 DEF StaysOf
    <2> QED
      BY <1>1, <2>1
  <1>2. ASSUME UNCHANGED <<bookings, stays>> PROVE Kept
    BY <1>1, <1>2
  <1>3. ASSUME NEW w \in Workers, CreateWrite(w) PROVE Kept
    <2>1. PICK c \in BookingIds \ DOMAIN bookings :
             /\ stays' = stays \cup {NewStay(room, c, "BOOKING", jobs[w].range) :
                                         room \in jobs[w].rooms}
             /\ bookings' = [x \in DOMAIN bookings \cup {c} |->
                                IF x = c THEN NewBooking(jobs[w]) ELSE bookings[x]]
      BY <1>3 DEF CreateWrite
    <2>2. \A s \in stays' : s \in stays \/ s.owner = c
      BY <2>1 DEF NewStay
    <2>3. StaysOf(b)' = StaysOf(b)
      BY <2>1, <2>2 DEF StaysOf
    <2>4. bookings'[b] = bookings[b] /\ b \in DOMAIN bookings'
      BY <2>1
    <2> QED
      BY <2>3, <2>4
  <1>4. ASSUME NEW w \in Workers, BlockWrite(w) PROVE Kept
    <2>1. PICK k \in BlockIds :
             stays' = stays \cup {NewStay(room, k, "BLOCK", jobs[w].range) :
                                      room \in jobs[w].rooms}
      BY <1>4 DEF BlockWrite
    <2>2. \A s \in stays' : s \in stays \/ s.kind = "BLOCK"
      BY <2>1 DEF NewStay
    <2>3. UNCHANGED bookings /\ \A s \in stays : s \in stays'
      BY <1>4, <2>1 DEF BlockWrite
    <2>4. \A s : s.kind = "BOOKING" => (s \in stays' <=> s \in stays)
      BY <2>2, <2>3
    <2> HIDE DEF Kept
    <2> QED
      BY <1>1, <2>3, <2>4
  <1>5. ASSUME NEW w \in Workers, StatusWrite(w) PROVE Kept
    <2> DEFINE c == jobs[w].booking
    <2>1. c \in DOMAIN bookings /\ jobs[w].to \in Statuses
      BY <1>5, JobTypes DEF StatusWrite, StatusJob, JobsRemember
    <2>2. bookings' = [bookings EXCEPT ![c] = Moved(bookings[c], jobs[w].to)]
      BY <1>5, <2>1 DEF StatusWrite
    <2>3. stays' = (stays \ StaysOf(c)) \cup WithOccupies(c, OccupiesRooms(jobs[w].to))
      BY <1>5 DEF StatusWrite
    <2>4. Moved(bookings[c], jobs[w].to).rooms = bookings[c].rooms
      BY <2>1, MovedRow DEF TypeOK
    <2>5. OccupiesRooms(jobs[w].to) \in BOOLEAN
      BY DEF OccupiesRooms
    <2> HIDE DEF c
    <2>6. Recorded(StaysOf(b)') = Recorded(StaysOf(b))
      BY <2>3, <2>5, UpdateKeepsRecords
    <2> QED
      BY <2>1, <2>2, <2>4, <2>6
  <1>6. ASSUME NEW p \in Sweepers, NEW c \in BookingIds, SweepRelease(p, c) PROVE Kept
    <2>1. CASE StillPending(c)
      <3>1. /\ c \in DOMAIN bookings /\ bookings' = [bookings EXCEPT ![c] = Released(bookings[c])]
            /\ stays' = (stays \ StaysOf(c)) \cup WithOccupies(c, FALSE)
        BY <1>6, <2>1 DEF SweepRelease, TypeOK
      <3>2. Released(bookings[c]).rooms = bookings[c].rooms
        BY <3>1, ReleasedRow DEF TypeOK
      <3>3. Recorded(StaysOf(b)') = Recorded(StaysOf(b))
        BY <3>1, UpdateKeepsRecords
      <3> QED
        BY <3>1, <3>2, <3>3
    <2>2. CASE ~StillPending(c)
      BY <1>2, <1>6, <2>2 DEF SweepRelease
    <2> QED
      BY <2>1, <2>2
  <1>7. ASSUME NEW w \in Workers, RoomRemoveWrite(w) PROVE Kept
    BY <1>1, <1>7 DEF RoomRemoveWrite, BlocksIn
  <1>8. ASSUME RemoveBlock PROVE Kept
    BY <1>1, <1>8 DEF RemoveBlock, Removable
  <1>9. ASSUME NEW w \in Workers, Handler(w) PROVE Kept
    BY <1>2, <1>3, <1>4, <1>5, <1>7, <1>9
       DEF Handler, CreateRead, CreateCount, CreateRefused, CheckRoomsAreFree, BlockRead,
           StatusRead, RoomRemoveCheck, WriteFails
  <1> HIDE DEF Kept
  <1>10. ASSUME NEW p \in Sweepers, Sweep(p) PROVE Kept
    BY <1>2, <1>6, <1>10 DEF Sweep, SweepFind, SweepFails
  <1>11. ASSUME NEW room \in Rooms, RoomCreate(room) \/ RoomUpdate(room) PROVE Kept
    BY <1>2, <1>11 DEF RoomCreate, RoomUpdate
  <1>12. ASSUME Crash \/ Tick \/ UNCHANGED vars PROVE Kept
    BY <1>2, <1>12 DEF Crash, Tick, vars
  <1>13. Kept
    BY <1>8, <1>9, <1>10, <1>11, <1>12 DEF Next
  <1> QED
    BY <1>13 DEF Kept

\* No step rewrites what was agreed: not a booking, its rooms, its dates or its stays.
THEOREM HistoryAlwaysSurvives == Spec => HistorySurvives
<1>1. IInv /\ [Next]_vars =>
        \A b \in DOMAIN bookings :
           /\ b \in DOMAIN bookings'
           /\ bookings'[b].rooms = bookings[b].rooms
           /\ {[room |-> s.room, checkIn |-> s.checkIn, checkOut |-> s.checkOut] :
                  s \in StaysOf(b)}
              = {[room |-> s.room, checkIn |-> s.checkIn, checkOut |-> s.checkOut] :
                  s \in {t \in stays' : t.kind = "BOOKING" /\ t.owner = b}}
  BY BookingsStayOnRecord DEF Recorded, StaysOf
<1> QED
  BY <1>1, Invariance, PTL DEF Spec, HistorySurvives

-----------------------------------------------------------------------------
(* The ledger of nights.                                                   *)

Cells == Rooms \X Nights

\* A table the exclusion constraint has kept.
Kept(table) == /\ table \subseteq StayRow
               /\ \A s, t \in table : s # t => ~Excluded(s, t)

HoldsCell(s, cell) == s.room = cell[1] /\ Holds(s, cell[2])

-----------------------------------------------------------------------------
(* Who holds a night.                                                      *)

LEMMA OneHolder ==
    ASSUME NEW table, Kept(table), NEW cell \in Cells,
           NEW s \in table, NEW t \in table, HoldsCell(s, cell), HoldsCell(t, cell)
    PROVE  s = t
<1>1. s \in StayRow /\ t \in StayRow
  BY DEF Kept
<1>2. cell[2] \in Int
  <2>1. cell[2] \in Nights
    BY DEF Cells
  <2> QED
    BY <2>1, RangesAssumption DEF Nights
<1>3. Excluded(s, t)
  BY <1>1, <1>2 DEF HoldsCell, Holds, Excluded, Overlap, StayRow
<1> QED
  BY <1>3 DEF Kept

LEMMA HolderIsTheOwner ==
    ASSUME NEW table, Kept(table), NEW cell \in Cells,
           NEW s \in table, HoldsCell(s, cell)
    PROVE  HolderIn(table, cell) = s.owner
<1>1. s \in HoldersIn(table, cell)
  BY DEF HoldersIn, HoldsCell
<1>2. HoldersIn(table, cell) = {s}
  BY <1>1, OneHolder DEF HoldersIn, HoldsCell
<1> QED
  BY <1>2 DEF HolderIn

LEMMA NobodyHolds ==
    ASSUME NEW table, NEW cell, \A s \in table : ~HoldsCell(s, cell)
    PROVE  HolderIn(table, cell) = Nobody
  BY DEF HolderIn, HoldersIn, HoldsCell

LEMMA SomebodyHolds ==
    ASSUME NEW table, NEW cell, HolderIn(table, cell) # Nobody
    PROVE  \E s \in table : HoldsCell(s, cell) /\ s.owner = HolderIn(table, cell)
  BY DEF HolderIn, HoldersIn, HoldsCell

\* Where the same rows hold a night before and after, its holder stays.
LEMMA SameHolder ==
    ASSUME NEW before, NEW after, NEW cell,
           \A s \in before : HoldsCell(s, cell) => s \in after,
           \A s \in after : HoldsCell(s, cell) => s \in before
    PROVE  HolderIn(after, cell) = HolderIn(before, cell)
<1>1. HoldersIn(after, cell) = HoldersIn(before, cell)
  BY DEF HoldersIn, HoldsCell
<1> QED
  BY <1>1 DEF HolderIn

LEMMA Given ==
    ASSUME NEW cells, NEW owner,
           \A cell \in Cells :
               HolderIn(stays', cell) = IF cell \in cells THEN owner ELSE HolderIn(stays, cell)
    PROVE  Ledger!Give(cells, owner)
  BY DEF Ledger!Give, Holder, Cells

LEMMA OwnersAreSomebody ==
    ASSUME NEW table, Kept(table), NEW s \in table
    PROVE  s.owner # Nobody
  BY NobodyAssumption DEF Kept, StayRow

-----------------------------------------------------------------------------
(* What a write does to the ledger.                                        *)

\* Rows of one owner come, or come to hold, the same nights of several rooms.
LEMMA RowsTake ==
    ASSUME Kept(stays), Kept(stays'), NEW owner \in BookingIds \cup BlockIds,
           NEW picked \in (SUBSET Rooms) \ {{}}, NEW range \in Ranges,
           \A s \in stays : s.owner = owner => ~s.occupies,
           \A s \in stays : s.owner # owner => s \in stays',
           \A s \in stays' : s.owner # owner => s \in stays,
           \A s \in stays' : s.owner = owner =>
               /\ s.occupies /\ s.room \in picked
               /\ s.checkIn = range.checkIn /\ s.checkOut = range.checkOut,
           \A room \in picked : \E s \in stays' : s.owner = owner /\ s.room = room
    PROVE  Ledger!Take(owner)
<1> DEFINE wanted == {night \in Nights : range.checkIn <= night /\ night < range.checkOut}
<1>1. wanted # {}
  <2>1. range.checkIn \in Nat /\ range.checkOut \in Nat /\ range.checkIn < range.checkOut
    BY RangesAssumption
  <2>2. range.checkIn \in range.checkIn .. range.checkOut - 1
    BY <2>1
  <2>3. range.checkIn \in Nights
    BY <2>2 DEF Nights
  <2> QED
    BY <2>1, <2>3
<1>2. ASSUME NEW cell \in picked \X wanted
      PROVE  /\ HolderIn(stays', cell) = owner
             /\ HolderIn(stays, cell) = Nobody
  <2>1. cell \in Cells /\ cell[1] \in picked /\ cell[2] \in wanted
    BY <1>2 DEF Cells
  <2>2. PICK s \in stays' : s.owner = owner /\ s.room = cell[1]
    BY <2>1
  <2>3. HoldsCell(s, cell)
    BY <2>1, <2>2 DEF HoldsCell, Holds
  <2>4. \A t \in stays : ~HoldsCell(t, cell)
    <3> SUFFICES ASSUME NEW t \in stays, HoldsCell(t, cell) PROVE FALSE
      OBVIOUS
    <3>1. t.owner # owner
      BY DEF HoldsCell, Holds
    <3> QED
      BY <2>1, <2>2, <2>3, <3>1, OneHolder
  <2> QED
    BY <2>1, <2>2, <2>3, <2>4, HolderIsTheOwner, NobodyHolds
<1>3. ASSUME NEW cell \in Cells, cell \notin picked \X wanted
      PROVE  HolderIn(stays', cell) = HolderIn(stays, cell)
  <2>1. ASSUME NEW s \in stays', HoldsCell(s, cell) PROVE s \in stays
    <3>1. CASE s.owner = owner
      <4>1. cell[1] \in picked /\ cell[2] \in wanted
        BY <2>1, <3>1 DEF HoldsCell, Holds, Cells
      <4> QED
        BY <1>3, <4>1 DEF Cells
    <3> QED
      BY <3>1
  <2>2. ASSUME NEW s \in stays, HoldsCell(s, cell) PROVE s \in stays'
    BY <2>2 DEF HoldsCell, Holds
  <2> QED
    BY <2>1, <2>2, SameHolder
<1>4. Ledger!Held(owner) = {}
  <2> SUFFICES ASSUME NEW cell \in Cells, HolderIn(stays, cell) = owner PROVE FALSE
    BY DEF Ledger!Held, Holder, Cells
  <2>1. owner # Nobody
    BY NobodyAssumption
  <2>2. PICK s \in stays : HoldsCell(s, cell) /\ s.owner = owner
    BY <2>1, SomebodyHolds
  <2> QED
    BY <2>2 DEF HoldsCell, Holds
<1>5. Ledger!Give(picked \X wanted, owner)
  BY <1>2, <1>3, Given
<1>6. \A cell \in picked \X wanted : Holder[cell] = Nobody
  <2>1. picked \X wanted \subseteq Cells
    BY DEF Cells
  <2> QED
    BY <1>2, <2>1 DEF Holder, Cells
<1>7. wanted \in (SUBSET Nights) \ {{}}
  BY <1>1
<1> HIDE DEF wanted
<1> QED
  BY <1>4, <1>5, <1>6, <1>7 DEF Ledger!Take

\* A booking's rows come to hold nothing.
LEMMA RowsRelease ==
    ASSUME Kept(stays), Kept(stays'), NEW b \in BookingIds,
           \A s \in stays : s.owner # b => s \in stays',
           \A s \in stays' : s.owner # b => s \in stays,
           \A s \in stays' : s.owner = b => ~s.occupies
    PROVE  Ledger!Release(b)
<1>1. ASSUME NEW cell \in Cells
      PROVE  HolderIn(stays', cell)
                 = IF cell \in Ledger!Held(b) THEN Nobody ELSE HolderIn(stays, cell)
  <2>1. cell \in Ledger!Held(b) <=> HolderIn(stays, cell) = b
    BY DEF Ledger!Held, Holder, Cells
  <2>2. CASE HolderIn(stays, cell) = b
    <3>1. \A s \in stays' : ~HoldsCell(s, cell)
      BY <2>2, HolderIsTheOwner DEF HoldsCell, Holds
    <3> QED
      BY <2>1, <2>2, <3>1, NobodyHolds
  <2>3. CASE HolderIn(stays, cell) # b
    <3>1. \A s \in stays : HoldsCell(s, cell) => s \in stays'
      BY <2>3, HolderIsTheOwner
    <3>2. \A s \in stays' : HoldsCell(s, cell) => s \in stays
      BY DEF HoldsCell, Holds
    <3> QED
      BY <2>1, <2>3, <3>1, <3>2, SameHolder
  <2> QED
    BY <2>2, <2>3
<1> QED
  BY <1>1, Given DEF Ledger!Release

\* One row of a closure is deleted, the only one it has in that room.
LEMMA RowReopens ==
    ASSUME Kept(stays), NEW s \in stays, s.owner \in BlockIds, stays' = stays \ {s},
           \A t \in stays : t.owner = s.owner /\ t.room = s.room => t = s
    PROVE  Ledger!Reopen(s.owner, s.room)
<1> DEFINE cells == {cell \in Ledger!Held(s.owner) : cell[1] = s.room}
<1>1. ASSUME NEW cell \in Cells
      PROVE  HolderIn(stays', cell)
                 = IF cell \in cells THEN Nobody ELSE HolderIn(stays, cell)
  <2>1. cell \in cells <=> HolderIn(stays, cell) = s.owner /\ cell[1] = s.room
    BY DEF Ledger!Held, Holder, Cells
  <2>2. CASE cell \in cells
    <3>1. ASSUME NEW t \in stays', HoldsCell(t, cell) PROVE FALSE
      <4>1. t \in stays /\ t # s
        BY <3>1
      <4>2. t.owner = s.owner /\ t.room = s.room
        BY <2>1, <2>2, <3>1, <4>1, HolderIsTheOwner DEF HoldsCell
      <4> QED
        BY <4>1, <4>2
    <3> QED
      BY <2>2, <3>1, NobodyHolds
  <2>3. CASE cell \notin cells
    <3>1. ~HoldsCell(s, cell)
      BY <2>1, <2>3, HolderIsTheOwner DEF HoldsCell
    <3> QED
      BY <2>3, <3>1, SameHolder
  <2> QED
    BY <2>2, <2>3
<1> QED
  BY <1>1, Given DEF Ledger!Reopen

\* The last rows in a room are closures' and are deleted.
LEMMA RowsLeave ==
    ASSUME Kept(stays), NEW room \in Rooms,
           stays' = {s \in stays : s.room # room},
           \A s \in stays : s.room = room => s.owner \notin BookingIds
    PROVE  Ledger!Remove(room)
<1>1. ASSUME NEW night \in Nights, Holder[<<room, night>>] \in BookingIds PROVE FALSE
  <2>1. <<room, night>> \in Cells /\ Holder[<<room, night>>] = HolderIn(stays, <<room, night>>)
    BY DEF Holder, Cells
  <2>2. HolderIn(stays, <<room, night>>) # Nobody
    BY <1>1, <2>1, NobodyAssumption
  <2>3. PICK s \in stays : /\ HoldsCell(s, <<room, night>>)
                           /\ s.owner = HolderIn(stays, <<room, night>>)
    BY <2>2, SomebodyHolds
  <2> QED
    BY <1>1, <2>1, <2>3 DEF HoldsCell
<1>2. ASSUME NEW cell \in Cells
      PROVE  HolderIn(stays', cell)
                 = IF cell \in {room} \X Nights THEN Nobody ELSE HolderIn(stays, cell)
  <2>1. cell \in {room} \X Nights <=> cell[1] = room
    BY DEF Cells
  <2>2. CASE cell[1] = room
    <3>1. \A s \in stays' : ~HoldsCell(s, cell)
      BY <2>2 DEF HoldsCell
    <3> QED
      BY <2>1, <2>2, <3>1, NobodyHolds
  <2>3. CASE cell[1] # room
    <3>1. \A s \in stays : HoldsCell(s, cell) => s \in stays'
      BY <2>3 DEF HoldsCell
    <3> QED
      BY <2>1, <2>3, <3>1, SameHolder
  <2> QED
    BY <2>2, <2>3
<1>3. Ledger!Give({room} \X Nights, Nobody)
  BY <1>2, Given
<1> QED
  BY <1>1, <1>3 DEF Ledger!Remove

-----------------------------------------------------------------------------
(* What else the rows keep: their dates are a request's, and a closure has  *)
(* one row for each of its rooms.                                           *)

DatesOf(s) == [checkIn |-> s.checkIn, checkOut |-> s.checkOut]

RowsOK ==
    /\ \A s \in stays : /\ DatesOf(s) \in Ranges
                        /\ s.kind = "BOOKING" => s.owner \in BookingIds
                        /\ s.kind = "BLOCK" => s.owner \in BlockIds
    /\ \A s, t \in stays :
          s.kind = "BLOCK" /\ t.kind = "BLOCK" /\ s.owner = t.owner /\ s.room = t.room => s = t

\* The same rows, or fewer.
LEMMA FewerRowsAreOK == ASSUME RowsOK, stays' \subseteq stays PROVE RowsOK'
<1>1. \A s \in stays' : s \in stays
  OBVIOUS
<1> QED
  BY <1>1 DEF RowsOK, DatesOf

\* What the rows written for one owner say.
RowsFor(written, picked, owner, kind, range) ==
    /\ written \subseteq StayRow
    /\ \A s \in written : /\ s.room \in picked /\ s.owner = owner /\ s.kind = kind
                          /\ s.occupies
                          /\ s.checkIn = range.checkIn /\ s.checkOut = range.checkOut
    /\ \A room \in picked : \E s \in written : s.room = room
    /\ \A s, t \in written : s.room = t.room => s = t

LEMMA NewRows ==
    ASSUME NEW picked \in SUBSET Rooms, NEW owner \in BookingIds \cup BlockIds,
           NEW kind \in {"BOOKING", "BLOCK"}, NEW range \in Ranges
    PROVE  RowsFor({NewStay(room, owner, kind, range) : room \in picked},
                   picked, owner, kind, range)
<1> DEFINE written == {NewStay(room, owner, kind, range) : room \in picked}
<1>1. \A room \in picked : LET s == NewStay(room, owner, kind, range) IN
          /\ s \in StayRow /\ s.room = room /\ s.owner = owner /\ s.kind = kind
          /\ s.occupies /\ s.checkIn = range.checkIn /\ s.checkOut = range.checkOut
  BY RangesAssumption DEF NewStay, StayRow
<1>2. \A s : s \in written <=> \E room \in picked : s = NewStay(room, owner, kind, range)
  OBVIOUS
<1> HIDE DEF written
<1>3. RowsFor(written, picked, owner, kind, range)
  BY <1>1, <1>2 DEF RowsFor
<1> QED
  BY <1>3 DEF written

\* Rows of a booking come, or only change whether they hold their rooms.
LEMMA BookingRowsAreOK ==
    ASSUME RowsOK, NEW b \in BookingIds,
           \A s \in stays' :
              \/ s \in stays
              \/ s.kind = "BOOKING" /\ s.owner = b /\ DatesOf(s) \in Ranges
    PROVE  RowsOK'
<1>1. ASSUME NEW s \in stays'
      PROVE  /\ DatesOf(s) \in Ranges
             /\ s.kind = "BOOKING" => s.owner \in BookingIds
             /\ s.kind = "BLOCK" => s.owner \in BlockIds
             /\ s.kind = "BLOCK" => s \in stays
  BY DEF RowsOK
<1>2. ASSUME NEW s \in stays', NEW t \in stays', s.kind = "BLOCK", t.kind = "BLOCK",
             s.owner = t.owner, s.room = t.room
      PROVE  s = t
  BY <1>1, <1>2 DEF RowsOK
<1> QED
  BY <1>1, <1>2 DEF RowsOK, DatesOf

-----------------------------------------------------------------------------
(* Every write.                                                            *)

LEMMA TablesAreKept == IInv => Kept(stays)
  BY DEF IInv, TypeOK, TablesInv, NoExcludedStays, Kept

LEMMA TablesStayKept == IInv' => Kept(stays')
  BY DEF IInv, TypeOK, TablesInv, NoExcludedStays, Kept, Excluded, Overlap

\* Whose rows are whose.
LEMMA OwnersTellKinds ==
    ASSUME IInv, RowsOK, NEW s \in stays
    PROVE  /\ s.owner \in BookingIds => s.kind = "BOOKING" /\ s \in StaysOf(s.owner)
           /\ s.owner \in BlockIds => s.kind = "BLOCK"
           /\ s.kind = "BLOCK" => s.owner \notin BookingIds
<1>1. s.kind \in {"BOOKING", "BLOCK"}
  BY DEF IInv, TypeOK, StayRow
<1> QED
  BY <1>1, IdsAssumption DEF RowsOK, StaysOf

\* A status change or the sweep: the rows of one booking follow its new status.
LEMMA MovedRowsAreLedgers ==
    ASSUME IInv, IInv', RowsOK, NEW b \in DOMAIN bookings, NEW occupies \in BOOLEAN,
           stays' = (stays \ StaysOf(b)) \cup WithOccupies(b, occupies)
    PROVE  RowsOK' /\ (Ledger!Next \/ UNCHANGED stays)
<1>1. b \in BookingIds /\ TypeOK /\ Kept(stays) /\ Kept(stays')
  BY TablesAreKept, TablesStayKept DEF IInv, TypeOK
<1>2. \A s \in stays : s.owner = b <=> s \in StaysOf(b)
  BY <1>1, OwnersTellKinds DEF StaysOf
<1>3. \A r \in StaysOf(b) :
         LET s == Updated(r, occupies)
         IN  /\ r \in stays
             /\ s.room = r.room /\ s.owner = b /\ s.kind = "BOOKING"
             /\ s.checkIn = r.checkIn /\ s.checkOut = r.checkOut
             /\ s.occupies = occupies
  BY <1>1, UpdatedStays
<1>4. \A s \in WithOccupies(b, occupies) :
         /\ s.owner = b /\ s.kind = "BOOKING" /\ s.occupies = occupies
         /\ \E r \in StaysOf(b) : /\ r \in stays /\ s.room = r.room
                                  /\ s.checkIn = r.checkIn /\ s.checkOut = r.checkOut
  BY <1>3 DEF WithOccupies
<1>5. RowsOK'
  <2>1. ASSUME NEW s \in stays'
        PROVE  \/ s \in stays
               \/ s.kind = "BOOKING" /\ s.owner = b /\ DatesOf(s) \in Ranges
    BY <1>4 DEF RowsOK, DatesOf
  <2> QED
    BY <1>1, <2>1, BookingRowsAreOK
<1>6. /\ \A s \in stays : s.owner # b => s \in stays'
      /\ \A s \in stays' : s.owner # b => s \in stays
      /\ \A s \in stays' : s.owner = b => s \in WithOccupies(b, occupies)
  BY <1>2, <1>4
<1>7. CASE ~occupies
  <2>1. Ledger!Release(b)
    BY <1>1, <1>4, <1>6, <1>7, RowsRelease
  <2> QED
    BY <1>1, <1>5, <2>1 DEF Ledger!Next
<1>8. CASE occupies /\ OccupiesRooms(bookings[b].status)
  <2>1. \A r \in StaysOf(b) : r.occupies = TRUE
    <3> SUFFICES ASSUME NEW r \in StaysOf(b) PROVE r.occupies = TRUE
      OBVIOUS
    <3>1. r \in stays /\ r.owner = b /\ r \in StayRow
      BY DEF StaysOf, IInv, TypeOK
    <3> QED
      BY <1>8, <3>1 DEF IInv, TablesInv, OccupancyFollowsStatus, StayRow
  <2>2. \A r \in StaysOf(b) : Updated(r, occupies) = r
    <3> SUFFICES ASSUME NEW r \in StaysOf(b) PROVE Updated(r, occupies) = r
      OBVIOUS
    <3>1. r \in StayRow /\ r.occupies = TRUE /\ occupies = TRUE
      BY <1>8, <2>1 DEF StaysOf, IInv, TypeOK
    <3> QED
      BY <3>1 DEF Updated, StayRow
  <2>3. WithOccupies(b, occupies) = StaysOf(b)
    BY <2>2 DEF WithOccupies
  <2>4. stays' = stays
    BY <2>3 DEF StaysOf
  <2> QED
    BY <1>5, <2>4
<1>9. CASE occupies /\ ~OccupiesRooms(bookings[b].status)
  <2> DEFINE picked == bookings[b].rooms
  <2>1. /\ {s.room : s \in StaysOf(b)} = picked /\ picked # {}
        /\ \A s \in StaysOf(b) : /\ s.checkIn = bookings[b].checkIn
                                 /\ s.checkOut = bookings[b].checkOut
    BY DEF IInv, TablesInv, BookingHoldsItsRooms
  <2>2. PICK one \in StaysOf(b) : TRUE
    BY <2>1
  <2> DEFINE range == DatesOf(one)
  <2>3. range \in Ranges
    BY <2>2 DEF RowsOK, StaysOf
  <2>4. \A s \in StaysOf(b) : s.checkIn = range.checkIn /\ s.checkOut = range.checkOut
    BY <2>1, <2>2 DEF DatesOf
  <2>5. \A s \in stays : s.owner = b => ~s.occupies
    <3> SUFFICES ASSUME NEW s \in stays, s.owner = b PROVE ~s.occupies
      OBVIOUS
    <3>1. s.kind = "BOOKING"
      BY <1>1, OwnersTellKinds
    <3> QED
      BY <1>9, <3>1 DEF IInv, TablesInv, OccupancyFollowsStatus
  <2>6. \A s \in stays' : s.owner = b =>
            /\ s.occupies /\ s.room \in picked
            /\ s.checkIn = range.checkIn /\ s.checkOut = range.checkOut
    <3> SUFFICES ASSUME NEW s \in stays', s.owner = b
                 PROVE  /\ s.occupies /\ s.room \in picked
                        /\ s.checkIn = range.checkIn /\ s.checkOut = range.checkOut
      OBVIOUS
    <3>1. s \in WithOccupies(b, occupies)
      BY <1>6
    <3>2. PICK r \in StaysOf(b) : /\ s.room = r.room
                                  /\ s.checkIn = r.checkIn /\ s.checkOut = r.checkOut
      BY <1>4, <3>1
    <3> HIDE DEF range, picked
    <3> QED
      BY <1>4, <1>9, <2>1, <2>4, <3>1, <3>2
  <2>7. \A room \in picked : \E s \in stays' : s.owner = b /\ s.room = room
    <3> SUFFICES ASSUME NEW room \in picked
                 PROVE  \E s \in stays' : s.owner = b /\ s.room = room
      OBVIOUS
    <3>1. PICK r \in StaysOf(b) : r.room = room
      BY <2>1
    <3>2. Updated(r, occupies) \in stays'
      BY DEF WithOccupies
    <3> QED
      BY <1>3, <3>1, <3>2
  <2>8. picked \in (SUBSET Rooms) \ {{}}
    BY <2>1 DEF IInv, TypeOK, BookingRow
  <2> HIDE DEF picked, range
  <2>9. Ledger!Take(b)
    BY <1>1, <1>6, <2>3, <2>5, <2>6, <2>7, <2>8, RowsTake
  <2> QED
    BY <1>1, <1>5, <2>9 DEF Ledger!Next, Ledger!Owners
<1> QED
  BY <1>7, <1>8, <1>9

\* A booking or a closure is written: a row for each of its rooms.
LEMMA NewRowsTake ==
    ASSUME IInv, IInv', NEW owner \in BookingIds \cup BlockIds, NEW kind,
           NEW picked \in (SUBSET Rooms) \ {{}}, NEW range \in Ranges, NEW written,
           RowsFor(written, picked, owner, kind, range),
           \A s \in stays : s.owner # owner,
           stays' = stays \cup written
    PROVE  Ledger!Next
<1>1. Kept(stays) /\ Kept(stays')
  BY TablesAreKept, TablesStayKept
<1>2. /\ \A s \in stays : s.owner = owner => ~s.occupies
      /\ \A s \in stays : s.owner # owner => s \in stays'
      /\ \A s \in stays' : s.owner # owner => s \in stays
  BY DEF RowsFor
<1>3. \A s \in stays' : s.owner = owner =>
         /\ s.occupies /\ s.room \in picked
         /\ s.checkIn = range.checkIn /\ s.checkOut = range.checkOut
  BY DEF RowsFor
<1>4. \A room \in picked : \E s \in stays' : s.owner = owner /\ s.room = room
  BY DEF RowsFor
<1>5. Ledger!Take(owner)
  BY <1>1, <1>2, <1>3, <1>4, RowsTake
<1> QED
  BY <1>5 DEF Ledger!Next, Ledger!Owners

LEMMA CreateWriteTakes ==
    ASSUME IInv, IInv', RowsOK, NEW w \in Workers, CreateWrite(w)
    PROVE  RowsOK' /\ Ledger!Next
<1> DEFINE job == jobs[w]
<1>1. /\ job \in CreateJob /\ job.rooms # {}
      /\ job.rooms \in (SUBSET Rooms) \ {{}} /\ job.range \in Ranges
  BY JobTypes DEF CreateWrite, IInv, JobsRemember, At, CreateJob
<1>2. PICK b \in BookingIds \ DOMAIN bookings :
         stays' = stays \cup {NewStay(room, b, "BOOKING", job.range) : room \in job.rooms}
  BY DEF CreateWrite
<1> HIDE DEF job
<1> DEFINE written == {NewStay(room, b, "BOOKING", job.range) : room \in job.rooms}
<1>3. RowsFor(written, job.rooms, b, "BOOKING", job.range) /\ stays' = stays \cup written
  BY <1>1, <1>2, NewRows
<1> HIDE DEF written
<1>4. \A s \in stays : s.owner # b
  BY OwnersTellKinds DEF IInv, TablesInv, BookingHoldsItsRooms
<1>5. Ledger!Next
  BY <1>1, <1>3, <1>4, NewRowsTake
<1>6. ASSUME NEW s \in written
      PROVE  s.kind = "BOOKING" /\ s.owner = b /\ DatesOf(s) \in Ranges
  <2>1. DatesOf(s) = job.range
    BY <1>1, <1>3, RangesAssumption DEF RowsFor, DatesOf
  <2> QED
    BY <1>1, <1>3, <2>1 DEF RowsFor
<1>7. RowsOK'
  BY <1>3, <1>6, BookingRowsAreOK
<1> QED
  BY <1>5, <1>7

\* A new closure has rows of its own, one for each room.
LEMMA BlockRowsAreOK ==
    ASSUME RowsOK, NEW k \in BlockIds, NEW picked, NEW range \in Ranges, NEW written,
           RowsFor(written, picked, k, "BLOCK", range),
           \A s \in stays : s.owner # k,
           stays' = stays \cup written
    PROVE  RowsOK'
<1>1. ASSUME NEW s \in written
      PROVE  s.kind = "BLOCK" /\ s.owner = k /\ DatesOf(s) \in Ranges
  <2>1. DatesOf(s) = range
    BY RangesAssumption DEF RowsFor, DatesOf
  <2> QED
    BY <2>1 DEF RowsFor
<1>2. ASSUME NEW s \in stays'
      PROVE  /\ DatesOf(s) \in Ranges
             /\ s.kind = "BOOKING" => s.owner \in BookingIds
             /\ s.kind = "BLOCK" => s.owner \in BlockIds
  BY <1>1 DEF RowsOK
<1>3. ASSUME NEW s \in stays', NEW t \in stays', s.kind = "BLOCK", t.kind = "BLOCK",
             s.owner = t.owner, s.room = t.room
      PROVE  s = t
  <2>1. s.owner = k <=> s \in written
    BY <1>1
  <2>2. CASE s.owner = k
    BY <1>3, <2>1, <2>2 DEF RowsFor
  <2>3. CASE s.owner # k
    <3>1. s \in stays /\ t \in stays
      BY <1>1, <1>3, <2>3
    <3> QED
      BY <1>3, <3>1 DEF RowsOK
  <2> QED
    BY <2>2, <2>3
<1> QED
  BY <1>2, <1>3 DEF RowsOK, DatesOf

LEMMA BlockWriteTakes ==
    ASSUME IInv, IInv', RowsOK, NEW w \in Workers, BlockWrite(w)
    PROVE  RowsOK' /\ Ledger!Next
<1> DEFINE job == jobs[w]
<1>1. /\ job \in BlockJob /\ job.rooms # {}
      /\ job.rooms \in (SUBSET Rooms) \ {{}} /\ job.range \in Ranges
  BY JobTypes DEF BlockWrite, IInv, JobsRemember, At, BlockJob
<1>2. PICK k \in BlockIds :
         /\ \A s \in stays : s.owner # k
         /\ stays' = stays \cup {NewStay(room, k, "BLOCK", job.range) : room \in job.rooms}
  BY DEF BlockWrite
<1> HIDE DEF job
<1> DEFINE written == {NewStay(room, k, "BLOCK", job.range) : room \in job.rooms}
<1>3. RowsFor(written, job.rooms, k, "BLOCK", job.range) /\ stays' = stays \cup written
  BY <1>1, <1>2, NewRows
<1> HIDE DEF written
<1>4. Ledger!Next
  BY <1>1, <1>2, <1>3, NewRowsTake
<1>5. RowsOK'
  BY <1>1, <1>2, <1>3, BlockRowsAreOK
<1> QED
  BY <1>4, <1>5

LEMMA RemoveBlockReopens ==
    ASSUME IInv, RowsOK, RemoveBlock PROVE RowsOK' /\ Ledger!Next
<1> PICK s \in stays : s.kind = "BLOCK" /\ stays' = stays \ {s}
  BY DEF RemoveBlock, Removable
<1>1. RowsOK'
  BY FewerRowsAreOK
<1>2. s.owner \in BlockIds /\ s.room \in Rooms
  BY DEF RowsOK, IInv, TypeOK, StayRow
<1>3. \A t \in stays : t.owner = s.owner /\ t.room = s.room => t = s
  BY <1>2, OwnersTellKinds DEF RowsOK
<1>4. Ledger!Reopen(s.owner, s.room)
  BY <1>2, <1>3, TablesAreKept, RowReopens
<1> QED
  BY <1>1, <1>2, <1>4 DEF Ledger!Next

LEMMA RoomRemoveLeaves ==
    ASSUME IInv, RowsOK, NEW w \in Workers, RoomRemoveWrite(w) PROVE RowsOK' /\ Ledger!Next
<1> DEFINE room == jobs[w].room
<1>1. /\ room \in Rooms /\ Unreferenced(room) /\ stays' = stays \ BlocksIn(room)
  BY JobTypes DEF RoomRemoveWrite, RemoveJob, IInv
<1> HIDE DEF room
<1>2. stays' = {s \in stays : s.room # room}
  BY <1>1 DEF Unreferenced, BlocksIn
<1>3. \A s \in stays : s.room = room => s.owner \notin BookingIds
  BY <1>1, OwnersTellKinds DEF Unreferenced, BlocksIn
<1>4. Ledger!Remove(room)
  BY <1>1, <1>2, <1>3, TablesAreKept, RowsLeave
<1>5. RowsOK'
  BY <1>2, FewerRowsAreOK
<1> QED
  BY <1>1, <1>4, <1>5 DEF Ledger!Next

LEMMA StatusWriteIsLedgers ==
    ASSUME IInv, IInv', RowsOK, NEW w \in Workers, StatusWrite(w)
    PROVE  RowsOK' /\ (Ledger!Next \/ UNCHANGED stays)
<1>1. jobs[w].booking \in DOMAIN bookings
  BY DEF StatusWrite, IInv, JobsRemember
<1>2. OccupiesRooms(jobs[w].to) \in BOOLEAN
  BY DEF OccupiesRooms
<1>3. stays' = (stays \ StaysOf(jobs[w].booking))
                  \cup WithOccupies(jobs[w].booking, OccupiesRooms(jobs[w].to))
  BY DEF StatusWrite
<1> QED
  BY <1>1, <1>2, <1>3, MovedRowsAreLedgers

LEMMA SweepReleaseIsLedgers ==
    ASSUME IInv, IInv', RowsOK, NEW p \in Sweepers, NEW b \in BookingIds, SweepRelease(p, b)
    PROVE  RowsOK' /\ (Ledger!Next \/ UNCHANGED stays)
<1>1. CASE StillPending(b)
  <2>1. /\ b \in DOMAIN bookings
        /\ stays' = (stays \ StaysOf(b)) \cup WithOccupies(b, FALSE)
    BY <1>1 DEF SweepRelease, IInv, TypeOK
  <2> QED
    BY <2>1, MovedRowsAreLedgers
<1>2. CASE ~StillPending(b)
  BY <1>2, FewerRowsAreOK DEF SweepRelease
<1> QED
  BY <1>1, <1>2

\* Nothing else touches the rows.
LEMMA StepsAreTheLedgers ==
    ASSUME IInv, IInv', RowsOK, [Next]_vars
    PROVE  RowsOK' /\ [Ledger!Next]_Holder
<1>1. ASSUME UNCHANGED stays PROVE RowsOK' /\ UNCHANGED Holder
  BY <1>1, FewerRowsAreOK DEF Holder, HolderIn, HoldersIn, Holds
<1>2. ASSUME NEW w \in Workers, Handler(w) PROVE RowsOK' /\ [Ledger!Next]_Holder
  <2>1. CASE CreateWrite(w) \/ BlockWrite(w) \/ RoomRemoveWrite(w)
    BY <2>1, CreateWriteTakes, BlockWriteTakes, RoomRemoveLeaves
  <2>2. CASE StatusWrite(w)
    BY <2>2, <1>1, StatusWriteIsLedgers
  <2>3. CASE CreateRead(w) \/ CreateCount(w) \/ CreateRefused(w) \/ CheckRoomsAreFree(w)
    BY <2>3, <1>1 DEF CreateRead, CreateCount, CreateRefused, CheckRoomsAreFree
  <2>4. CASE BlockRead(w) \/ StatusRead(w) \/ RoomRemoveCheck(w) \/ WriteFails(w)
    BY <2>4, <1>1 DEF BlockRead, StatusRead, RoomRemoveCheck, WriteFails
  <2> QED
    BY <1>2, <2>1, <2>2, <2>3, <2>4 DEF Handler
<1>3. ASSUME NEW p \in Sweepers, Sweep(p) PROVE RowsOK' /\ [Ledger!Next]_Holder
  BY <1>1, <1>3, SweepReleaseIsLedgers DEF Sweep, SweepFind, SweepFails
<1>4. ASSUME NEW room \in Rooms, RoomCreate(room) \/ RoomUpdate(room)
      PROVE  RowsOK' /\ [Ledger!Next]_Holder
  BY <1>1, <1>4 DEF RoomCreate, RoomUpdate
<1>5. CASE Crash \/ Tick \/ UNCHANGED vars
  BY <1>1, <1>5 DEF Crash, Tick, vars
<1> QED
  BY <1>2, <1>3, <1>4, <1>5, RemoveBlockReopens DEF Next

-----------------------------------------------------------------------------
\* The tables, and everything that writes them, implement the ledger: nights are
\* taken all together when they are free, and come back before they change hands.
THEOREM OccupancyIsALedger == Spec => ImplementsNightLedger
<1>1. Init => RowsOK /\ Ledger!Init
  <2> SUFFICES ASSUME Init PROVE RowsOK /\ Ledger!Init
    OBVIOUS
  <2>1. stays = {}
    BY DEF Init
  <2>2. \A cell \in Cells : HolderIn(stays, cell) = Nobody
    BY <2>1, NobodyHolds
  <2> QED
    BY <2>1, <2>2 DEF RowsOK, Ledger!Init, Holder, Cells
<1>2. IInv /\ IInv' /\ RowsOK /\ [Next]_vars => RowsOK' /\ [Ledger!Next]_Holder
  BY StepsAreTheLedgers
<1> QED
  BY <1>1, <1>2, Invariance, PTL DEF Spec, Ledger!Spec, ImplementsNightLedger
=============================================================================
