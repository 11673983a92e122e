-------------------------- MODULE PricedStayProofs --------------------------
(***************************************************************************)
(* PricedStay, for any rooms, rates and stays, any number of requests and  *)
(* any seasons they ask for: a night never has two seasons, the rates      *)
(* table is a RateCalendar, a written price is what its lines come to, and *)
(* it is the one that was shown unless somebody edited it.                 *)
(*                                                                         *)
(* First the seasons and their calendar; then what a sum over a finite set *)
(* is, and what a quote says of the rates it is given; then the bookings   *)
(* on their way and the ones that are written.                             *)
(***************************************************************************)
EXTENDS PricedStay, FiniteSetTheorems, WellFoundedInduction, TLAPS

\* A season's request remembers rooms and a form of the property.
SeasonJobs == [kind : {"season"}, step : {"rooms", "overlap", "write"},
               rooms : SUBSET Rooms, form : SeasonForms]

JobsOK == /\ DOMAIN jobs = Workers
          /\ \A w \in Workers : /\ "kind" \in DOMAIN jobs[w]
                                /\ jobs[w].kind = "season" => jobs[w] \in SeasonJobs

\* A row is a form that was saved for a room; a season has one row in a room.
RowsOK == /\ \A row \in overrides :
                 /\ row.id \in SeasonIds /\ row.room \in Rooms
                 /\ \E form \in SeasonForms : row = Row(row.id, row.room, form)
          /\ \A a, b \in overrides : a.id = b.id /\ a.room = b.room => a = b

IInv == JobsOK /\ RowsOK /\ SeasonsNeverOverlap

-----------------------------------------------------------------------------
LEMMA InitIsFine == Init => IInv
  BY DEF Init, IInv, JobsOK, RowsOK, SeasonsNeverOverlap, Idle

LEMMA EndKeepsJobs == ASSUME JobsOK, NEW w \in Workers, End(w) PROVE JobsOK'
  BY DEF JobsOK, End, Idle

LEMMA AdvanceKeepsJobs ==
    ASSUME JobsOK, NEW w \in Workers, jobs[w].kind = "season",
           NEW step \in {"rooms", "overlap", "write"}, Advance(w, step)
    PROVE  JobsOK'
<1>1. jobs[w] \in SeasonJobs
  BY DEF JobsOK
<1>2. [jobs[w] EXCEPT !.step = step] \in SeasonJobs
  BY <1>1 DEF SeasonJobs
<1>3. jobs'[w] = [jobs[w] EXCEPT !.step = step]
  BY DEF JobsOK, Advance
<1>4. \A v \in Workers \ {w} : jobs'[v] = jobs[v]
  BY DEF JobsOK, Advance
<1>5. DOMAIN jobs' = Workers
  BY DEF JobsOK, Advance
<1>6. "kind" \in DOMAIN jobs'[w]
  BY <1>2, <1>3 DEF SeasonJobs
<1> QED
  BY <1>2, <1>3, <1>4, <1>5, <1>6 DEF JobsOK

\* An edit spoils the quotes of bookings on their way, and no season's request.
LEMMA DisturbedJobs == ASSUME JobsOK
    PROVE  /\ DOMAIN Disturbed = Workers
           /\ \A w \in Workers : /\ "kind" \in DOMAIN Disturbed[w]
                                 /\ Disturbed[w].kind = "season" => Disturbed[w] \in SeasonJobs
<1> SUFFICES ASSUME NEW w \in Workers
             PROVE  /\ "kind" \in DOMAIN Disturbed[w]
                    /\ Disturbed[w].kind = "season" => Disturbed[w] \in SeasonJobs
  BY DEF Disturbed
<1>1. CASE jobs[w].kind = "book"
  <2> DEFINE spoilt == [jobs[w] EXCEPT !.undisturbed = FALSE, !.shown = Unread]
  <2>1. "kind" \in DOMAIN spoilt /\ spoilt.kind = "book"
    BY <1>1 DEF JobsOK
  <2>2. Disturbed[w] = spoilt
    BY <1>1 DEF Disturbed
  <2> QED
    BY <2>1, <2>2
<1>2. CASE jobs[w].kind # "book"
  BY <1>2 DEF Disturbed, JobsOK
<1> QED
  BY <1>1, <1>2

\* Two forms overlap or not whichever is named first.
LEMMA OverlapIsSymmetric == ASSUME NEW a, NEW b PROVE Overlaps(a, b) <=> Overlaps(b, a)
  BY DEF Overlaps

\* The new rows are apart from the old ones (Fits), and from each other: one a room.
LEMMA SeasonWriteIsFine ==
    ASSUME IInv, NEW w \in Workers, SeasonWrite(w)
    PROVE  RowsOK' /\ SeasonsNeverOverlap'
<1> DEFINE job == jobs[w]
<1>1. job \in SeasonJobs /\ Fits(job)
  BY DEF IInv, JobsOK, SeasonWrite, SeasonAt
<1>2. PICK id \in SeasonIds \ {row.id : row \in overrides} :
          overrides' = overrides \cup Inserted(job, id)
  BY DEF SeasonWrite
<1>3. job.rooms \subseteq Rooms /\ job.form \in SeasonForms
  BY <1>1 DEF SeasonJobs
<1> HIDE DEF job
<1>4. \A row \in Inserted(job, id) :
          /\ row.id = id /\ row.room \in job.rooms /\ row = Row(id, row.room, job.form)
          /\ row.startDate = job.form.startDate /\ row.endDate = job.form.endDate
  BY DEF Inserted, Row
<1>5. \A row \in overrides : row.id # id
  BY <1>2
<1>6. RowsOK'
  <2>1. ASSUME NEW row \in overrides'
        PROVE  /\ row.id \in SeasonIds /\ row.room \in Rooms
               /\ \E form \in SeasonForms : row = Row(row.id, row.room, form)
    <3>1. CASE row \in overrides
      BY <3>1 DEF IInv, RowsOK
    <3>2. CASE row \in Inserted(job, id)
      BY <3>2, <1>2, <1>3, <1>4
    <3> QED
      BY <1>2, <3>1, <3>2
  <2>2. ASSUME NEW a \in overrides', NEW b \in overrides', a.id = b.id, a.room = b.room
        PROVE  a = b
    <3>1. CASE a \in overrides /\ b \in overrides
      BY <2>2, <3>1 DEF IInv, RowsOK
    <3>2. CASE a \in Inserted(job, id) /\ b \in Inserted(job, id)
      BY <2>2, <3>2, <1>4
    <3> QED
      BY <2>2, <1>2, <1>4, <1>5, <3>1, <3>2
  <2> QED
    BY <2>1, <2>2 DEF RowsOK
<1>7. SeasonsNeverOverlap'
  <2>1. \A a \in Inserted(job, id), b \in overrides : a.room = b.room => ~Overlaps(a, b)
    BY <1>1, <1>4 DEF Fits, Overlaps
  <2>2. ASSUME NEW a \in overrides', NEW b \in overrides', a.room = b.room, Overlaps(a, b)
        PROVE  a = b
    <3>1. CASE a \in overrides /\ b \in overrides
      BY <2>2, <3>1 DEF IInv, SeasonsNeverOverlap
    <3>2. CASE a \in Inserted(job, id) /\ b \in Inserted(job, id)
      BY <2>2, <3>2, <1>4
    <3>3. CASE a \in Inserted(job, id) /\ b \in overrides
      BY <2>1, <2>2, <3>3
    <3>4. CASE a \in overrides /\ b \in Inserted(job, id)
      BY <2>1, <2>2, <3>4, OverlapIsSymmetric
    <3> QED
      BY <1>2, <3>1, <3>2, <3>3, <3>4
  <2> QED
    BY <2>2 DEF SeasonsNeverOverlap
<1> QED
  BY <1>6, <1>7

\* Rows that only go leave the others apart.
LEMMA FewerRowsAreFine ==
    ASSUME RowsOK, SeasonsNeverOverlap, overrides' \subseteq overrides
    PROVE  RowsOK' /\ SeasonsNeverOverlap'
  BY DEF RowsOK, SeasonsNeverOverlap

\* A booking on its way stays one.
LEMMA BookingKeepsJobs ==
    ASSUME JobsOK, NEW w \in Workers, NEW job, "kind" \in DOMAIN job, job.kind = "book",
           jobs' = [jobs EXCEPT ![w] = job]
    PROVE  JobsOK'
<1>1. jobs'[w] = job /\ DOMAIN jobs' = Workers /\ \A v \in Workers \ {w} : jobs'[v] = jobs[v]
  BY DEF JobsOK
<1> QED
  BY <1>1 DEF JobsOK

LEMMA NextIsFine == IInv /\ [Next]_vars => IInv'
<1> SUFFICES ASSUME IInv, [Next]_vars PROVE IInv'
  OBVIOUS
<1> USE DEF IInv
<1>1. CASE PropertyUpdate
  <2>1. JobsOK'
    BY <1>1, DisturbedJobs DEF PropertyUpdate, JobsOK
  <2> QED
    BY <1>1, <2>1, FewerRowsAreFine DEF PropertyUpdate
<1>2. ASSUME NEW room \in Rooms, RoomUpdate(room) PROVE IInv'
  <2>1. JobsOK'
    BY <1>2, DisturbedJobs DEF RoomUpdate, JobsOK
  <2> QED
    BY <1>2, <2>1, FewerRowsAreFine DEF RoomUpdate
<1>3. ASSUME NEW room \in Rooms, RoomRemove(room) PROVE IInv'
  <2>1. JobsOK'
    BY <1>3, DisturbedJobs DEF RoomRemove, JobsOK
  <2> QED
    BY <1>3, <2>1, FewerRowsAreFine DEF RoomRemove
<1>4. ASSUME NEW row \in overrides, RemoveOverride(row) PROVE IInv'
  <2>1. JobsOK'
    BY <1>4, DisturbedJobs DEF RemoveOverride, JobsOK
  <2> QED
    BY <1>4, <2>1, FewerRowsAreFine DEF RemoveOverride
<1>5. ASSUME NEW w \in Workers, SeasonBegin(w) PROVE IInv'
  <2>1. PICK rs \in SUBSET Rooms \ {{}}, form \in SeasonForms :
            jobs' = [jobs EXCEPT ![w] =
                        [kind |-> "season", step |-> "rooms", rooms |-> rs, form |-> form]]
    BY <1>5 DEF SeasonBegin
  <2> DEFINE job == [kind |-> "season", step |-> "rooms", rooms |-> rs, form |-> form]
  <2>2. job \in SeasonJobs /\ "kind" \in DOMAIN job
    BY DEF SeasonJobs
  <2> HIDE DEF job
  <2>3. jobs'[w] = job /\ DOMAIN jobs' = Workers /\ \A v \in Workers \ {w} : jobs'[v] = jobs[v]
    BY <2>1 DEF JobsOK, job
  <2>4. JobsOK'
    BY <2>2, <2>3 DEF JobsOK
  <2> QED
    BY <1>5, <2>4, FewerRowsAreFine DEF SeasonBegin
<1>6. ASSUME NEW w \in Workers, SeasonCheckRooms(w) PROVE IInv'
  <2>1. JobsOK'
    BY <1>6, EndKeepsJobs, AdvanceKeepsJobs DEF SeasonCheckRooms, SeasonAt
  <2> QED
    BY <1>6, <2>1, FewerRowsAreFine DEF SeasonCheckRooms
<1>7. ASSUME NEW w \in Workers, AssertNoOverlap(w) PROVE IInv'
  <2>1. JobsOK'
    BY <1>7, EndKeepsJobs, AdvanceKeepsJobs DEF AssertNoOverlap, SeasonAt
  <2> QED
    BY <1>7, <2>1, FewerRowsAreFine DEF AssertNoOverlap
<1>8. ASSUME NEW w \in Workers, SeasonWrite(w) PROVE IInv'
  <2>1. jobs' = [Disturbed EXCEPT ![w] = Idle]
    BY <1>8 DEF SeasonWrite
  <2>2. jobs'[w] = Idle /\ DOMAIN jobs' = Workers
        /\ \A v \in Workers \ {w} : jobs'[v] = Disturbed[v]
    BY <2>1, DisturbedJobs
  <2>3. "kind" \in DOMAIN Idle /\ Idle.kind = "idle"
    BY DEF Idle
  <2>4. JobsOK'
    BY <2>2, <2>3, DisturbedJobs DEF JobsOK
  <2> QED
    BY <1>8, <2>4, SeasonWriteIsFine
<1>9. ASSUME NEW w \in Workers, SeasonRefused(w) PROVE IInv'
  <2>1. JobsOK'
    BY <1>9, EndKeepsJobs DEF SeasonRefused
  <2> QED
    BY <1>9, <2>1, FewerRowsAreFine DEF SeasonRefused
<1>10. ASSUME NEW w \in Workers, Submit(w) PROVE IInv'
  <2>1. PICK stay \in Stays : jobs' = [jobs EXCEPT ![w] = BookJob(stay, Shown(Tables, stay))]
    BY <1>10 DEF Submit
  <2>2. "kind" \in DOMAIN BookJob(stay, Shown(Tables, stay))
        /\ BookJob(stay, Shown(Tables, stay)).kind = "book"
    BY DEF BookJob
  <2>3. JobsOK'
    BY <2>1, <2>2, BookingKeepsJobs
  <2> QED
    BY <1>10, <2>3, FewerRowsAreFine DEF Submit
<1>11. ASSUME NEW w \in Workers, NEW table, NEW value, BookAt(w, "reads"), Read(w, table, value)
       PROVE  IInv'
  <2> DEFINE job == [jobs[w] EXCEPT !.seen[table] = value]
  <2>1. "kind" \in DOMAIN job /\ job.kind = "book"
    BY <1>11 DEF BookAt, JobsOK
  <2>2. jobs' = [jobs EXCEPT ![w] = job]
    BY <1>11 DEF Read
  <2> HIDE DEF job
  <2>3. JobsOK'
    BY <2>1, <2>2, BookingKeepsJobs
  <2> QED
    BY <1>11, <2>3, FewerRowsAreFine DEF Read
<1>12. ASSUME NEW w \in Workers, PriceStay(w) PROVE IInv'
  <2> DEFINE job == [jobs[w] EXCEPT !.step = "write",
                                    !.price = Priced(jobs[w].seen, jobs[w].stay)]
  <2>1. End(w) \/ jobs' = [jobs EXCEPT ![w] = job]
    BY <1>12 DEF PriceStay
  <2>2. "kind" \in DOMAIN job /\ job.kind = "book"
    BY <1>12 DEF PriceStay, BookAt, JobsOK
  <2> HIDE DEF job
  <2>3. JobsOK'
    BY <2>1, <2>2, EndKeepsJobs, BookingKeepsJobs
  <2> QED
    BY <1>12, <2>3, FewerRowsAreFine DEF PriceStay
<1>13. ASSUME NEW w \in Workers, BookWrite(w) PROVE IInv'
  <2>1. JobsOK'
    BY <1>13, EndKeepsJobs DEF BookWrite
  <2> QED
    BY <1>13, <2>1, FewerRowsAreFine DEF BookWrite
<1>14. CASE UNCHANGED vars
  BY <1>14 DEF vars, JobsOK, RowsOK, SeasonsNeverOverlap
<1> QED
  BY <1>1, <1>2, <1>3, <1>4, <1>5, <1>6, <1>7, <1>8, <1>9, <1>10, <1>11, <1>12, <1>13, <1>14
  DEF Next, Edit, SeasonStep, BookStep, ReadProperty, ReadRooms, ReadOverrides

\* Requests remember what they asked for, and the rates table holds what was asked.
THEOREM Invariance == Spec => []IInv
  BY InitIsFine, NextIsFine, PTL DEF Spec

\* No night of a room has two seasons, whatever number of devices save at once:
\* which of them applies is never a choice (rate_overrides_no_overlap).
THEOREM SeasonsNeverEverOverlap == Spec => []SeasonsNeverOverlap
  BY Invariance, PTL DEF IInv

-----------------------------------------------------------------------------
\* The rows that are new are those of one request, which has then ended: its id was free.
LEMMA SeasonWriteLands ==
    ASSUME IInv, NEW w \in Workers, SeasonWrite(w)
    PROVE  /\ jobs[w].kind = "season" /\ jobs'[w] = Idle
           /\ {other.room : other \in overrides' \ overrides} = jobs[w].rooms
<1>1. jobs[w].kind = "season"
  BY DEF SeasonWrite, SeasonAt
<1>2. jobs'[w] = Idle
  BY DisturbedJobs DEF IInv, SeasonWrite
<1>3. PICK id \in SeasonIds \ {row.id : row \in overrides} :
          overrides' = overrides \cup Inserted(jobs[w], id)
  BY DEF SeasonWrite
<1>4. \A row \in Inserted(jobs[w], id) : row.id = id
  BY DEF Inserted, Row
<1>5. overrides' \ overrides = Inserted(jobs[w], id)
  BY <1>3, <1>4
<1>6. {other.room : other \in Inserted(jobs[w], id)} = jobs[w].rooms
  <2>1. \A room : Row(id, room, jobs[w].form).room = room
    BY DEF Row
  <2>2. \A row : row \in Inserted(jobs[w], id) <=>
            \E room \in jobs[w].rooms : row = Row(id, room, jobs[w].form)
    BY DEF Inserted
  <2> QED
    BY <2>1, <2>2
<1> QED
  BY <1>1, <1>2, <1>5, <1>6

\* A season that one of its rooms refuses leaves no row for the others, whatever other
\* requests write between its check and its one insert.
THEOREM SeasonsAlwaysLandWhole == Spec => SeasonsLandWhole
<1> DEFINE Lands == \A row \in overrides' \ overrides : \E w \in Workers :
               /\ jobs[w].kind = "season" /\ jobs'[w] = Idle
               /\ {other.room : other \in overrides' \ overrides} = jobs[w].rooms
<1>1. IInv /\ [Next]_vars => [Lands]_vars
  <2> SUFFICES ASSUME IInv, Next PROVE Lands
    OBVIOUS
  <2>1. ASSUME NEW w \in Workers, SeasonWrite(w) PROVE Lands
    BY <2>1, SeasonWriteLands
  <2>2. CASE overrides' \subseteq overrides
    BY <2>2
  <2> QED
    BY <2>1, <2>2
    DEF Next, Edit, SeasonStep, BookStep, vars, PropertyUpdate, RoomUpdate, RoomRemove,
        RemoveOverride, SeasonBegin, SeasonCheckRooms, AssertNoOverlap, SeasonRefused,
        Submit, ReadProperty, ReadRooms, ReadOverrides, Read, PriceStay, BookWrite
<1> QED
  BY <1>1, Invariance, PTL DEF Spec, SeasonsLandWhole

-----------------------------------------------------------------------------
(* The rates table is a calendar.                                          *)

LEMMA CellsOfRows == \A rows, cell : cell \in CellsOf(rows) <=>
    \E row \in rows : \E n \in row.startDate .. row.endDate : cell = <<row.room, n, row.id>>
  BY DEF CellsOf

\* A room's rows go with it.
LEMMA RoomRemoveDrops == ASSUME NEW room \in Rooms, RoomRemove(room) PROVE Calendar!Drop(room)
<1>1. overrides' = {row \in overrides : row.room # room}
  BY DEF RoomRemove
<1>2. CellsOf(overrides)' = CellsOf(overrides')
  BY DEF CellsOf
<1>3. ASSUME NEW cell PROVE
        cell \in CellsOf(overrides') <=> cell \in CellsOf(overrides) /\ cell[1] # room
  BY <1>1, CellsOfRows
<1> QED
  BY <1>2, <1>3 DEF Calendar!Drop

\* A season that is removed from a room has no other row there.
LEMMA RemoveOverrideRemoves ==
    ASSUME IInv, NEW row \in overrides, RemoveOverride(row)
    PROVE  Calendar!Remove(row.id, row.room)
<1>1. overrides' = overrides \ {row}
  BY DEF RemoveOverride
<1>2. \A other \in overrides : other.id = row.id /\ other.room = row.room => other = row
  BY DEF IInv, RowsOK
<1>3. ASSUME NEW cell PROVE
        cell \in CellsOf(overrides') <=>
            cell \in CellsOf(overrides) /\ ~(cell[1] = row.room /\ cell[3] = row.id)
  BY <1>1, <1>2, CellsOfRows
<1>4. CellsOf(overrides)' = CellsOf(overrides')
  BY DEF CellsOf
<1> QED
  BY <1>3, <1>4 DEF Calendar!Remove

\* A season that fits takes nights no season has, in all its rooms at once.
LEMMA SeasonWriteSets ==
    ASSUME IInv, NEW w \in Workers, SeasonWrite(w)
    PROVE  \E s \in SeasonIds, rs \in SUBSET Rooms, first, last \in Nights :
               Calendar!Set(s, rs, first, last)
<1> DEFINE job == jobs[w]
           first == job.form.startDate
           last  == job.form.endDate
<1>1. job \in SeasonJobs /\ Fits(job)
  BY DEF IInv, JobsOK, SeasonWrite, SeasonAt
<1>2. PICK id \in SeasonIds \ {row.id : row \in overrides} :
          overrides' = overrides \cup Inserted(job, id)
  BY DEF SeasonWrite
<1>3. job.rooms \in SUBSET Rooms /\ job.form \in SeasonForms
  BY <1>1 DEF SeasonJobs
<1>4. first \in Nat /\ last \in Nat /\ first <= last
  BY <1>3, SeasonAssumption
<1>5. first \in Nights /\ last \in Nights
  <2>1. first \in first .. last /\ last \in first .. last
    BY <1>4
  <2>2. \A n : n \in first .. last => n \in SeasonNights
    BY <1>3 DEF SeasonNights
  <2> HIDE DEF first, last
  <2> QED
    BY <2>1, <2>2 DEF Nights
<1>6. \A row \in overrides : row.startDate \in Nat /\ row.endDate \in Nat
  BY SeasonAssumption DEF IInv, RowsOK, Row
<1> HIDE DEF job
<1>7. \A cell \in CellsOf(overrides) : cell[3] # id
  BY <1>2, CellsOfRows
<1>8. ASSUME NEW r \in job.rooms, NEW n \in first .. last PROVE Calendar!Free(r, n)
  <2> SUFFICES ASSUME NEW s \in SeasonIds, <<r, n, s>> \in CellsOf(overrides) PROVE FALSE
    BY DEF Calendar!Free
  <2> PICK row \in overrides : row.room = r /\ n \in row.startDate .. row.endDate
    BY CellsOfRows
  <2>1. first <= row.endDate /\ row.startDate <= last
    <3>1. row.startDate \in Nat /\ row.endDate \in Nat
      BY <1>6
    <3> HIDE DEF first, last
    <3> QED
      BY <1>4, <3>1
  <2>2. Overlaps(job.form, row)
    BY <2>1 DEF Overlaps
  <2> QED
    BY <1>1, <2>2 DEF Fits
<1>9. ASSUME NEW cell PROVE
        cell \in CellsOf(overrides') <=>
            cell \in CellsOf(overrides) \/ cell \in job.rooms \X (first .. last) \X {id}
  <2>1. cell \in CellsOf(Inserted(job, id)) <=>
            \E room \in job.rooms : \E n \in first .. last : cell = <<room, n, id>>
    <3>1. \A room : LET row == Row(id, room, job.form) IN
              row.id = id /\ row.room = room /\ row.startDate = first /\ row.endDate = last
      BY DEF Row
    <3>2. \A row : row \in Inserted(job, id) <=>
                       \E room \in job.rooms : row = Row(id, room, job.form)
      BY DEF Inserted
    <3> HIDE DEF first, last
    <3> QED
      BY <3>1, <3>2, CellsOfRows
  <2>2. cell \in CellsOf(overrides') <=>
            cell \in CellsOf(overrides) \/ cell \in CellsOf(Inserted(job, id))
    BY <1>2, CellsOfRows
  <2> QED
    BY <2>1, <2>2
<1>10. CellsOf(overrides)' = CellsOf(overrides) \cup (job.rooms \X (first .. last) \X {id})
  <2>1. CellsOf(overrides)' = CellsOf(overrides')
    BY DEF CellsOf
  <2> QED
    BY <1>9, <2>1
<1>11. Calendar!Set(id, job.rooms, first, last)
  BY <1>7, <1>8, <1>10 DEF Calendar!Set
<1> QED
  BY <1>2, <1>3, <1>5, <1>11

\* Only these three touch the rows.
LEMMA StepsAreTheCalendars ==
    IInv /\ [Next]_vars => [Calendar!Next]_(CellsOf(overrides))
<1> SUFFICES ASSUME IInv, [Next]_vars PROVE [Calendar!Next]_(CellsOf(overrides))
  OBVIOUS
<1>1. ASSUME NEW room \in Rooms, RoomRemove(room) PROVE Calendar!Next
  BY <1>1, RoomRemoveDrops DEF Calendar!Next
<1>2. ASSUME NEW row \in overrides, RemoveOverride(row) PROVE Calendar!Next
  <2>1. row.id \in SeasonIds /\ row.room \in Rooms
    BY DEF IInv, RowsOK
  <2> QED
    BY <1>2, <2>1, RemoveOverrideRemoves DEF Calendar!Next
<1>3. ASSUME NEW w \in Workers, SeasonWrite(w) PROVE Calendar!Next
  BY <1>3, SeasonWriteSets DEF Calendar!Next
<1>4. CASE overrides' = overrides
  BY <1>4 DEF CellsOf
<1> QED
  BY <1>1, <1>2, <1>3, <1>4
  DEF Next, Edit, SeasonStep, BookStep, vars, PropertyUpdate, RoomUpdate, SeasonBegin,
      SeasonCheckRooms, AssertNoOverlap, SeasonRefused, Submit, ReadProperty, ReadRooms,
      ReadOverrides, Read, PriceStay, BookWrite

\* The rates table and everything that writes it implement one calendar of seasons:
\* a season takes its nights in all its rooms at once or not at all, and nights are
\* only ever given back whole.
THEOREM RatesAreACalendar == Spec => ImplementsRateCalendar
<1>1. Init => Calendar!Init
  BY DEF Init, Calendar!Init, CellsOf
<1> QED
  BY <1>1, Invariance, StepsAreTheCalendars, PTL
  DEF Spec, Calendar!Spec, ImplementsRateCalendar

-----------------------------------------------------------------------------
(* Sums.                                                                   *)

\* Of a family of subsets of a finite set, one contains no other.
LEMMA SmallestOf ==
    ASSUME NEW S, IsFiniteSet(S), NEW Family \in SUBSET SUBSET S, Family # {}
    PROVE  \E least \in Family : \A other \in Family : other \subseteq least => other = least
<1>1. IsWellFoundedOn(StrictSubsetOrdering(S), SUBSET S)
  BY FS_StrictSubsetOrderingWellFounded, FS_FiniteSubsetsOfFinite
<1>2. \E x \in Family : \A y \in Family : ~(<<y, x>> \in StrictSubsetOrdering(S))
  BY <1>1, WFMin
<1> QED
  BY <1>2 DEF StrictSubsetOrdering

One(S) == CHOOSE x \in S : TRUE

\* The function that SumFunctionOnSet evaluates: it sums f over every subset of S.
Sums(f, S, sum) ==
    sum = [T \in SUBSET S |-> IF T = {} THEN 0 ELSE f[One(T)] + sum[T \ {One(T)}]]

LEMMA SumIsChosen ==
    ASSUME NEW f, NEW S
    PROVE  SumFunctionOnSet(f, S) = (CHOOSE sum : Sums(f, S, sum))[S]
  BY DEF SumFunctionOnSet, FoldFunctionOnSet, MapThenFoldSet, Sums, One

LEMMA OneIsIn == ASSUME NEW S, S # {} PROVE One(S) \in S
  BY DEF One

\* Two of them agree wherever both are defined.
LEMMA SumsAgree ==
    ASSUME NEW f, NEW S, NEW T \in SUBSET S, IsFiniteSet(T),
           NEW sum, Sums(f, S, sum), NEW partial, Sums(f, T, partial)
    PROVE  sum[T] = partial[T]
<1> DEFINE Apart == {U \in SUBSET T : sum[U] # partial[U]}
<1>1. SUFFICES ASSUME Apart # {} PROVE FALSE
  OBVIOUS
<1>2. PICK least \in Apart : \A other \in Apart : other \subseteq least => other = least
  <2>1. Apart \in SUBSET SUBSET T
    OBVIOUS
  <2> HIDE DEF Apart
  <2> QED
    BY <1>1, <2>1, SmallestOf
<1>3. least # {}
  BY DEF Sums
<1>4. One(least) \in least
  BY <1>3, OneIsIn
<1>5. least \ {One(least)} \in SUBSET T /\ least \ {One(least)} \notin Apart
  BY <1>2, <1>4
<1>6. /\ sum[least] = f[One(least)] + sum[least \ {One(least)}]
      /\ partial[least] = f[One(least)] + partial[least \ {One(least)}]
  BY <1>3 DEF Sums
<1> QED
  BY <1>5, <1>6

LEMMA SumsExist ==
    ASSUME NEW f, NEW S, IsFiniteSet(S)
    PROVE  \E sum : Sums(f, S, sum)
<1> DEFINE Without == {T \in SUBSET S : ~\E sum : Sums(f, T, sum)}
<1>1. SUFFICES ASSUME Without # {} PROVE FALSE
  OBVIOUS
<1>2. PICK least \in Without : \A other \in Without : other \subseteq least => other = least
  <2>1. Without \in SUBSET SUBSET S
    OBVIOUS
  <2> HIDE DEF Without
  <2> QED
    BY <1>1, <2>1, SmallestOf
<1> DEFINE of(T) == CHOOSE sum : Sums(f, T, sum)
           rest(T) == T \ {One(T)}
           sum == [T \in SUBSET least |->
                      IF T = {} THEN 0 ELSE f[One(T)] + of(rest(T))[rest(T)]]
<1>3. ASSUME NEW T \in SUBSET least, T # {}
      PROVE  rest(T) \in SUBSET least /\ Sums(f, rest(T), of(rest(T)))
  <2>1. One(T) \in T
    BY <1>3, OneIsIn
  <2>2. rest(T) \in SUBSET S /\ rest(T) \subseteq least /\ rest(T) # least
    BY <1>2, <2>1
  <2>3. \E other : Sums(f, rest(T), other)
    BY <1>2, <2>2
  <2> QED
    BY <2>2, <2>3
<1>4. ASSUME NEW T \in SUBSET least, T # {} PROVE sum[rest(T)] = of(rest(T))[rest(T)]
  <2> DEFINE R == rest(T)
  <2>1. R \in SUBSET least /\ Sums(f, R, of(R))
    BY <1>3, <1>4
  <2>2. CASE R = {}
    BY <2>1, <2>2 DEF Sums
  <2>3. CASE R # {}
    <3>1. rest(R) \in SUBSET R /\ Sums(f, rest(R), of(rest(R)))
      BY <1>3, <2>1, <2>3
    <3>2. IsFiniteSet(rest(R))
      BY <1>2, <2>1, <3>1, FS_Subset
    <3>3. of(R)[rest(R)] = of(rest(R))[rest(R)]
      BY <2>1, <3>1, <3>2, SumsAgree
    <3>4. of(R)[R] = f[One(R)] + of(R)[rest(R)]
      BY <2>1, <2>3 DEF Sums
    <3>5. sum[R] = f[One(R)] + of(rest(R))[rest(R)]
      BY <2>1, <2>3
    <3> QED
      BY <3>3, <3>4, <3>5
  <2> QED
    BY <2>2, <2>3
<1>5. sum = [T \in SUBSET least |-> IF T = {} THEN 0 ELSE f[One(T)] + sum[T \ {One(T)}]]
  <2> HIDE DEF of
  <2> QED
    BY <1>4
<1>6. Sums(f, least, sum)
  BY <1>5 DEF Sums
<1> QED
  BY <1>2, <1>6

\* What the definition of a sum says: it may be taken an element at a time.
LEMMA SumStep ==
    ASSUME NEW f, NEW S, IsFiniteSet(S)
    PROVE  IF S = {} THEN SumFunctionOnSet(f, S) = 0
           ELSE /\ One(S) \in S
                /\ SumFunctionOnSet(f, S) = f[One(S)] + SumFunctionOnSet(f, S \ {One(S)})
<1> DEFINE of(T) == CHOOSE sum : Sums(f, T, sum)
           rest == S \ {One(S)}
<1>1. IsFiniteSet(rest)
  BY FS_Subset
<1>2. Sums(f, S, of(S)) /\ Sums(f, rest, of(rest))
  BY <1>1, SumsExist
<1>3. SumFunctionOnSet(f, S) = of(S)[S] /\ SumFunctionOnSet(f, rest) = of(rest)[rest]
  BY SumIsChosen
<1>4. of(S)[rest] = of(rest)[rest]
  BY <1>1, <1>2, SumsAgree
<1> HIDE DEF of
<1>5. IF S = {} THEN of(S)[S] = 0 ELSE of(S)[S] = f[One(S)] + of(S)[rest]
  BY <1>2 DEF Sums
<1> QED
  BY <1>3, <1>4, <1>5, OneIsIn

LEMMA SumsAreIntegers ==
    ASSUME NEW f, NEW S, IsFiniteSet(S), \A x \in S : f[x] \in Int
    PROVE  SumFunctionOnSet(f, S) \in Int
<1> DEFINE Wrong == {T \in SUBSET S : SumFunctionOnSet(f, T) \notin Int}
<1>1. SUFFICES ASSUME Wrong # {} PROVE FALSE
  OBVIOUS
<1>2. PICK least \in Wrong : \A other \in Wrong : other \subseteq least => other = least
  <2>1. Wrong \in SUBSET SUBSET S
    OBVIOUS
  <2> HIDE DEF Wrong
  <2> QED
    BY <1>1, <2>1, SmallestOf
<1>3. IsFiniteSet(least)
  BY FS_Subset
<1>4. /\ least # {} /\ One(least) \in least
      /\ SumFunctionOnSet(f, least) = f[One(least)] + SumFunctionOnSet(f, least \ {One(least)})
  <2>1. least # {}
    <3>1. least = {} => SumFunctionOnSet(f, least) = 0
      BY <1>3, SumStep
    <3> QED
      BY <3>1
  <2> QED
    BY <1>3, <2>1, SumStep
<1>5. SumFunctionOnSet(f, least \ {One(least)}) \in Int
  BY <1>2, <1>4
<1> QED
  BY <1>4, <1>5

\* The sum of the sums is the sum of the totals.
LEMMA SumsAdd ==
    ASSUME NEW S, IsFiniteSet(S), NEW f, NEW g, NEW h,
           \A x \in S : f[x] \in Int /\ g[x] \in Int /\ h[x] = f[x] + g[x]
    PROVE  SumFunctionOnSet(h, S) = SumFunctionOnSet(f, S) + SumFunctionOnSet(g, S)
<1> DEFINE Wrong == {T \in SUBSET S : SumFunctionOnSet(h, T)
                                         # SumFunctionOnSet(f, T) + SumFunctionOnSet(g, T)}
<1>1. SUFFICES ASSUME Wrong # {} PROVE FALSE
  OBVIOUS
<1>2. PICK least \in Wrong : \A other \in Wrong : other \subseteq least => other = least
  <2>1. Wrong \in SUBSET SUBSET S
    OBVIOUS
  <2> HIDE DEF Wrong
  <2> QED
    BY <1>1, <2>1, SmallestOf
<1>3. IsFiniteSet(least)
  BY FS_Subset
<1>4. least # {}
  <2>1. least = {} => /\ SumFunctionOnSet(f, least) = 0 /\ SumFunctionOnSet(g, least) = 0
                      /\ SumFunctionOnSet(h, least) = 0
    BY <1>3, SumStep
  <2> QED
    BY <2>1
<1> DEFINE rest == least \ {One(least)}
<1>5. One(least) \in least /\ rest \notin Wrong /\ rest \in SUBSET S
  BY <1>2, <1>4, OneIsIn
<1>6. /\ SumFunctionOnSet(f, least) = f[One(least)] + SumFunctionOnSet(f, rest)
      /\ SumFunctionOnSet(g, least) = g[One(least)] + SumFunctionOnSet(g, rest)
      /\ SumFunctionOnSet(h, least) = h[One(least)] + SumFunctionOnSet(h, rest)
  BY <1>3, <1>4, SumStep
<1>7. SumFunctionOnSet(f, rest) \in Int /\ SumFunctionOnSet(g, rest) \in Int
  <2>1. IsFiniteSet(rest)
    BY <1>3, FS_Subset
  <2> QED
    BY <1>5, <2>1, SumsAreIntegers
<1>8. SumFunctionOnSet(h, rest) = SumFunctionOnSet(f, rest) + SumFunctionOnSet(g, rest)
  BY <1>5
<1>9. f[One(least)] \in Int /\ g[One(least)] \in Int
      /\ h[One(least)] = f[One(least)] + g[One(least)]
  BY <1>5
<1> HIDE DEF rest
<1>10. SumFunctionOnSet(h, least) = SumFunctionOnSet(f, least) + SumFunctionOnSet(g, least)
  BY <1>6, <1>7, <1>8, <1>9
<1> QED
  BY <1>10

\* A bounded set of numbers has a largest.
LEMMA LargestOfBounded ==
    ASSUME NEW S, S # {}, NEW n \in Nat, S \subseteq 0 .. n
    PROVE  Max(S) \in S /\ \A x \in S : Max(S) >= x
<1> DEFINE Above == {x .. n : x \in S}
           All   == 0 .. n
<1>1. \A x \in S : x .. n \subseteq 0 .. n
  OBVIOUS
<1>2. Above \in SUBSET SUBSET All /\ Above # {}
  BY <1>1
<1>3. IsFiniteSet(All)
  BY FS_Interval
<1> HIDE DEF Above, All
<1>4. PICK least \in Above : \A other \in Above : other \subseteq least => other = least
  BY <1>2, <1>3, SmallestOf
<1> USE DEF Above
<1>5. PICK m \in S : least = m .. n
  BY <1>4
<1>6. ASSUME NEW x \in S, m < x PROVE FALSE
  <2>1. x .. n \subseteq least /\ m \in least /\ m \notin x .. n
    BY <1>5, <1>6
  <2> QED
    BY <1>4, <2>1
<1>7. \A x \in S : m >= x
  BY <1>6
<1> QED
  BY <1>7 DEF Max

-----------------------------------------------------------------------------
(* What a quote says of the rates it is given.                             *)

InputOK(input) ==
    /\ input.checkIn \in Nat /\ input.checkOut \in Nat /\ input.checkIn < input.checkOut
    /\ IsFiniteSet(DOMAIN input.guests)
    /\ \A room \in DOMAIN input.guests : input.guests[room] \in Nat
    /\ \A room \in DOMAIN input.rates :
           /\ input.rates[room].baseRate \in Nat \cup {Null}
           /\ input.rates[room].weekendRate \in Nat \cup {Null}
           /\ input.rates[room].standardOccupancy \in Nat
           /\ input.rates[room].extraGuestCharge \in Nat
    /\ \A o \in input.overrides : o.nightlyRate \in Nat
    /\ input.mealCharge \in Nat

\* Every tariff has a slab, and the slab is the band of the tax rules.
LEMMA SlabsAreTheBands ==
    ASSUME NEW tariff \in Nat PROVE GstBasisPointsFor(tariff) = TaxBand(tariff)
<1> DEFINE reached == {i \in DOMAIN GstSlabs : \/ GstSlabs[i].maxTariff = Null
                                               \/ tariff <= GstSlabs[i].maxTariff}
           slab == Min(reached)
<1>1. DOMAIN GstSlabs = {1, 2, 3}
  BY DEF GstSlabs
<1>2. /\ GstSlabs[1].maxTariff = 100000 /\ GstSlabs[1].basisPoints = 0
      /\ GstSlabs[2].maxTariff = 750000 /\ GstSlabs[2].basisPoints = 500
      /\ GstSlabs[3].maxTariff = Null /\ GstSlabs[3].basisPoints = 1800
  BY DEF GstSlabs
<1>3. /\ reached \subseteq {1, 2, 3} /\ 3 \in reached
      /\ 2 \in reached <=> tariff <= 750000
      /\ 1 \in reached <=> tariff <= 100000
  BY <1>1, <1>2 DEF Null
<1>4. GstBasisPointsFor(tariff) = GstSlabs[slab].basisPoints
  BY DEF GstBasisPointsFor
<1> HIDE DEF reached
<1>5. slab \in reached /\ \A i \in reached : slab <= i
  <2>1. \E i \in reached : \A j \in reached : i <= j
    <3>1. CASE 1 \in reached
      BY <1>3, <3>1
    <3>2. CASE 1 \notin reached /\ 2 \in reached
      BY <1>3, <3>2
    <3>3. CASE 1 \notin reached /\ 2 \notin reached
      BY <1>3, <3>3
    <3> QED
      BY <3>1, <3>2, <3>3
  <2> QED
    BY <2>1 DEF Min
<1> HIDE DEF slab
<1>6. slab = IF tariff <= 100000 THEN 1 ELSE IF tariff <= 750000 THEN 2 ELSE 3
  BY <1>3, <1>5
<1> QED
  BY <1>2, <1>4, <1>6 DEF TaxBand

\* A tax in basis points is whole paise, and off by half of one at the most.
Rounded(tariff, points) ==
    /\ BasisPointsOf(tariff, points) \in Int
    /\ ToHalfAPaisa(BasisPointsOf(tariff, points), tariff, points)

LEMMA TaxIsRounded ==
    ASSUME NEW tariff \in Nat, NEW points \in {0, 500, 1800}
    PROVE  Rounded(tariff, points)
<1>1. Rounded(tariff, 0)
  <2>1. tariff * 0 = 0 /\ (0 + 5000) \div 10000 = 0
    OBVIOUS
  <2> QED
    BY <2>1 DEF Rounded, ToHalfAPaisa, BasisPointsOf
<1>2. Rounded(tariff, 500)
  BY DEF Rounded, ToHalfAPaisa, BasisPointsOf
<1>3. Rounded(tariff, 1800)
  BY DEF Rounded, ToHalfAPaisa, BasisPointsOf
<1> QED
  BY <1>1, <1>2, <1>3

\* A night that has a source has an amount.
LEMMA ResolvedRateIsAnAmount ==
    ASSUME NEW rates, NEW seasons, NEW night, RateSource(rates, seasons, night) # "none",
           rates.baseRate \in Nat \cup {Null}, rates.weekendRate \in Nat \cup {Null},
           \A o \in seasons : o.nightlyRate \in Nat
    PROVE  ResolvedRate(rates, seasons, night) \in Nat
<1>1. CASE RateSource(rates, seasons, night) = "override"
  <2>1. OverridesCovering(seasons, night) # {}
    BY <1>1 DEF RateSource
  <2>2. (CHOOSE o \in OverridesCovering(seasons, night) : TRUE) \in seasons
    BY <2>1 DEF OverridesCovering
  <2> QED
    BY <1>1, <2>2 DEF ResolvedRate
<1>2. CASE RateSource(rates, seasons, night) = "weekend"
  BY <1>2 DEF ResolvedRate, RateSource
<1>3. CASE RateSource(rates, seasons, night) \notin {"override", "weekend"}
  <2>1. RateSource(rates, seasons, night) = "base"
    BY <1>3 DEF RateSource
  <2>2. rates.baseRate # Null
    BY <2>1 DEF RateSource
  <2> QED
    BY <2>1, <2>2 DEF ResolvedRate
<1> QED
  BY <1>1, <1>2, <1>3

\* The heads above the standard occupancy, if any.
LEMMA MaxWithZero == ASSUME NEW n \in Int PROVE Max({0, n}) \in Nat
<1>1. \E x \in {0, n} : \A y \in {0, n} : x >= y
  <2>1. CASE n >= 0
    BY <2>1
  <2>2. CASE n < 0
    BY <2>2
  <2> QED
    BY <2>1, <2>2
<1>2. Max({0, n}) \in {0, n} /\ Max({0, n}) >= 0
  BY <1>1 DEF Max
<1> QED
  BY <1>2

LineOK(line) == /\ line.roomCharge \in Nat /\ line.extraGuestCharge \in Nat
                /\ line.mealCharge \in Nat /\ line.tariff \in Nat /\ line.taxAmount \in Int
                /\ LineReconciles(line)

LEMMA NightsHaveLines ==
    ASSUME NEW input, InputOK(input), NEW room \in DOMAIN input.guests \ Unpriced(input),
           NEW night \in StayOf(input)
    PROVE  /\ LineOK(NightLine(input, room, night))
           /\ NightLine(input, room, night).room = room
           /\ NightLine(input, room, night).date = night
<1> DEFINE rates  == input.rates[room]
           heads  == input.guests[room]
           rate   == ResolvedRate(rates, RatesOf(input, room), night)
           over   == Max({0, heads - rates.standardOccupancy})
           extra  == over * rates.extraGuestCharge
           meal   == IF input.mealPlan = "ROOM_ONLY" THEN 0 ELSE input.mealCharge * heads
           tariff == rate + extra + meal
           points == IF input.gstEnabled THEN GstBasisPointsFor(tariff) ELSE 0
           tax    == BasisPointsOf(tariff, points)
           line   == NightLine(input, room, night)
<1>1. room \in DOMAIN input.rates
      /\ RateSource(rates, RatesOf(input, room), night) # "none"
  BY DEF Unpriced, Known
<1>2. /\ heads \in Nat /\ rates.standardOccupancy \in Nat /\ rates.extraGuestCharge \in Nat
      /\ rates.baseRate \in Nat \cup {Null} /\ rates.weekendRate \in Nat \cup {Null}
      /\ input.mealCharge \in Nat /\ \A o \in input.overrides : o.nightlyRate \in Nat
  BY <1>1 DEF InputOK
<1>3. rate \in Nat
  <2>1. \A o \in RatesOf(input, room) : o.nightlyRate \in Nat
    BY <1>2 DEF RatesOf
  <2> QED
    BY <1>1, <1>2, <2>1, ResolvedRateIsAnAmount
<1>4. /\ line.room = room /\ line.date = night /\ line.roomCharge = rate
      /\ line.extraGuestCharge = extra /\ line.mealCharge = meal /\ line.tariff = tariff
      /\ line.gstBasisPoints = points /\ line.taxAmount = tax
  BY DEF NightLine
<1> HIDE DEF rates, heads, rate, line
<1>5. over \in Nat
  BY <1>2, MaxWithZero
<1> HIDE DEF over
<1>6. extra \in Nat
  BY <1>2, <1>5
<1>7. meal \in Nat
  BY <1>2
<1> HIDE DEF extra, meal
<1>8. tariff \in Nat /\ tariff = rate + extra + meal
  BY <1>3, <1>6, <1>7
<1> HIDE DEF tariff
<1>9. points \in {0, TaxBand(tariff)}
  BY <1>8, SlabsAreTheBands
<1>10. points \in {0, 500, 1800}
  BY <1>9 DEF TaxBand
<1> HIDE DEF points
<1>11. tax \in Int /\ ToHalfAPaisa(tax, tariff, points)
  BY <1>8, <1>10, TaxIsRounded DEF Rounded
<1> HIDE DEF tax
<1>12. LineReconciles(line)
  BY <1>4, <1>8, <1>9, <1>11 DEF LineReconciles
<1>13. LineOK(line)
  BY <1>3, <1>4, <1>6, <1>7, <1>8, <1>11, <1>12 DEF LineOK
<1> QED
  BY <1>4, <1>13 DEF line

\* A line for each priced room and night, and no other.
LEMMA LinesAreOfNights ==
    ASSUME NEW input, InputOK(input)
    PROVE  /\ IsFiniteSet(Lines(input))
           /\ \A line \in Lines(input) : LineOK(line)
           /\ Unpriced(input) = {} =>
                  {<<line.room, line.date>> : line \in Lines(input)}
                      = (DOMAIN input.guests) \X StayOf(input)
<1> DEFINE Rs == DOMAIN input.guests \ Unpriced(input)
           Ns == StayOf(input)
           of == [cell \in Rs \X Ns |-> NightLine(input, cell[1], cell[2])]
<1>1. \A line : line \in Lines(input) <=>
          \E room \in Rs, night \in Ns : line = NightLine(input, room, night)
  BY DEF Lines
<1>2. \A room \in Rs, night \in Ns :
          /\ LineOK(NightLine(input, room, night))
          /\ NightLine(input, room, night).room = room
          /\ NightLine(input, room, night).date = night
  BY NightsHaveLines
<1>3. IsFiniteSet(Rs \X Ns)
  <2>1. IsFiniteSet(Rs)
    BY FS_Subset DEF InputOK
  <2>2. IsFiniteSet(Ns)
    <3>1. input.checkIn \in Int /\ input.checkOut - 1 \in Int
      BY DEF InputOK
    <3> QED
      BY <3>1, FS_Interval DEF StayOf, NightsBetween
  <2> HIDE DEF Rs, Ns
  <2> QED
    BY <2>1, <2>2, FS_Product
<1> HIDE DEF Rs, Ns
<1>4. of \in Surjection(Rs \X Ns, Lines(input))
  <2>1. of \in [Rs \X Ns -> Lines(input)]
    BY <1>1
  <2>2. \A line \in Lines(input) : \E cell \in Rs \X Ns : of[cell] = line
    <3> SUFFICES ASSUME NEW line \in Lines(input) PROVE \E cell \in Rs \X Ns : of[cell] = line
      OBVIOUS
    <3>1. PICK room \in Rs, night \in Ns : line = NightLine(input, room, night)
      BY <1>1
    <3>2. <<room, night>> \in Rs \X Ns /\ of[<<room, night>>] = line
      BY <3>1
    <3> QED
      BY <3>2
  <2> HIDE DEF of
  <2> QED
    BY <2>1, <2>2 DEF Surjection
<1>5. IsFiniteSet(Lines(input))
  <2> HIDE DEF of
  <2> QED
    BY <1>3, <1>4, FS_Surjection
<1>6. \A line \in Lines(input) : LineOK(line)
  BY <1>1, <1>2
<1>7. {<<line.room, line.date>> : line \in Lines(input)} = Rs \X Ns
  <2> DEFINE cells == {<<line.room, line.date>> : line \in Lines(input)}
  <2>1. ASSUME NEW cell \in cells PROVE cell \in Rs \X Ns
    BY <1>1, <1>2
  <2>2. ASSUME NEW room \in Rs, NEW night \in Ns PROVE <<room, night>> \in cells
    <3> DEFINE line == NightLine(input, room, night)
    <3>1. line \in Lines(input) /\ line.room = room /\ line.date = night
      BY <1>1, <1>2
    <3> HIDE DEF line
    <3> QED
      BY <3>1
  <2> HIDE DEF cells
  <2>3. cells = Rs \X Ns
    BY <2>1, <2>2
  <2> QED
    BY <2>3 DEF cells
<1> QED
  BY <1>5, <1>6, <1>7 DEF Rs, Ns

\* The totals of a quote are what its lines come to with their tax.
LEMMA TotalsAdd ==
    ASSUME NEW lines, IsFiniteSet(lines), \A line \in lines : LineOK(line)
    PROVE  /\ Total(lines, "roomCharge") \in Int /\ Total(lines, "extraGuestCharge") \in Int
           /\ Total(lines, "mealCharge") \in Int /\ Total(lines, "taxAmount") \in Int
           /\ Total(lines, "roomCharge") + Total(lines, "extraGuestCharge")
                  + Total(lines, "mealCharge") + Total(lines, "taxAmount")
              = SumFunction([line \in lines |-> line.tariff + line.taxAmount])
<1> DEFINE part(name) == [line \in lines |-> line[name]]
           charges == [line \in lines |-> line.roomCharge + line.extraGuestCharge]
           tariffs == part("tariff")
           amounts == [line \in lines |-> line.tariff + line.taxAmount]
<1>1. \A name : Total(lines, name) = SumFunctionOnSet(part(name), lines)
  BY DEF Total, SumFunction
<1>2. SumFunction(amounts) = SumFunctionOnSet(amounts, lines)
  BY DEF SumFunction
<1>3. \A line \in lines :
          /\ part("roomCharge")[line] \in Int /\ part("extraGuestCharge")[line] \in Int
          /\ part("mealCharge")[line] \in Int /\ part("taxAmount")[line] \in Int
          /\ tariffs[line] \in Int /\ charges[line] \in Int
          /\ charges[line] = part("roomCharge")[line] + part("extraGuestCharge")[line]
          /\ tariffs[line] = charges[line] + part("mealCharge")[line]
          /\ amounts[line] = tariffs[line] + part("taxAmount")[line]
  <2> SUFFICES ASSUME NEW line \in lines
               PROVE  /\ part("roomCharge")[line] \in Int /\ part("extraGuestCharge")[line] \in Int
                      /\ part("mealCharge")[line] \in Int /\ part("taxAmount")[line] \in Int
                      /\ tariffs[line] \in Int /\ charges[line] \in Int
                      /\ charges[line] = part("roomCharge")[line] + part("extraGuestCharge")[line]
                      /\ tariffs[line] = charges[line] + part("mealCharge")[line]
                      /\ amounts[line] = tariffs[line] + part("taxAmount")[line]
    OBVIOUS
  <2>1. /\ part("roomCharge")[line] = line.roomCharge
        /\ part("extraGuestCharge")[line] = line.extraGuestCharge
        /\ part("mealCharge")[line] = line.mealCharge /\ part("taxAmount")[line] = line.taxAmount
        /\ tariffs[line] = line.tariff /\ amounts[line] = line.tariff + line.taxAmount
        /\ charges[line] = line.roomCharge + line.extraGuestCharge
    OBVIOUS
  <2> HIDE DEF part, charges, tariffs, amounts
  <2>2. LineOK(line) /\ LineReconciles(line)
    BY DEF LineOK
  <2> QED
    BY <2>1, <2>2 DEF LineOK, LineReconciles
<1> DEFINE rooms_ == part("roomCharge")
           extras == part("extraGuestCharge")
           meals  == part("mealCharge")
           taxes  == part("taxAmount")
<1>4. /\ Total(lines, "roomCharge") = SumFunctionOnSet(rooms_, lines)
      /\ Total(lines, "extraGuestCharge") = SumFunctionOnSet(extras, lines)
      /\ Total(lines, "mealCharge") = SumFunctionOnSet(meals, lines)
      /\ Total(lines, "taxAmount") = SumFunctionOnSet(taxes, lines)
  BY <1>1
<1> HIDE DEF part, charges, tariffs, amounts, rooms_, extras, meals, taxes
<1>5. /\ SumFunctionOnSet(rooms_, lines) \in Int /\ SumFunctionOnSet(extras, lines) \in Int
      /\ SumFunctionOnSet(meals, lines) \in Int /\ SumFunctionOnSet(taxes, lines) \in Int
  BY <1>3, SumsAreIntegers DEF rooms_, extras, meals, taxes
<1>6. SumFunctionOnSet(charges, lines)
          = SumFunctionOnSet(rooms_, lines) + SumFunctionOnSet(extras, lines)
  BY <1>3, SumsAdd DEF rooms_, extras
<1>7. SumFunctionOnSet(tariffs, lines)
          = SumFunctionOnSet(charges, lines) + SumFunctionOnSet(meals, lines)
  BY <1>3, SumsAdd DEF meals
<1>8. SumFunctionOnSet(amounts, lines)
          = SumFunctionOnSet(tariffs, lines) + SumFunctionOnSet(taxes, lines)
  BY <1>3, SumsAdd DEF taxes
<1>9. SumFunction(amounts) = SumFunctionOnSet(rooms_, lines) + SumFunctionOnSet(extras, lines)
                            + SumFunctionOnSet(meals, lines) + SumFunctionOnSet(taxes, lines)
  BY <1>2, <1>6, <1>7, <1>8
<1> QED
  BY <1>4, <1>5, <1>9 DEF amounts

QuoteReconciles(input) ==
    LET price == QuoteOf(input) IN
    /\ price.total = SumFunction([line \in price.lines |-> line.tariff + line.taxAmount])
    /\ price.total = price.subtotal + price.taxTotal
    /\ \A line \in price.lines : LineReconciles(line)
    /\ price.unpricedRooms = {} => {<<line.room, line.date>> : line \in price.lines}
                                       = (DOMAIN input.guests) \X StayOf(input)

LEMMA QuotesReconcile == ASSUME NEW input, InputOK(input) PROVE QuoteReconciles(input)
<1> DEFINE price == QuoteOf(input)
           lines == Lines(input)
<1>1. /\ price.lines = lines /\ price.unpricedRooms = Unpriced(input)
      /\ price.subtotal = Total(lines, "roomCharge") + Total(lines, "extraGuestCharge")
                              + Total(lines, "mealCharge")
      /\ price.taxTotal = Total(lines, "taxAmount")
      /\ price.total = Total(lines, "roomCharge") + Total(lines, "extraGuestCharge")
                           + Total(lines, "mealCharge") + Total(lines, "taxAmount")
  BY DEF QuoteOf
<1>2. IsFiniteSet(lines) /\ \A line \in lines : LineOK(line)
  BY LinesAreOfNights
<1>3. Unpriced(input) = {} => {<<line.room, line.date>> : line \in lines}
                                  = (DOMAIN input.guests) \X StayOf(input)
  BY LinesAreOfNights
<1> HIDE DEF price, lines
<1>4. Total(lines, "roomCharge") + Total(lines, "extraGuestCharge")
          + Total(lines, "mealCharge") + Total(lines, "taxAmount")
      = SumFunction([line \in lines |-> line.tariff + line.taxAmount])
  BY <1>2, TotalsAdd
<1>5. \A line \in lines : LineReconciles(line)
  BY <1>2 DEF LineOK
<1> QED
  BY <1>1, <1>3, <1>4, <1>5 DEF QuoteReconciles, price

\* A room's quote asks its rates only of the rooms of the stay.
LEMMA SameRatesSameTotal ==
    ASSUME NEW tables, NEW seen, NEW stay,
           seen.property = tables.property, seen.overrides = tables.overrides,
           seen.rooms = [r \in DOMAIN tables.rooms \cap DOMAIN stay.guests |-> tables.rooms[r]]
    PROVE  Shown(seen, stay) = Shown(tables, stay)
<1> DEFINE read == QuoteInput(seen, stay)
           all  == QuoteInput(tables, stay)
<1>1. /\ read.checkIn = all.checkIn /\ read.checkOut = all.checkOut /\ read.guests = all.guests
      /\ read.overrides = all.overrides /\ read.mealPlan = all.mealPlan
      /\ read.mealCharge = all.mealCharge /\ read.gstEnabled = all.gstEnabled
      /\ read.guests = stay.guests
  BY DEF QuoteInput, MealPlanOf
<1>2. read.rates = seen.rooms /\ all.rates = tables.rooms
  BY DEF QuoteInput
<1> HIDE DEF read, all
<1>3. Known(read) = Known(all) /\ \A room \in Known(all) : read.rates[room] = all.rates[room]
  BY <1>1, <1>2 DEF Known
<1>4. StayOf(read) = StayOf(all) /\ \A room : RatesOf(read, room) = RatesOf(all, room)
  BY <1>1 DEF StayOf, RatesOf
<1>5. Unpriced(read) = Unpriced(all)
  BY <1>1, <1>3, <1>4 DEF Unpriced
<1>6. ASSUME NEW room \in Known(all), NEW night
      PROVE  NightLine(read, room, night) = NightLine(all, room, night)
  BY <1>1, <1>3, <1>4 DEF NightLine
<1>7. Lines(read) = Lines(all)
  <2>1. \A room \in DOMAIN all.guests \ Unpriced(all) : room \in Known(all)
    BY DEF Unpriced
  <2>2. Lines(read) = {NightLine(read, room, night) :
                          room \in DOMAIN all.guests \ Unpriced(all), night \in StayOf(all)}
    BY <1>1, <1>4, <1>5 DEF Lines
  <2> QED
    BY <1>6, <2>1, <2>2 DEF Lines
<1>8. QuoteOf(read).total = QuoteOf(all).total
  BY <1>7 DEF QuoteOf
<1> QED
  BY <1>8 DEF Shown, read, all

\* What create has of the three tables once it has read them.
SeasonRow(row) == \E form \in SeasonForms : row = Row(row.id, row.room, form)

RowsApart(rows) == \A a, b \in rows : a.room = b.room /\ Overlaps(a, b) => a = b

SeenOK(seen) ==
    /\ seen.property # Unread => seen.property \in PropertyForms
    /\ seen.rooms # Unread => \A room \in DOMAIN seen.rooms :
           room \in Rooms /\ seen.rooms[room] \in RoomForms[room]
    /\ seen.overrides # Unread => /\ \A row \in seen.overrides : SeasonRow(row)
                                  /\ RowsApart(seen.overrides)

Whole(seen) == seen.property # Unread /\ seen.rooms # Unread /\ seen.overrides # Unread

LEMMA RowsAreForms ==
    ASSUME NEW row, SeasonRow(row)
    PROVE  /\ row.startDate \in Nat /\ row.endDate \in Nat /\ row.nightlyRate \in Nat
           /\ row.minStayNights \in {Null} \cup 1 .. 30
<1>1. PICK form \in SeasonForms : row = Row(row.id, row.room, form)
  BY DEF SeasonRow
<1>2. /\ row.startDate = form.startDate /\ row.endDate = form.endDate
      /\ row.nightlyRate = form.nightlyRate /\ row.minStayNights = form.minStayNights
  <2>1. \A id, room : LET of == Row(id, room, form) IN
            /\ of.startDate = form.startDate /\ of.endDate = form.endDate
            /\ of.nightlyRate = form.nightlyRate /\ of.minStayNights = form.minStayNights
    BY DEF Row
  <2> QED
    BY <1>1, <2>1
<1>3. form.startDate \in Nat /\ form.endDate \in Nat /\ form.nightlyRate \in Nat
      /\ form.minStayNights \in {Null} \cup 1 .. 30
  BY SeasonAssumption, RatesAssumption
<1> QED
  BY <1>2, <1>3

LEMMA SeenIsAnInput ==
    ASSUME NEW seen, SeenOK(seen), Whole(seen), NEW stay \in Stays
    PROVE  InputOK(QuoteInput(seen, stay))
<1> DEFINE input == QuoteInput(seen, stay)
<1>1. /\ input.checkIn = stay.checkIn /\ input.checkOut = stay.checkOut
      /\ input.guests = stay.guests /\ input.rates = seen.rooms
      /\ input.overrides = seen.overrides /\ input.mealCharge = seen.property.mealCharge
  BY DEF QuoteInput
<1> HIDE DEF input
<1>2. /\ input.checkIn \in Nat /\ input.checkOut \in Nat /\ input.checkIn < input.checkOut
      /\ IsFiniteSet(DOMAIN input.guests)
      /\ \A room \in DOMAIN input.guests : input.guests[room] \in Nat
  BY <1>1, StayAssumption
<1>3. \A room \in DOMAIN seen.rooms : room \in Rooms /\ seen.rooms[room] \in RoomForms[room]
  BY DEF SeenOK, Whole
<1>4. \A room \in DOMAIN input.rates :
           /\ input.rates[room].baseRate \in Nat \cup {Null}
           /\ input.rates[room].weekendRate \in Nat \cup {Null}
           /\ input.rates[room].standardOccupancy \in Nat
           /\ input.rates[room].extraGuestCharge \in Nat
  BY <1>1, <1>3, RatesAssumption
<1>5. \A o \in input.overrides : o.nightlyRate \in Nat
  BY <1>1, RowsAreForms DEF SeenOK, Whole
<1>6. input.mealCharge \in Nat
  BY <1>1, RatesAssumption DEF SeenOK, Whole
<1> QED
  BY <1>2, <1>4, <1>5, <1>6 DEF InputOK, input

\* Of seasons that never overlap, the one that covers a night is the one that is found.
LEMMA TheSeasonDecides ==
    ASSUME NEW input, InputOK(input), RowsApart(input.overrides),
           \A o \in input.overrides : SeasonRow(o),
           NEW room, NEW night \in StayOf(input), NEW o \in RatesOf(input, room),
           Covers(o, night)
    PROVE  NightLine(input, room, night).roomCharge = o.nightlyRate
<1> DEFINE covering == OverridesCovering(RatesOf(input, room), night)
<1>1. o \in covering
  BY DEF OverridesCovering
<1>2. ASSUME NEW a \in covering, NEW b \in covering PROVE a = b
  <2>1. /\ a \in input.overrides /\ b \in input.overrides /\ a.room = b.room
        /\ night \in a.startDate .. a.endDate /\ night \in b.startDate .. b.endDate
    BY <1>2 DEF OverridesCovering, RatesOf, Covers
  <2>2. /\ a.startDate \in Nat /\ a.endDate \in Nat /\ b.startDate \in Nat /\ b.endDate \in Nat
    BY <2>1, RowsAreForms
  <2>3. Overlaps(a, b)
    BY <2>1, <2>2 DEF Overlaps
  <2> QED
    BY <2>1, <2>3 DEF RowsApart
<1>3. (CHOOSE x \in covering : TRUE) = o
  BY <1>1, <1>2
<1>4. RateSource(input.rates[room], RatesOf(input, room), night) = "override"
  BY <1>1 DEF RateSource
<1>5. ResolvedRate(input.rates[room], RatesOf(input, room), night) = o.nightlyRate
  BY <1>3, <1>4 DEF ResolvedRate
<1> QED
  BY <1>5 DEF NightLine

\* A stay that falls short of no season's minimum is as long as each one it touches asks.
LEMMA TheSeasonIsLongEnough ==
    ASSUME NEW input, InputOK(input), \A o \in input.overrides : SeasonRow(o),
           ShortOfMinStay(input) = {},
           NEW room \in Known(input), NEW night \in StayOf(input), NEW o \in RatesOf(input, room),
           Covers(o, night)
    PROVE  input.checkOut - input.checkIn >= o.minStayNights
<1> DEFINE asked == {1} \cup {x.minStayNights : x \in {x \in RatesOf(input, room) :
                        x.minStayNights # Null /\ \E n \in StayOf(input) : Covers(x, n)}}
<1>1. MinStayFor(RatesOf(input, room), StayOf(input)) = Max(asked)
  BY DEF MinStayFor
<1>2. Cardinality(StayOf(input)) = input.checkOut - input.checkIn
  <2>1. /\ input.checkIn \in Int /\ input.checkOut - 1 \in Int
        /\ input.checkIn <= input.checkOut - 1 /\ input.checkOut \in Int
    BY DEF InputOK
  <2>2. Cardinality(input.checkIn .. (input.checkOut - 1))
            = (input.checkOut - 1) - input.checkIn + 1
    <3>1. \A a, b \in Int : a <= b => Cardinality(a .. b) = b - a + 1
      <4> TAKE a, b \in Int
      <4>1. Cardinality(a .. b) = IF a > b THEN 0 ELSE b - a + 1
        BY FS_Interval
      <4> QED
        BY <4>1
    <3> QED
      BY <2>1, <3>1
  <2> QED
    BY <2>1, <2>2 DEF StayOf, NightsBetween
<1>3. \A x \in RatesOf(input, room) : x.minStayNights \in {Null} \cup 1 .. 30
  BY RowsAreForms DEF RatesOf
<1>4. asked \subseteq 0 .. 30 /\ asked # {} /\ 30 \in Nat
  BY <1>3
<1>5. o.minStayNights # Null => o.minStayNights \in asked
  OBVIOUS
<1> HIDE DEF asked
<1>6. Max(asked) \in 0 .. 30 /\ \A x \in asked : Max(asked) >= x
  BY <1>4, LargestOfBounded
<1>7. ~(Cardinality(StayOf(input)) < Max(asked))
  BY <1>1 DEF ShortOfMinStay
<1>8. input.checkOut - input.checkIn \in Nat /\ input.checkOut - input.checkIn >= Max(asked)
  BY <1>2, <1>6, <1>7 DEF InputOK
<1>9. CASE o.minStayNights = Null
  BY <1>8, <1>9 DEF Null
<1>10. CASE o.minStayNights # Null
  <2>1. o.minStayNights \in asked /\ o.minStayNights \in 1 .. 30
    BY <1>3, <1>5, <1>10
  <2> QED
    BY <1>6, <1>8, <2>1
<1> QED
  BY <1>9, <1>10

-----------------------------------------------------------------------------
(* Bookings on their way, and the ones that are written.                   *)

Shaped(job) ==
    job = [kind |-> "book", step |-> job.step,
           seen |-> [property |-> job.seen.property, rooms |-> job.seen.rooms,
                     overrides |-> job.seen.overrides],
           stay |-> job.stay, shown |-> job.shown, price |-> job.price,
           undisturbed |-> job.undisturbed]

\* A price is what quote() makes of the three tables as they were read, refused by nothing.
BookOK(job) ==
    /\ Shaped(job) /\ job.stay \in Stays /\ SeenOK(job.seen)
    /\ job.step = "write" => /\ Whole(job.seen) /\ ~Refuses(job.seen, job.stay)
                             /\ job.price = Priced(job.seen, job.stay)

\* Until something is edited, what was read is what the form was shown.
Current(job) ==
    \/ job.undisturbed = FALSE
    \/ /\ job.seen.property # Unread => job.seen.property = property
       /\ job.seen.rooms # Unread => job.seen.rooms =
              [r \in DOMAIN rooms \cap DOMAIN job.stay.guests |-> rooms[r]]
       /\ job.seen.overrides # Unread => job.seen.overrides = overrides
       /\ job.shown = Shown(Tables, job.stay)

Kinds == {"idle", "season", "book"}

BookJobsOK == \A w \in Workers :
    /\ jobs[w].kind \in Kinds
    /\ jobs[w].kind = "book" => BookOK(jobs[w]) /\ Current(jobs[w])

TablesOK == /\ property \in PropertyForms /\ DOMAIN rooms \subseteq Rooms
            /\ \A room \in DOMAIN rooms : rooms[room] \in RoomForms[room]
            /\ \A row \in overrides : row.room \in DOMAIN rooms

BookingsOK == /\ DOMAIN bookings \subseteq BookingIds
              /\ \A id \in DOMAIN bookings : Reconciles(bookings[id].stay, bookings[id].price)

PriceInv == IInv /\ TablesOK /\ BookJobsOK /\ BookingsOK

\* What a form sent is not lost when somebody edits: only its quote is.
LEMMA SpoiltIsOK ==
    ASSUME NEW job, BookOK(job)
    PROVE  /\ BookOK([job EXCEPT !.undisturbed = FALSE, !.shown = Unread])
           /\ [job EXCEPT !.undisturbed = FALSE, !.shown = Unread].undisturbed = FALSE
           /\ [job EXCEPT !.undisturbed = FALSE, !.shown = Unread].kind = "book"
<1> DEFINE spoilt == [job EXCEPT !.undisturbed = FALSE, !.shown = Unread]
           no   == FALSE
           same == [kind |-> "book", step |-> job.step, seen |-> job.seen, stay |-> job.stay,
                    shown |-> Unread, price |-> job.price, undisturbed |-> no]
<1> HIDE DEF no
<1>1. spoilt = same
  <2> DEFINE all == [kind |-> "book", step |-> job.step, seen |-> job.seen,
                     stay |-> job.stay, shown |-> job.shown, price |-> job.price,
                     undisturbed |-> job.undisturbed]
             part == [all EXCEPT !.undisturbed = no]
  <2>1. job = all
    BY DEF BookOK, Shaped
  <2>2. part = [kind |-> "book", step |-> job.step, seen |-> job.seen, stay |-> job.stay,
                shown |-> job.shown, price |-> job.price, undisturbed |-> no]
    OBVIOUS
  <2> HIDE DEF part
  <2>3. [part EXCEPT !.shown = Unread] = same
    BY <2>2
  <2> HIDE DEF all, same
  <2>4. [all EXCEPT !.undisturbed = FALSE, !.shown = Unread] = [part EXCEPT !.shown = Unread]
    BY DEF part, no
  <2> QED
    BY <2>1, <2>3, <2>4
<1>2. /\ same.kind = "book" /\ same.step = job.step /\ same.stay = job.stay
      /\ same.price = job.price /\ same.undisturbed = no /\ same.shown = Unread
      /\ same.seen = job.seen
  OBVIOUS
<1>3. job.seen = [property |-> job.seen.property, rooms |-> job.seen.rooms,
                  overrides |-> job.seen.overrides]
  BY DEF BookOK, Shaped
<1>4. Shaped(same)
  BY <1>2, <1>3 DEF Shaped
<1> HIDE DEF same
<1>5. BookOK(same)
  BY <1>2, <1>4 DEF BookOK
<1> QED
  BY <1>1, <1>2, <1>5 DEF no

LEMMA EditsKeepBookJobs ==
    ASSUME JobsOK, BookJobsOK,
           \A w \in Workers : jobs'[w] = Disturbed[w] \/ jobs'[w] = Idle
    PROVE  BookJobsOK'
<1>0. ASSUME NEW w \in Workers PROVE jobs'[w].kind \in Kinds
  <2>1. CASE jobs[w].kind = "book"
    <3> DEFINE spoilt == [jobs[w] EXCEPT !.undisturbed = FALSE, !.shown = Unread]
    <3>1. spoilt.kind = "book"
      BY <2>1, SpoiltIsOK DEF BookJobsOK
    <3>2. Disturbed[w] = spoilt
      BY <2>1 DEF Disturbed
    <3> HIDE DEF spoilt
    <3> QED
      BY <3>1, <3>2 DEF Kinds, Idle
  <2>2. CASE jobs[w].kind # "book"
    <3>1. Disturbed[w] = jobs[w]
      BY <2>2 DEF Disturbed
    <3> QED
      BY <3>1 DEF BookJobsOK, Kinds, Idle
  <2> QED
    BY <2>1, <2>2
<1> SUFFICES ASSUME NEW w \in Workers, jobs'[w].kind = "book"
             PROVE  BookOK(jobs'[w]) /\ Current(jobs[w])'
  BY <1>0 DEF BookJobsOK
<1>1. jobs'[w] = Disturbed[w]
  BY DEF Idle
<1>2. jobs[w].kind = "book"
  BY <1>1 DEF Disturbed
<1>3. jobs'[w] = [jobs[w] EXCEPT !.undisturbed = FALSE, !.shown = Unread]
  BY <1>1, <1>2 DEF Disturbed
<1>4. BookOK(jobs[w])
  BY <1>2 DEF BookJobsOK
<1>5. BookOK(jobs'[w]) /\ jobs'[w].undisturbed = FALSE
  BY <1>3, <1>4, SpoiltIsOK
<1> QED
  BY <1>5 DEF Current

\* One request moves, and nothing it read from does.
LEMMA OneJobMoves ==
    ASSUME JobsOK, BookJobsOK, NEW w \in Workers, NEW job,
           jobs' = [jobs EXCEPT ![w] = job],
           job.kind \in Kinds, job.kind = "book" => BookOK(job) /\ Current(job),
           UNCHANGED <<property, rooms, overrides>>
    PROVE  BookJobsOK'
<1>0. \A v \in Workers : jobs'[v].kind \in Kinds
  BY DEF JobsOK, BookJobsOK
<1> SUFFICES ASSUME NEW v \in Workers, jobs'[v].kind = "book"
             PROVE  BookOK(jobs'[v]) /\ Current(jobs[v])'
  BY <1>0 DEF BookJobsOK
<1>1. jobs'[v] = IF v = w THEN job ELSE jobs[v]
  BY DEF JobsOK
<1>2. BookOK(jobs'[v]) /\ Current(jobs'[v])
  BY <1>1 DEF BookJobsOK
<1>3. Tables' = Tables
  BY DEF Tables
<1>4. Current(jobs[v])' <=> Current(jobs'[v])
  BY <1>3 DEF Current
<1> QED
  BY <1>2, <1>4

LEMMA EndKeepsBookJobs ==
    ASSUME JobsOK, BookJobsOK, NEW w \in Workers, End(w), UNCHANGED <<property, rooms, overrides>>
    PROVE  BookJobsOK'
<1>1. Idle.kind # "book" /\ Idle.kind \in Kinds
  BY DEF Idle, Kinds
<1> QED
  BY <1>1, OneJobMoves DEF End

LEMMA SubmitIsFine ==
    ASSUME PriceInv, NEW w \in Workers, Submit(w) PROVE BookJobsOK'
<1>1. PICK stay \in Stays : jobs' = [jobs EXCEPT ![w] = BookJob(stay, Shown(Tables, stay))]
  BY DEF Submit
<1> DEFINE job == BookJob(stay, Shown(Tables, stay))
<1>2. /\ job.step = "reads" /\ job.stay = stay /\ job.seen = Nothing
      /\ job.shown = Shown(Tables, stay) /\ job.kind \in Kinds
  BY DEF BookJob, Kinds
<1>3. Nothing.property = Unread /\ Nothing.rooms = Unread /\ Nothing.overrides = Unread
      /\ Nothing = [property |-> Nothing.property, rooms |-> Nothing.rooms,
                    overrides |-> Nothing.overrides]
  BY DEF Nothing
<1>4. Shaped(job)
  BY <1>2, <1>3 DEF Shaped, BookJob
<1> HIDE DEF job
<1>5. BookOK(job) /\ Current(job)
  BY <1>2, <1>3, <1>4 DEF BookOK, Current, SeenOK
<1> QED
  BY <1>1, <1>2, <1>5, OneJobMoves DEF PriceInv, IInv, Submit, job

\* A read adds one table, as it is now.
LEMMA ReadIsFine ==
    ASSUME PriceInv, NEW w \in Workers, ReadProperty(w) \/ ReadRooms(w) \/ ReadOverrides(w)
    PROVE  BookJobsOK'
<1> DEFINE old == jobs[w]
           read == [r \in DOMAIN rooms \cap DOMAIN old.stay.guests |-> rooms[r]]
           seen(p, r, o) == [property |-> p, rooms |-> r, overrides |-> o]
           job(s) == [old EXCEPT !.seen = s]
<1>1. BookOK(old) /\ Current(old) /\ old.step = "reads" /\ Shaped(old)
  BY DEF PriceInv, BookJobsOK, ReadProperty, ReadRooms, ReadOverrides, BookAt, BookOK
<1>2. old.seen = seen(old.seen.property, old.seen.rooms, old.seen.overrides)
  BY <1>1 DEF Shaped
<1>3. \E s : /\ jobs' = [jobs EXCEPT ![w] = job(s)]
             /\ \/ s = seen(property, old.seen.rooms, old.seen.overrides)
                \/ s = seen(old.seen.property, read, old.seen.overrides)
                \/ s = seen(old.seen.property, old.seen.rooms, overrides)
  <2>1. CASE ReadProperty(w)
    <3>1. [old.seen EXCEPT !["property"] = property]
              = seen(property, old.seen.rooms, old.seen.overrides)
      BY <1>2
    <3> QED
      BY <2>1, <3>1 DEF ReadProperty, Read
  <2>2. CASE ReadRooms(w)
    <3>1. [old.seen EXCEPT !["rooms"] = read]
              = seen(old.seen.property, read, old.seen.overrides)
      BY <1>2
    <3> QED
      BY <2>2, <3>1 DEF ReadRooms, Read
  <2>3. CASE ReadOverrides(w)
    <3>1. [old.seen EXCEPT !["overrides"] = overrides]
              = seen(old.seen.property, old.seen.rooms, overrides)
      BY <1>2
    <3> QED
      BY <2>3, <3>1 DEF ReadOverrides, Read
  <2> QED
    BY <2>1, <2>2, <2>3
<1>4. PICK s : /\ jobs' = [jobs EXCEPT ![w] = job(s)]
               /\ \/ s = seen(property, old.seen.rooms, old.seen.overrides)
                  \/ s = seen(old.seen.property, read, old.seen.overrides)
                  \/ s = seen(old.seen.property, old.seen.rooms, overrides)
  BY <1>3
<1>5. /\ s = seen(s.property, s.rooms, s.overrides)
      /\ s.property = property \/ s.property = old.seen.property
      /\ s.rooms = read \/ s.rooms = old.seen.rooms
      /\ s.overrides = overrides \/ s.overrides = old.seen.overrides
  BY <1>4
<1>6. SeenOK(s)
  <2>1. SeenOK(old.seen)
    BY <1>1 DEF BookOK
  <2>2. \A room \in DOMAIN read : room \in Rooms /\ read[room] \in RoomForms[room]
    BY DEF PriceInv, TablesOK
  <2>3. (\A row \in overrides : SeasonRow(row)) /\ RowsApart(overrides)
    BY DEF PriceInv, IInv, RowsOK, SeasonsNeverOverlap, SeasonRow, RowsApart
  <2>4. property \in PropertyForms
    BY DEF PriceInv, TablesOK
  <2> HIDE DEF read, seen, old
  <2> QED
    BY <1>5, <2>1, <2>2, <2>3, <2>4 DEF SeenOK
<1> DEFINE new == [kind |-> "book", step |-> old.step, seen |-> s, stay |-> old.stay,
                   shown |-> old.shown, price |-> old.price, undisturbed |-> old.undisturbed]
<1>7. job(s) = new
  BY <1>1 DEF Shaped
<1>8. /\ new.step = "reads" /\ new.seen = s /\ new.stay = old.stay /\ new.shown = old.shown
      /\ new.undisturbed = old.undisturbed /\ new.kind = "book"
  BY <1>1
<1>9. Shaped(new)
  BY <1>5, <1>8 DEF Shaped
<1>10. BookOK(new)
  <2> HIDE DEF new
  <2> QED
    BY <1>1, <1>6, <1>8, <1>9 DEF BookOK
<1>11. Current(new)
  <2> HIDE DEF new, seen
  <2>1. CASE old.undisturbed = FALSE
    BY <1>8, <2>1 DEF Current
  <2>2. CASE old.undisturbed # FALSE
    BY <1>1, <1>5, <1>8, <2>2 DEF Current
  <2> QED
    BY <2>1, <2>2
<1>12. UNCHANGED <<property, rooms, overrides>>
  BY DEF ReadProperty, ReadRooms, ReadOverrides, Read
<1>13. jobs' = [jobs EXCEPT ![w] = new]
  BY <1>4, <1>7
<1> HIDE DEF new
<1> QED
  BY <1>8, <1>10, <1>11, <1>12, <1>13, OneJobMoves DEF PriceInv, IInv, Kinds

LEMMA PriceStayIsFine ==
    ASSUME PriceInv, NEW w \in Workers, PriceStay(w) PROVE BookJobsOK'
<1> DEFINE old == jobs[w]
           new == [kind |-> "book", step |-> "write", seen |-> old.seen, stay |-> old.stay,
                   shown |-> old.shown, price |-> Priced(old.seen, old.stay),
                   undisturbed |-> old.undisturbed]
<1>1. BookOK(old) /\ Current(old) /\ Shaped(old)
  BY DEF PriceInv, BookJobsOK, PriceStay, BookAt, BookOK
<1>2. UNCHANGED <<property, rooms, overrides>>
  BY DEF PriceStay
<1>3. CASE Refuses(old.seen, old.stay)
  BY <1>2, <1>3, EndKeepsBookJobs DEF PriceStay, PriceInv, IInv
<1>4. CASE ~Refuses(old.seen, old.stay)
  <2>1. [old EXCEPT !.step = "write", !.price = Priced(old.seen, old.stay)] = new
    <3> DEFINE all == [kind |-> "book", step |-> old.step, seen |-> old.seen,
                       stay |-> old.stay, shown |-> old.shown, price |-> old.price,
                       undisturbed |-> old.undisturbed]
               part == [all EXCEPT !.step = "write"]
    <3>1. old = all
      BY <1>1 DEF Shaped
    <3>2. part = [kind |-> "book", step |-> "write", seen |-> old.seen,
                  stay |-> old.stay, shown |-> old.shown, price |-> old.price,
                  undisturbed |-> old.undisturbed]
      OBVIOUS
    <3> HIDE DEF part
    <3>3. [part EXCEPT !.price = Priced(old.seen, old.stay)] = new
      BY <3>2
    <3> HIDE DEF all, old, new
    <3>4. [all EXCEPT !.step = "write", !.price = Priced(old.seen, old.stay)]
              = [part EXCEPT !.price = Priced(old.seen, old.stay)]
      BY DEF part
    <3> QED
      BY <3>1, <3>3, <3>4
  <2>2. jobs' = [jobs EXCEPT ![w] = new]
    BY <1>4, <2>1 DEF PriceStay
  <2>3. /\ new.kind = "book" /\ new.step = "write" /\ new.seen = old.seen /\ new.stay = old.stay
        /\ new.shown = old.shown /\ new.price = Priced(old.seen, old.stay)
        /\ new.undisturbed = old.undisturbed
    OBVIOUS
  <2>4. old.seen = [property |-> old.seen.property, rooms |-> old.seen.rooms,
                    overrides |-> old.seen.overrides]
    BY <1>1 DEF Shaped
  <2>5. Shaped(new)
    BY <2>3, <2>4 DEF Shaped
  <2>6. Whole(old.seen)
    BY DEF PriceStay, HasRead, Nothing, Whole
  <2> HIDE DEF new
  <2>7. BookOK(new)
    BY <1>1, <1>4, <2>3, <2>5, <2>6 DEF BookOK
  <2>8. Current(new)
    <3>1. CASE old.undisturbed = FALSE
      BY <2>3, <3>1 DEF Current
    <3>2. CASE old.undisturbed # FALSE
      BY <1>1, <2>3, <3>2 DEF Current
    <3> QED
      BY <3>1, <3>2
  <2> QED
    BY <1>2, <2>2, <2>3, <2>7, <2>8, OneJobMoves DEF PriceInv, IInv, Kinds
<1> QED
  BY <1>3, <1>4

\* What is about to be written reconciles, and fits its columns.
LEMMA PricesReconcile ==
    ASSUME NEW job, BookOK(job), job.step = "write", FitsColumns(job)
    PROVE  Reconciles(job.stay, job.price)
<1> DEFINE input == QuoteInput(job.seen, job.stay)
<1>1. SeenOK(job.seen) /\ Whole(job.seen) /\ job.stay \in Stays
      /\ ~Refuses(job.seen, job.stay) /\ job.price = QuoteOf(input)
  BY DEF BookOK, Priced
<1>2. QuoteReconciles(input)
  BY <1>1, SeenIsAnInput, QuotesReconcile
<1>3. job.price.unpricedRooms = {}
  BY <1>1 DEF Refuses, Priced
<1>4. input.guests = job.stay.guests
      /\ StayOf(input) = NightsBetween(job.stay.checkIn, job.stay.checkOut)
  BY DEF QuoteInput, StayOf
<1>5. job.price.total <= ColumnMax /\ job.stay.overrideTotal <= ColumnMax
  BY DEF FitsColumns, Stored
<1> HIDE DEF input
<1> QED
  BY <1>1, <1>2, <1>3, <1>4, <1>5 DEF QuoteReconciles, Reconciles

LEMMA BookWriteIsFine ==
    ASSUME PriceInv, NEW w \in Workers, BookWrite(w) PROVE BookingsOK'
<1>1. CASE bookings' = bookings
  BY <1>1 DEF PriceInv, BookingsOK
<1>2. CASE bookings' # bookings
  <2>1. PICK id \in BookingIds \ DOMAIN bookings :
            bookings' = [b \in DOMAIN bookings \cup {id} |->
                            IF b = id THEN Record(jobs[w]) ELSE bookings[b]]
    BY <1>2 DEF BookWrite
  <2>2. FitsColumns(jobs[w]) /\ BookOK(jobs[w]) /\ jobs[w].step = "write"
    BY <1>2 DEF BookWrite, BookAt, PriceInv, BookJobsOK
  <2>3. Reconciles(jobs[w].stay, jobs[w].price)
    BY <2>2, PricesReconcile
  <2>4. Record(jobs[w]).stay = jobs[w].stay /\ Record(jobs[w]).price = jobs[w].price
    BY DEF Record
  <2>5. ASSUME NEW b \in DOMAIN bookings'
        PROVE  b \in BookingIds /\ Reconciles(bookings'[b].stay, bookings'[b].price)
    BY <2>1, <2>3, <2>4 DEF PriceInv, BookingsOK
  <2> QED
    BY <2>5 DEF BookingsOK
<1> QED
  BY <1>1, <1>2

LEMMA PriceInitIsFine == Init => PriceInv
<1> SUFFICES ASSUME Init PROVE PriceInv
  OBVIOUS
<1>1. TablesOK
  BY DEF Init, TablesOK
<1>2. BookJobsOK
  BY DEF Init, BookJobsOK, Idle, Kinds
<1>3. BookingsOK
  BY DEF Init, BookingsOK
<1> QED
  BY <1>1, <1>2, <1>3, InitIsFine DEF PriceInv

LEMMA PriceNextIsFine == PriceInv /\ [Next]_vars => PriceInv'
<1> SUFFICES ASSUME PriceInv, [Next]_vars PROVE PriceInv'
  OBVIOUS
<1>0. IInv /\ JobsOK /\ TablesOK /\ BookJobsOK /\ BookingsOK /\ IInv'
  BY NextIsFine DEF PriceInv, IInv
<1>1. CASE PropertyUpdate
  <2>1. TablesOK'
    BY <1>0, <1>1 DEF PropertyUpdate, TablesOK
  <2>2. BookJobsOK'
    BY <1>0, <1>1, EditsKeepBookJobs DEF PropertyUpdate
  <2> QED
    BY <1>0, <1>1, <2>1, <2>2 DEF PropertyUpdate, PriceInv, BookingsOK
<1>2. ASSUME NEW room \in Rooms, RoomUpdate(room) PROVE PriceInv'
  <2>1. TablesOK'
    BY <1>0, <1>2 DEF RoomUpdate, TablesOK
  <2>2. BookJobsOK'
    BY <1>0, <1>2, EditsKeepBookJobs DEF RoomUpdate
  <2> QED
    BY <1>0, <1>2, <2>1, <2>2 DEF RoomUpdate, PriceInv, BookingsOK
<1>3. ASSUME NEW room \in Rooms, RoomRemove(room) PROVE PriceInv'
  <2>1. TablesOK'
    BY <1>0, <1>3 DEF RoomRemove, TablesOK
  <2>2. BookJobsOK'
    BY <1>0, <1>3, EditsKeepBookJobs DEF RoomRemove
  <2> QED
    BY <1>0, <1>3, <2>1, <2>2 DEF RoomRemove, PriceInv, BookingsOK
<1>4. ASSUME NEW row \in overrides, RemoveOverride(row) PROVE PriceInv'
  <2>1. TablesOK'
    BY <1>0, <1>4 DEF RemoveOverride, TablesOK
  <2>2. BookJobsOK'
    BY <1>0, <1>4, EditsKeepBookJobs DEF RemoveOverride
  <2> QED
    BY <1>0, <1>4, <2>1, <2>2 DEF RemoveOverride, PriceInv, BookingsOK
<1>5. ASSUME NEW w \in Workers, SeasonBegin(w) PROVE PriceInv'
  <2>1. PICK rs \in SUBSET Rooms \ {{}}, form \in SeasonForms :
            jobs' = [jobs EXCEPT ![w] =
                        [kind |-> "season", step |-> "rooms", rooms |-> rs, form |-> form]]
    BY <1>5 DEF SeasonBegin
  <2> DEFINE job == [kind |-> "season", step |-> "rooms", rooms |-> rs, form |-> form]
  <2>2. job.kind # "book" /\ job.kind \in Kinds
    BY DEF Kinds
  <2> HIDE DEF job
  <2>3. BookJobsOK'
    BY <1>0, <1>5, <2>1, <2>2, OneJobMoves DEF SeasonBegin, job
  <2> QED
    BY <1>0, <1>5, <2>3 DEF SeasonBegin, PriceInv, TablesOK, BookingsOK
<1>6. ASSUME NEW w \in Workers, SeasonCheckRooms(w) \/ AssertNoOverlap(w) \/ SeasonRefused(w)
      PROVE  PriceInv'
  <2>1. jobs[w] \in SeasonJobs /\ UNCHANGED <<property, rooms, overrides, bookings>>
    BY <1>0, <1>6 DEF SeasonCheckRooms, AssertNoOverlap, SeasonRefused, SeasonAt, JobsOK
  <2>2. End(w) \/ \E step : Advance(w, step)
    <3>1. End(w) \/ Advance(w, "overlap") \/ Advance(w, "write")
      BY <1>6 DEF SeasonCheckRooms, AssertNoOverlap, SeasonRefused
    <3> QED
      BY <3>1
  <2>3. CASE End(w)
    BY <1>0, <2>1, <2>3, EndKeepsBookJobs DEF PriceInv, TablesOK, BookingsOK
  <2>4. ASSUME NEW step, Advance(w, step) PROVE PriceInv'
    <3> DEFINE job == [jobs[w] EXCEPT !.step = step]
    <3>1. job.kind = "season" /\ jobs' = [jobs EXCEPT ![w] = job]
      BY <2>1, <2>4 DEF SeasonJobs, Advance
    <3> HIDE DEF job
    <3>2. BookJobsOK'
      BY <1>0, <2>1, <3>1, OneJobMoves DEF Kinds
    <3> QED
      BY <1>0, <2>1, <3>2 DEF PriceInv, TablesOK, BookingsOK
  <2> QED
    BY <2>2, <2>3, <2>4
<1>7. ASSUME NEW w \in Workers, SeasonWrite(w) PROVE PriceInv'
  <2>1. \A v \in Workers : jobs'[v] = Disturbed[v] \/ jobs'[v] = Idle
    BY <1>0, <1>7, DisturbedJobs DEF SeasonWrite
  <2>2. BookJobsOK'
    BY <1>0, <2>1, EditsKeepBookJobs
  <2>3. TablesOK'
    <3>1. PICK id \in SeasonIds : overrides' = overrides \cup Inserted(jobs[w], id)
      BY <1>7 DEF SeasonWrite
    <3>2. \A row \in Inserted(jobs[w], id) : row.room \in jobs[w].rooms
      BY DEF Inserted, Row
    <3> QED
      BY <1>0, <1>7, <3>1, <3>2 DEF SeasonWrite, Fits, TablesOK
  <2> QED
    BY <1>0, <1>7, <2>2, <2>3 DEF SeasonWrite, PriceInv, BookingsOK
<1>8. ASSUME NEW w \in Workers, Submit(w) PROVE PriceInv'
  <2>1. BookJobsOK'
    BY <1>8, SubmitIsFine
  <2> QED
    BY <1>0, <1>8, <2>1 DEF Submit, PriceInv, TablesOK, BookingsOK
<1>9. ASSUME NEW w \in Workers, ReadProperty(w) \/ ReadRooms(w) \/ ReadOverrides(w) PROVE PriceInv'
  <2>1. BookJobsOK'
    BY <1>9, ReadIsFine
  <2>2. UNCHANGED <<property, rooms, overrides, bookings>>
    BY <1>9 DEF ReadProperty, ReadRooms, ReadOverrides, Read
  <2> QED
    BY <1>0, <2>1, <2>2 DEF PriceInv, TablesOK, BookingsOK
<1>10. ASSUME NEW w \in Workers, PriceStay(w) PROVE PriceInv'
  <2>1. BookJobsOK'
    BY <1>10, PriceStayIsFine
  <2> QED
    BY <1>0, <1>10, <2>1 DEF PriceStay, PriceInv, TablesOK, BookingsOK
<1>11. ASSUME NEW w \in Workers, BookWrite(w) PROVE PriceInv'
  <2>1. BookingsOK'
    BY <1>11, BookWriteIsFine
  <2>2. BookJobsOK'
    BY <1>0, <1>11, EndKeepsBookJobs DEF BookWrite
  <2> QED
    BY <1>0, <1>11, <2>1, <2>2 DEF BookWrite, PriceInv, TablesOK
<1>12. CASE UNCHANGED vars
  <2>1. Tables' = Tables
    BY <1>12 DEF vars, Tables
  <2>2. BookJobsOK'
    BY <1>0, <1>12, <2>1 DEF vars, BookJobsOK, Current
  <2> QED
    BY <1>0, <1>12, <2>2 DEF vars, PriceInv, TablesOK, BookingsOK
<1> QED
  BY <1>1, <1>2, <1>3, <1>4, <1>5, <1>6, <1>7, <1>8, <1>9, <1>10, <1>11, <1>12
  DEF Next, Edit, SeasonStep, BookStep

\* What every booking in flight remembers, and what every written one says.
THEOREM PriceInvariance == Spec => []PriceInv
  BY PriceInitIsFine, PriceNextIsFine, PTL DEF Spec

-----------------------------------------------------------------------------
\* A written booking explains itself, whatever rates, seasons and taxes it was priced from:
\* one line per room and night, the total is what the lines come to with their tax, and
\* each tax is its own band's to half a paisa (quote, BookingsService.create).
THEOREM BookingsAlwaysReconcile == Spec => []BookingsReconcile
<1>1. PriceInv => BookingsReconcile
  BY DEF PriceInv, BookingsOK, BookingsReconcile
<1> QED
  BY <1>1, PriceInvariance, PTL

\* A guest is charged what the host was shown, unless a price was edited in between: the
\* form's quote and create's cannot drift, in whatever order create's reads come back.
THEOREM TheShownPriceIsCharged == Spec => []ShownIsCharged
<1>1. PriceInv => ShownIsCharged
  <2> SUFFICES ASSUME PriceInv, NEW w \in Workers, BookAt(w, "write"), jobs[w].undisturbed
               PROVE  jobs[w].price.total = jobs[w].shown
    BY DEF ShownIsCharged
  <2> DEFINE job == jobs[w]
  <2>1. BookOK(job) /\ Current(job) /\ job.step = "write"
    BY DEF PriceInv, BookJobsOK, BookAt
  <2>2. job.undisturbed # FALSE
    OBVIOUS
  <2> HIDE DEF job
  <2>3. Whole(job.seen) /\ job.price = Priced(job.seen, job.stay)
    BY <2>1 DEF BookOK
  <2>4. /\ job.seen.property = Tables.property /\ job.seen.overrides = Tables.overrides
        /\ job.seen.rooms = [r \in DOMAIN Tables.rooms \cap DOMAIN job.stay.guests
                                 |-> Tables.rooms[r]]
        /\ job.shown = Shown(Tables, job.stay)
    BY <2>1, <2>2, <2>3 DEF Current, Whole, Tables
  <2>5. Shown(job.seen, job.stay) = Shown(Tables, job.stay)
    BY <2>4, SameRatesSameTotal
  <2> QED
    BY <2>3, <2>4, <2>5 DEF Shown, Priced, job
<1> QED
  BY <1>1, PriceInvariance, PTL

\* A night in season costs what the season says, and a season's minimum stay is kept,
\* whatever else a room charges: of the seasons over a night, find() has one to find.
THEOREM SeasonsAlwaysDecide == Spec => []SeasonsDecideThePrice
<1>1. PriceInv => SeasonsDecideThePrice
  <2> SUFFICES ASSUME PriceInv, NEW w \in Workers, BookAt(w, "write"),
                      NEW line \in jobs[w].price.lines, NEW o \in jobs[w].seen.overrides,
                      o.room = line.room, Covers(o, line.date)
               PROVE  /\ line.roomCharge = o.nightlyRate
                      /\ jobs[w].stay.checkOut - jobs[w].stay.checkIn >= o.minStayNights
    BY DEF SeasonsDecideThePrice
  <2> DEFINE seen == jobs[w].seen
             stay == jobs[w].stay
             input == QuoteInput(seen, stay)
  <2>1. BookOK(jobs[w]) /\ jobs[w].step = "write"
    BY DEF PriceInv, BookJobsOK, BookAt
  <2>2. /\ SeenOK(seen) /\ Whole(seen) /\ stay \in Stays /\ ~Refuses(seen, stay)
        /\ jobs[w].price = QuoteOf(input)
    BY <2>1 DEF BookOK, Priced
  <2>3. InputOK(input)
    BY <2>2, SeenIsAnInput
  <2>4. ShortOfMinStay(input) = {}
    BY <2>2 DEF Refuses, Priced, QuoteOf
  <2>5. /\ input.overrides = seen.overrides /\ input.checkIn = stay.checkIn
        /\ input.checkOut = stay.checkOut
    BY DEF QuoteInput
  <2>6. RowsApart(seen.overrides) /\ \A row \in seen.overrides : SeasonRow(row)
    BY <2>2 DEF SeenOK, Whole
  <2>7. line \in Lines(input) /\ o \in seen.overrides
    BY <2>2 DEF QuoteOf
  <2> HIDE DEF input, seen, stay
  <2>8. PICK room \in DOMAIN input.guests \ Unpriced(input), night \in StayOf(input) :
            line = NightLine(input, room, night)
    BY <2>7 DEF Lines
  <2>9. line.room = room /\ line.date = night /\ room \in Known(input)
    BY <2>3, <2>8, NightsHaveLines DEF Unpriced
  <2>10. o \in RatesOf(input, room) /\ Covers(o, night)
    BY <2>5, <2>7, <2>9 DEF RatesOf
  <2>11. line.roomCharge = o.nightlyRate
    BY <2>3, <2>5, <2>6, <2>8, <2>10, TheSeasonDecides
  <2>12. input.checkOut - input.checkIn >= o.minStayNights
    BY <2>3, <2>4, <2>5, <2>6, <2>9, <2>10, TheSeasonIsLongEnough
  <2> QED
    BY <2>5, <2>11, <2>12 DEF stay
<1> QED
  BY <1>1, PriceInvariance, PTL

\* A rate names a room that exists, a room's row is one the form may save, and what is in
\* flight is one of the two requests.
THEOREM TypesAreCorrect == Spec => []TypeOK
<1>1. PriceInv => TypeOK
  <2> SUFFICES ASSUME PriceInv PROVE TypeOK
    OBVIOUS
  <2>1. ASSUME NEW row \in overrides
        PROVE  row \in {Row(id, room, form) :
                            id \in SeasonIds, room \in DOMAIN rooms, form \in SeasonForms}
    <3>1. PICK form \in SeasonForms : row = Row(row.id, row.room, form)
      BY DEF PriceInv, IInv, RowsOK
    <3>2. row.id \in SeasonIds /\ row.room \in DOMAIN rooms
      BY DEF PriceInv, IInv, RowsOK, TablesOK
    <3> QED
      BY <3>1, <3>2
  <2>2. \A w \in Workers : jobs[w].kind \in {"idle", "season", "book"}
    BY DEF PriceInv, BookJobsOK, Kinds
  <2> QED
    BY <2>1, <2>2 DEF PriceInv, TablesOK, BookingsOK, TypeOK
<1> QED
  BY <1>1, PriceInvariance, PTL
=============================================================================
