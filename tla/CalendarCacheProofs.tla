------------------------ MODULE CalendarCacheProofs ------------------------
(* Two of CalendarCache's properties, for any month, any number of requests *)
(* at once and without the bounds of the run.                               *)
EXTENDS CalendarCache, TLAPS

AllIdle == \A m \in Mutations : mutation[m] = Idle

\* A month that rests is the server's, and so is one that a refetch has in hand
\* while no request of this host is under way.
Shown  == AllIdle /\ ~isInvalidated /\ ~othersChanged => cache = server
InHand == \A f \in fetch : AllIdle /\ f.read /\ ~f.theirs => f.stays = server

\* No refetch is older than the last block or unblock that began.
Fresh  == \A f \in fetch : f.since = starts

IInv == TypeOK /\ Shown /\ InHand /\ Fresh

-----------------------------------------------------------------------------
(* Typing.                                                                 *)

LEMMA InitTypes == Init => TypeOK
<1> SUFFICES ASSUME Init PROVE TypeOK
  OBVIOUS
<1>1. \A n \in Nights : Stay(n, n, Days + 1) \in Stays
  BY BoundsAssumption DEF Stay, Stays, Nights
<1>2. server \subseteq Stays /\ \A s \in server : s.id = Days + 1
  BY <1>1 DEF Init, Stay
<1>3. \A r, s \in server : r = s
  BY DEF Init
<1>4. /\ cache \subseteq Stays /\ lastId \in Nat /\ lastId > Days
      /\ \A stay \in server : stay.id \in Days + 1 .. lastId
  BY <1>2, BoundsAssumption DEF Init
<1>5. /\ mutation \in [Mutations -> {Idle} \cup Asked] /\ late \subseteq Requests
      /\ fetch \subseteq Reads /\ \A f, g \in fetch : f = g
      /\ isInvalidated \in BOOLEAN /\ hasError \in BOOLEAN /\ othersChanged \in BOOLEAN
      /\ starts \in Nat /\ others \in Nat
  BY DEF Init
<1> QED
  BY <1>2, <1>3, <1>4, <1>5 DEF TypeOK, ServerOK, ScreenOK

\* createBlocks takes free nights under a new id; removeBlock only takes stays away.
LEMMA ServedTypes ==
    ASSUME TypeOK, NEW request \in Requests, Served(request) \/ Refused(request)
    PROVE  ServerOK'
<1>1. CASE Refused(request)
  BY <1>1 DEF Refused, TypeOK, ServerOK
<1>2. CASE /\ request.kind = "block" /\ RoomIsFree(request.from, request.to)
           /\ lastId' = lastId + 1
           /\ server' = server \cup {Stay(request.from, request.to, lastId')}
  <2> DEFINE new == Stay(request.from, request.to, lastId')
  <2>1. request.from \in Nights /\ request.to \in Nights
    BY <1>2 DEF Requests
  <2>2. new \in Stays /\ new.id = lastId + 1 /\ new.nights = request.from .. request.to
    BY <1>2, <2>1, BoundsAssumption DEF Stay, Stays, Nights, TypeOK, ServerOK
  <2>3. \A stay \in server : stay.nights \cap new.nights = {}
    BY <1>2, <2>2 DEF RoomIsFree
  <2>4. \A stay \in server : stay.id # new.id /\ stay.id \in Days + 1 .. lastId'
    <3> SUFFICES ASSUME NEW stay \in server
                 PROVE  stay.id # new.id /\ stay.id \in Days + 1 .. lastId'
      OBVIOUS
    <3>1. stay.id \in Days + 1 .. lastId /\ lastId \in Nat
      BY DEF TypeOK, ServerOK
    <3> QED
      BY <1>2, <2>2, <3>1, BoundsAssumption
  <2>5. new.id \in Days + 1 .. lastId' /\ lastId' \in Nat /\ lastId' > Days
    BY <1>2, <2>2, BoundsAssumption DEF TypeOK, ServerOK
  <2>6. server' = server \cup {new} /\ server' \subseteq Stays
    BY <1>2, <2>2 DEF TypeOK, ServerOK
  <2>7. ASSUME NEW r \in server', NEW s \in server', r # s
        PROVE  r.nights \cap s.nights = {} /\ r.id # s.id
    <3> HIDE DEF new
    <3>1. CASE r \in server /\ s \in server
      BY <2>7, <3>1 DEF TypeOK, ServerOK
    <3>2. CASE r = new \/ s = new
      BY <2>7, <3>2, <2>3, <2>4, <2>6
    <3> QED
      BY <2>6, <3>1, <3>2
  <2> QED
    BY <2>4, <2>5, <2>6, <2>7 DEF ServerOK
<1>3. CASE /\ server' = {stay \in server : stay.id # request.id}
           /\ UNCHANGED lastId
  BY <1>3 DEF TypeOK, ServerOK
<1> QED
  BY <1>1, <1>2, <1>3 DEF Served

\* A stay the host draws, and a request it makes of one.
LEMMA DrawnTypes ==
    ASSUME NEW from \in Nights, NEW to \in from .. Days
    PROVE  /\ PendingStay(from, to) \in Stays
           /\ [kind |-> "block", from |-> from, to |-> to] \in Requests
  BY BoundsAssumption DEF PendingStay, Stay, Stays, Nights, Requests

LEMMA SentTypes == TypeOK => Sent \in Reads
  BY DEF Sent, Reads, TypeOK, ScreenOK

\* Sending a request keeps what was shown with it.
LEMMA OnMutateTypes ==
    ASSUME TypeOK, NEW m \in Mutations, NEW request \in Requests, NEW stays \in SUBSET Stays,
           OnMutate(m, request, stays)
    PROVE  TypeOK'
<1>1. [stage |-> "sent", request |-> request, previous |-> cache] \in Asked
  BY DEF Asked, TypeOK, ScreenOK
<1>2. mutation' \in [Mutations -> {Idle} \cup Asked]
  BY <1>1 DEF OnMutate, TypeOK, ScreenOK
<1>3. ServerOK'
  BY DEF OnMutate, TypeOK, ServerOK
<1>4. isInvalidated' \in BOOLEAN /\ hasError' \in BOOLEAN /\ othersChanged' \in BOOLEAN
  BY DEF OnMutate, TypeOK, ScreenOK
<1>5. starts' \in Nat /\ others' \in Nat /\ late' \subseteq Requests /\ cache' \subseteq Stays
      /\ fetch' \subseteq Reads /\ \A f, g \in fetch' : f = g
  BY DEF OnMutate, Cancelled, TypeOK, ScreenOK
<1> QED
  BY <1>2, <1>3, <1>4, <1>5 DEF TypeOK, ScreenOK

\* The stages of a request that is under way.
LEMMA StageTypes ==
    ASSUME TypeOK, NEW m \in Mutations, mutation[m].stage # "idle",
           NEW stage \in {"done", "refused"}
    PROVE  /\ mutation[m] \in Asked
           /\ [mutation EXCEPT ![m].stage = stage] \in [Mutations -> {Idle} \cup Asked]
<1>1. mutation[m] \in Asked
  BY DEF TypeOK, ScreenOK, Idle
<1>2. [mutation[m] EXCEPT !.stage = stage] \in Asked
  BY <1>1 DEF Asked
<1> QED
  BY <1>1, <1>2 DEF TypeOK, ScreenOK

LEMMA UnseenTypes == ASSUME TypeOK, Unseen
    PROVE  /\ fetch' \subseteq Reads /\ (\A f, g \in fetch' : f = g)
           /\ othersChanged' \in BOOLEAN
<1>1. \A f \in fetch : [f EXCEPT !.theirs = f.read] \in Reads
  BY DEF TypeOK, ScreenOK, Reads
<1> QED
  BY <1>1 DEF Unseen, TypeOK, ScreenOK

LEMMA NextTypes == TypeOK /\ [Next]_vars => TypeOK'
<1> SUFFICES ASSUME TypeOK, [Next]_vars PROVE TypeOK'
  OBVIOUS
<1> USE DEF TypeOK
<1>1. ASSUME NEW m \in Mutations, BlockDates(m) PROVE TypeOK'
  BY <1>1, DrawnTypes, OnMutateTypes DEF BlockDates, ScreenOK
<1>2. ASSUME NEW m \in Mutations, RemoveBlock(m) PROVE TypeOK'
  <2>1. PICK shown \in cache :
            OnMutate(m, [kind |-> "remove", id |-> shown.id],
                     {stay \in cache : stay.id # shown.id})
    BY <1>2 DEF RemoveBlock
  <2>2. [kind |-> "remove", id |-> shown.id] \in Requests
    BY <2>1 DEF ScreenOK, Stays, Requests
  <2> QED
    BY <2>1, <2>2, OnMutateTypes DEF ScreenOK
<1>3. ASSUME NEW m \in Mutations, Serve(m) PROVE TypeOK'
  <2>1. mutation[m].stage # "idle"
    BY <1>3 DEF Serve
  <2>2. mutation[m].request \in Requests
    BY <2>1, StageTypes DEF Asked
  <2>3. ServerOK'
    BY <1>3, <2>2, ServedTypes DEF Serve
  <2>4. mutation' \in [Mutations -> {Idle} \cup Asked]
    BY <1>3, <2>1, StageTypes DEF Serve
  <2> QED
    BY <1>3, <2>3, <2>4 DEF Serve, query, ScreenOK
<1>4. ASSUME NEW m \in Mutations, Lose(m) PROVE TypeOK'
  <2>1. mutation[m].stage # "idle"
    BY <1>4 DEF Lose
  <2>2. mutation[m].request \in Requests
    BY <2>1, StageTypes DEF Asked
  <2>3. mutation' \in [Mutations -> {Idle} \cup Asked] /\ late' \subseteq Requests
    BY <1>4, <2>1, <2>2, StageTypes DEF Lose, ScreenOK
  <2> QED
    BY <1>4, <2>3 DEF Lose, query, ServerOK, ScreenOK
<1>5. ASSUME NEW m \in Mutations, Settle(m) PROVE TypeOK'
  <2>1. mutation[m].stage # "idle"
    BY <1>5 DEF Settle
  <2>2. cache' \subseteq Stays
    <3>1. mutation[m].previous \subseteq Stays /\ cache \subseteq Stays
      BY <2>1, StageTypes DEF Asked, ScreenOK
    <3>2. cache' = mutation[m].previous \/ cache' = cache
      BY <1>5 DEF Settle
    <3> QED
      BY <3>1, <3>2
  <2>3. mutation' \in [Mutations -> {Idle} \cup Asked]
    BY <1>5 DEF Settle, ScreenOK
  <2>4. isInvalidated' \in BOOLEAN
    BY <1>5 DEF Settle, Refresh
  <2>5. fetch' \subseteq Reads /\ \A f, g \in fetch' : f = g
    BY <1>5, SentTypes DEF Settle, Refresh
  <2>6. hasError' \in BOOLEAN
    BY <1>5 DEF Settle, ScreenOK
  <2> QED
    BY <1>5, <2>2, <2>3, <2>4, <2>5, <2>6 DEF Settle, ServerOK, ScreenOK
<1>6. ASSUME NEW request \in late, ServeLate(request) PROVE TypeOK'
  <2>1. ServerOK'
    BY <1>6, ServedTypes DEF ServeLate, ScreenOK
  <2>2. fetch' \subseteq Reads /\ (\A f, g \in fetch' : f = g) /\ othersChanged' \in BOOLEAN
    BY <1>6, UnseenTypes DEF ServeLate, ScreenOK
  <2> QED
    BY <1>6, <2>1, <2>2 DEF ServeLate, query, ScreenOK
<1>7. CASE Refetch
  BY <1>7, SentTypes DEF Refetch, query, ServerOK, ScreenOK
<1>8. CASE FetchRead
  <2>1. PICK f \in fetch : fetch' = {[f EXCEPT !.read = TRUE, !.stays = server]}
    BY <1>8 DEF FetchRead
  <2>2. [f EXCEPT !.read = TRUE, !.stays = server] \in Reads
    BY DEF Reads, ScreenOK, ServerOK
  <2> QED
    BY <1>8, <2>1, <2>2 DEF FetchRead, query, ServerOK, ScreenOK
<1>9. CASE FetchLands
  <2>1. PICK f \in fetch : cache' = f.stays /\ othersChanged' = f.theirs
    BY <1>9 DEF FetchLands
  <2>2. cache' \subseteq Stays /\ othersChanged' \in BOOLEAN
    BY <2>1 DEF ScreenOK, Reads
  <2>3. isInvalidated' \in BOOLEAN /\ hasError' \in BOOLEAN
    BY <1>9 DEF FetchLands
  <2> QED
    BY <1>9, <2>2, <2>3 DEF FetchLands, ServerOK, ScreenOK
<1>10. CASE FetchFails
  <2>1. hasError' \in BOOLEAN
    BY <1>10 DEF FetchFails
  <2> QED
    BY <1>10, <2>1 DEF FetchFails, ServerOK, ScreenOK
<1>11. CASE Elsewhere
  <2>1. PICK request \in Requests : Served(request)
    <3>1. CASE \E n \in Nights : Served([kind |-> "block", from |-> n, to |-> n])
      BY <3>1 DEF Requests
    <3>2. CASE \E stay \in server : Served([kind |-> "remove", id |-> stay.id])
      BY <3>2 DEF Requests, ServerOK, Stays
    <3> QED
      BY <1>11, <3>1, <3>2 DEF Elsewhere
  <2>2. ServerOK'
    BY <2>1, ServedTypes
  <2> QED
    BY <1>11, <2>2, UnseenTypes DEF Elsewhere, query, ScreenOK
<1>12. CASE UNCHANGED vars
  BY <1>12 DEF vars, query, ServerOK, ScreenOK
<1> QED
  BY <1>1, <1>2, <1>3, <1>4, <1>5, <1>6, <1>7, <1>8, <1>9, <1>10, <1>11, <1>12 DEF Next

\* Stays, requests and refetches stay what they are called, and the server's stays
\* apart, whatever requests, refetches and other devices cross.
THEOREM Typing == Spec => []TypeOK
  BY InitTypes, NextTypes, PTL DEF Spec

-----------------------------------------------------------------------------
(* The month that rests.                                                   *)

\* A request that is under way, or answered, is not Idle.
LEMMA BusyAfter ==
    ASSUME TypeOK, NEW m \in Mutations, NEW request,
           mutation' = [mutation EXCEPT ![m] = request], request.stage # "idle"
    PROVE  ~AllIdle'
<1>1. mutation'[m] = request
  BY DEF TypeOK, ScreenOK
<1>2. request # Idle
  BY DEF Idle
<1> QED
  BY <1>1, <1>2 DEF AllIdle

LEMMA BusyWhile ==
    ASSUME TypeOK, NEW m \in Mutations, mutation[m].stage # "idle",
           NEW stage \in {"done", "refused"},
           mutation' = [mutation EXCEPT ![m].stage = stage]
    PROVE  ~AllIdle'
<1>1. [mutation[m] EXCEPT !.stage = stage].stage # "idle"
  BY StageTypes DEF Asked
<1> QED
  BY <1>1, BusyAfter

\* While a request is under way nothing is claimed of the month.
LEMMA NothingWhileBusy == ASSUME ~AllIdle' PROVE Shown' /\ InHand'
  BY DEF Shown, InHand

\* A write that is not seen here makes no claim either.
LEMMA NothingOnceUnseen == ASSUME TypeOK, Fresh, Unseen, starts' = starts
    PROVE  Shown' /\ InHand' /\ Fresh'
<1>1. \A f \in fetch : LET g == [f EXCEPT !.theirs = f.read] IN
          g.theirs = f.read /\ g.read = f.read /\ g.since = f.since
  BY DEF TypeOK, ScreenOK, Reads
<1>2. othersChanged' = TRUE /\ \A g \in fetch' : (g.read => g.theirs) /\ g.since = starts'
  BY <1>1 DEF Unseen, Fresh, TypeOK, ScreenOK, Reads
<1> QED
  BY <1>2 DEF Shown, InHand, Fresh

LEMMA InitIsFine == Init => IInv
  BY InitTypes DEF Init, IInv, Shown, InHand, Fresh

LEMMA NextIsFine == IInv /\ [Next]_vars => IInv'
<1> SUFFICES ASSUME IInv, [Next]_vars PROVE Shown' /\ InHand' /\ Fresh'
  BY NextTypes DEF IInv
<1> USE DEF IInv
<1>1. ASSUME NEW m \in Mutations, NEW request, NEW stays, OnMutate(m, request, stays)
      PROVE  Shown' /\ InHand' /\ Fresh'
  <2> DEFINE sent == [stage |-> "sent", request |-> request, previous |-> cache]
  <2>1. ~AllIdle'
    <3>1. mutation' = [mutation EXCEPT ![m] = sent] /\ sent.stage # "idle"
      BY <1>1 DEF OnMutate
    <3> HIDE DEF sent
    <3> QED
      BY <3>1, BusyAfter
  <2>2. Fresh'
    BY <1>1 DEF OnMutate, Cancelled, Fresh
  <2> QED
    BY <2>1, <2>2, NothingWhileBusy
<1>2. ASSUME NEW m \in Mutations, Serve(m) PROVE Shown' /\ InHand' /\ Fresh'
  <2>1. mutation[m].stage # "idle"
    BY <1>2 DEF Serve
  <2>2. ~AllIdle'
    <3>1. CASE mutation' = [mutation EXCEPT ![m].stage = "done"]
      BY <2>1, <3>1, BusyWhile
    <3>2. CASE mutation' = [mutation EXCEPT ![m].stage = "refused"]
      BY <2>1, <3>2, BusyWhile
    <3> QED
      BY <1>2, <3>1, <3>2 DEF Serve
  <2>3. Fresh'
    BY <1>2 DEF Serve, Fresh
  <2> QED
    BY <2>2, <2>3, NothingWhileBusy
<1>3. ASSUME NEW m \in Mutations, Lose(m) PROVE Shown' /\ InHand' /\ Fresh'
  <2>1. mutation[m].stage # "idle"
    BY <1>3 DEF Lose
  <2>2. ~AllIdle'
    BY <1>3, <2>1, BusyWhile DEF Lose
  <2>3. Fresh'
    BY <1>3 DEF Lose, Fresh
  <2> QED
    BY <2>2, <2>3, NothingWhileBusy
<1>4. ASSUME NEW m \in Mutations, Settle(m) PROVE Shown' /\ InHand' /\ Fresh'
  BY <1>4 DEF Settle, Refresh, Sent, Shown, InHand, Fresh
<1>5. ASSUME NEW request \in late, ServeLate(request) PROVE Shown' /\ InHand' /\ Fresh'
  <2>1. CASE Unseen
    BY <1>5, <2>1, NothingOnceUnseen DEF ServeLate
  <2>2. CASE Refused(request) /\ UNCHANGED <<fetch, othersChanged>>
    BY <1>5, <2>2 DEF ServeLate, Refused, query, Shown, InHand, Fresh, AllIdle
  <2> QED
    BY <1>5, <2>1, <2>2 DEF ServeLate
<1>6. CASE Refetch
  BY <1>6 DEF Refetch, Sent, query, Shown, InHand, Fresh, AllIdle
<1>7. CASE FetchRead
  <2>1. PICK f \in fetch : fetch' = {[f EXCEPT !.read = TRUE, !.stays = server]}
    BY <1>7 DEF FetchRead
  <2> DEFINE g == [f EXCEPT !.read = TRUE, !.stays = server]
  <2>2. g.stays = server /\ g.since = f.since
    BY DEF TypeOK, ScreenOK, Reads
  <2> QED
    BY <1>7, <2>1, <2>2 DEF FetchRead, query, Shown, InHand, Fresh, AllIdle
<1>8. CASE FetchLands
  BY <1>8 DEF FetchLands, Shown, InHand, Fresh, AllIdle
<1>9. CASE FetchFails
  BY <1>9 DEF FetchFails, Shown, InHand, Fresh, AllIdle
<1>10. CASE Elsewhere
  BY <1>10, NothingOnceUnseen DEF Elsewhere
<1>11. CASE UNCHANGED vars
  BY <1>11 DEF vars, query, Shown, InHand, Fresh, AllIdle
<1> QED
  BY <1>1, <1>2, <1>3, <1>4, <1>5, <1>6, <1>7, <1>8, <1>9, <1>10, <1>11
  DEF Next, BlockDates, RemoveBlock

-----------------------------------------------------------------------------
\* What is shown at rest, what a refetch has in hand, and how old it may be.
THEOREM Invariance == Spec => []IInv
  BY InitIsFine, NextIsFine, PTL DEF Spec

\* When no request is under way and no refetch is owed, the grid draws the server's
\* stays, unless someone else wrote since: whatever was refused, crossed or lost.
THEOREM QuietMonthIsAlwaysTheServers == Spec => []QuietMonthIsTheServers
<1>1. IInv => QuietMonthIsTheServers
  BY DEF IInv, Shown, AllIdle, QuietMonthIsTheServers
<1> QED
  BY <1>1, Invariance, PTL

\* A refetch that left before a block or an unblock began never lands.
THEOREM OldMonthsNeverReturn == Spec => OldMonthsDoNotReturn
<1>1. IInv => [FetchLands => \A f \in fetch : f.since = starts]_vars
  BY DEF IInv, Fresh
<1> QED
  BY <1>1, Invariance, PTL DEF OldMonthsDoNotReturn
=============================================================================
