--------------------------- MODULE CalendarCache ---------------------------
(***************************************************************************)
(* One room's month as a host has it on screen and as the server has it.   *)
(* Blocking and unblocking nights shows at once (onMutate), is put back if *)
(* the server refuses (onError) and is read again whatever came of it      *)
(* (onSettled), while refetches, another sheet's request, other devices    *)
(* and lost connections cross it.  Every stay is a block.                  *)
(***************************************************************************)
EXTENDS Naturals, FiniteSets

CONSTANTS Days,         \* nights of the month
          Mutations,    \* requests that may be under way together
          MaxStarts,    \* bound: blocks and unblocks begun
          MaxStays,     \* bound: stays the server ever creates
          MaxOthers     \* bound: changes made elsewhere

ASSUME BoundsAssumption == Days \in Nat \ {0} /\ {MaxStarts, MaxStays, MaxOthers} \subseteq Nat

VARIABLES server,   \* the stays of the room
          lastId,
          cache,    \* the stays the grid draws
          isInvalidated, hasError,          \* of the query
          fetch,    \* {} or the one refetch under way
          mutation, \* [Mutations -> a request of a sheet, or Idle]
          late,     \* requests whose sender has given up
          starts, others,
          othersChanged     \* someone else wrote after the read the cache is from

query == <<cache, isInvalidated, hasError>>
vars  == <<server, lastId, query, fetch, mutation, late, starts, others, othersChanged>>

Nights == 1 .. Days

\* The server's ids come after the nights: the id of an optimistic stay is its check-in.
Stay(from, to, id) == [nights |-> from .. to, id |-> id]
PendingStay(from, to) == Stay(from, to, from)
IsPending(stay) == stay.id \in Nights

Idle == [stage |-> "idle"]

\* A refetch: what it read, how many mutations had begun when it was sent, and
\* whether someone else wrote after the read.
Sent == [read |-> FALSE, stays |-> {}, since |-> starts, theirs |-> FALSE]

Init == /\ server \in {{}} \cup {{Stay(n, n, Days + 1)} : n \in Nights}
        /\ lastId = Days + 1 /\ cache = server
        /\ isInvalidated = FALSE /\ hasError = FALSE /\ fetch = {}
        /\ mutation = [m \in Mutations |-> Idle] /\ late = {}
        /\ starts = 0 /\ others = 0 /\ othersChanged = FALSE

-----------------------------------------------------------------------------
(* The browser.                                                            *)

\* mutant: the refetch goes on
NotCancelled == UNCHANGED fetch

\* snapshot: stops a refetch that is under way and keeps what was shown.
Cancelled == fetch' = {}

OnMutate(m, request, stays) ==
    /\ starts < MaxStarts /\ starts' = starts + 1
    /\ mutation[m] = Idle
    /\ mutation' = [mutation EXCEPT ![m] =
           [stage |-> "sent", request |-> request, previous |-> cache]]
    /\ cache' = stays /\ isInvalidated' = FALSE /\ hasError' = FALSE
    /\ Cancelled
    /\ UNCHANGED <<server, lastId, late, others, othersChanged>>

\* useBlockDates, over whatever the host drew: a run may cross nights that are held.
BlockDates(m) == \E from \in Nights : \E to \in from .. Days :
    OnMutate(m, [kind |-> "block", from |-> from, to |-> to],
             cache \cup {PendingStay(from, to)})

\* useRemoveBlock of a stay that is shown, also of one that is not yet the server's.
RemoveBlock(m) == \E shown \in cache :
    OnMutate(m, [kind |-> "remove", id |-> shown.id], {stay \in cache : stay.id # shown.id})

\* mutant: a refusal is put back and not read again
RefreshOnSuccess(m) ==
    IF mutation[m].stage = "refused" THEN UNCHANGED <<isInvalidated, fetch>>
                                     ELSE isInvalidated' = TRUE /\ fetch' = {Sent}

\* mutant: nothing is read again
NoRefresh(m) == UNCHANGED <<isInvalidated, fetch>>

\* onSettled invalidates the month: a refetch under way is replaced by a new one.
Refresh(m) == isInvalidated' = TRUE /\ fetch' = {Sent}

\* onError puts back what was shown before: data set by hand, which ends an error of
\* the query.  onSettled follows either way.
Settle(m) ==
    /\ mutation[m].stage \in {"done", "refused"}
    /\ mutation' = [mutation EXCEPT ![m] = Idle]
    /\ IF mutation[m].stage = "refused" THEN cache' = mutation[m].previous /\ hasError' = FALSE
                                        ELSE UNCHANGED <<cache, hasError>>
    /\ Refresh(m)
    /\ UNCHANGED <<server, lastId, late, starts, others, othersChanged>>

\* The connection broke: the sheet is told of an error, and a request that was not
\* served yet may still be.
Lose(m) ==
    /\ mutation[m].stage \in {"sent", "done"}
    /\ mutation' = [mutation EXCEPT ![m].stage = "refused"]
    /\ late' = late \cup (IF mutation[m].stage = "sent" THEN {mutation[m].request} ELSE {})
    /\ UNCHANGED <<server, lastId, query, fetch, starts, others, othersChanged>>

\* The window is focused, or the month is opened again, after staleTime.
Refetch == /\ fetch = {} /\ fetch' = {Sent}
           /\ UNCHANGED <<server, lastId, query, mutation, late, starts, others, othersChanged>>

FetchLands == \E f \in fetch :
    /\ f.read
    /\ cache' = f.stays /\ isInvalidated' = FALSE /\ hasError' = FALSE
    /\ fetch' = {} /\ othersChanged' = f.theirs
    /\ UNCHANGED <<server, lastId, mutation, late, starts, others>>

\* After its retries; the screen shows the error over the month it has.
FetchFails == /\ fetch # {} /\ fetch' = {} /\ hasError' = TRUE
              /\ UNCHANGED <<server, lastId, cache, isInvalidated, mutation, late,
                             starts, others, othersChanged>>

-----------------------------------------------------------------------------
(* The server.                                                             *)

FetchRead == \E f \in fetch :
    /\ ~f.read /\ fetch' = {[f EXCEPT !.read = TRUE, !.stays = server]}
    /\ UNCHANGED <<server, lastId, query, mutation, late, starts, others, othersChanged>>

\* assertRoomsAreFree, and the constraint behind it.
RoomIsFree(from, to) == \A stay \in server : stay.nights \cap (from .. to) = {}

\* createBlocks and removeBlock: what the request does if it is not refused.
Served(request) ==
    \/ /\ request.kind = "block" /\ RoomIsFree(request.from, request.to)
       /\ lastId < Days + MaxStays /\ lastId' = lastId + 1
       /\ server' = server \cup {Stay(request.from, request.to, lastId')}
    \/ /\ request.kind = "remove" /\ \E stay \in server : stay.id = request.id
       /\ server' = {stay \in server : stay.id # request.id}
       /\ UNCHANGED lastId

Refused(request) ==
    /\ \/ request.kind = "block"  /\ ~RoomIsFree(request.from, request.to)
       \/ request.kind = "remove" /\ \A stay \in server : stay.id # request.id
    /\ UNCHANGED <<server, lastId>>

Serve(m) ==
    /\ mutation[m].stage = "sent"
    /\ \/ /\ Served(mutation[m].request)
          /\ mutation' = [mutation EXCEPT ![m].stage = "done"]
       \/ /\ Refused(mutation[m].request)
          /\ mutation' = [mutation EXCEPT ![m].stage = "refused"]
    /\ UNCHANGED <<query, fetch, late, starts, others, othersChanged>>

\* A write this screen is not told of.
Unseen == /\ othersChanged' = TRUE
          /\ fetch' = {[f EXCEPT !.theirs = f.read] : f \in fetch}

ServeLate(request) ==
    /\ late' = late \ {request}
    /\ \/ Served(request) /\ Unseen
       \/ Refused(request) /\ UNCHANGED <<fetch, othersChanged>>
    /\ UNCHANGED <<query, mutation, starts, others>>

\* Other devices, bookings and their expiry.  A booking made or cancelled on this
\* device is one of these: its screens do not refresh the calendar.
Elsewhere ==
    /\ others < MaxOthers /\ others' = others + 1
    /\ \/ \E n \in Nights : Served([kind |-> "block", from |-> n, to |-> n])
       \/ \E stay \in server : Served([kind |-> "remove", id |-> stay.id])
    /\ Unseen
    /\ UNCHANGED <<query, mutation, late, starts>>

-----------------------------------------------------------------------------
Next == \/ \E m \in Mutations : BlockDates(m) \/ RemoveBlock(m) \/ Serve(m) \/ Lose(m) \/ Settle(m)
        \/ \E request \in late : ServeLate(request)
        \/ Refetch \/ FetchRead \/ FetchLands \/ FetchFails \/ Elsewhere

\* Requests that were sent are answered or fail, callbacks run, refetches end.
Fairness == /\ \A m \in Mutations : WF_vars(Serve(m) \/ Lose(m)) /\ WF_vars(Settle(m))
            /\ WF_vars(FetchRead \/ FetchLands \/ FetchFails)

Spec == Init /\ [][Next]_vars /\ Fairness
-----------------------------------------------------------------------------
(* Properties.                                                             *)

Stays    == [nights : SUBSET Nights, id : Nat]
Requests == [kind : {"block"}, from : Nights, to : Nights] \cup [kind : {"remove"}, id : Nat]
Asked    == [stage : {"sent", "done", "refused"}, request : Requests, previous : SUBSET Stays]
Reads    == [read : BOOLEAN, stays : SUBSET Stays, since : Nat, theirs : BOOLEAN]

ServerOK ==
    /\ server \subseteq Stays /\ lastId \in Nat /\ lastId > Days
    /\ \A stay \in server : stay.id \in Days + 1 .. lastId
    /\ \A r, s \in server : r # s => r.nights \cap s.nights = {} /\ r.id # s.id

ScreenOK ==
    /\ cache \subseteq Stays
    /\ mutation \in [Mutations -> {Idle} \cup Asked] /\ late \subseteq Requests
    /\ fetch \subseteq Reads /\ \A f, g \in fetch : f = g
    /\ isInvalidated \in BOOLEAN /\ hasError \in BOOLEAN /\ othersChanged \in BOOLEAN
    /\ starts \in Nat /\ others \in Nat

\* Stays, requests and refetches are what they are called, the server's stays are apart
\* and carry ids of its own, and one refetch at most is under way.
TypeOK == ServerOK /\ ScreenOK

\* When the month has come to rest it is the server's, but for what others did since:
\* nothing this host did, whether refused, crossed or lost, is left on screen or missing
\* from it ("put back if the server refuses", use-blocks.ts:29-33).
QuietMonthIsTheServers ==
    (\A m \in Mutations : mutation[m] = Idle) /\ fetch = {} /\ ~isInvalidated /\ ~othersChanged
        => cache = server

\* A month that was asked for before a block or an unblock began never replaces the
\* one that shows it (snapshot, use-blocks.ts:107-111).
OldMonthsDoNotReturn == [][FetchLands => \A f \in fetch : f.since = starts]_vars

\* A stay that is only on screen becomes the server's or goes, or the host is told
\* that the month could not be read (onSettled).
PhantomsGo == (\E stay \in cache : IsPending(stay))
                  ~> (hasError \/ \A stay \in cache : ~IsPending(stay))
=============================================================================
