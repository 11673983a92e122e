----------------------------- MODULE RoomLocks -----------------------------
(***************************************************************************)
(* The requests that write a property's rooms in more than one statement:  *)
(* createBlocks and a booking's nested write (a room_stays row per room),  *)
(* reorder (an UPDATE per room), remove (the blocks, then the room), each  *)
(* in a transaction, and create (a count, the last place, the room), in    *)
(* none.  Elsewhere such a request is one step; here it is one step per    *)
(* statement, with what PostgreSQL does between them: a statement that     *)
(* meets a row of an unfinished transaction waits for it, and a cycle of   *)
(* waits is broken by failing one of its members.                          *)
(*                                                                         *)
(* Every stay asks for the same nights: stays of other nights never meet.  *)
(* What the handlers refuse before they write is Occupancy's, in full.     *)
(***************************************************************************)
EXTENDS Integers, FiniteSetsExt, Graphs, SequencesExt

CONSTANTS Rooms, Txns,
          MAX_ROOMS_PER_PROPERTY,
          MaxNamed,         \* bound: the longest list of a closure
          MaxPlace          \* bound: how far the places of new rooms go

ASSUME LimitAssumption == MAX_ROOMS_PER_PROPERTY \in Nat /\ IsFiniteSet(Rooms)
ASSUME TxnsAssumption == IsFiniteSet(Txns) /\ Txns # {}
ASSUME BoundAssumption == MaxNamed \in Nat \ {0} /\ MaxPlace \in Nat

VARIABLES order,    \* rooms.sort_order of the rooms that exist (committed)
          stays,    \* [Rooms -> "free", "block" or "booking"] (committed)
          txns      \* [Txns -> a request in flight, or Idle]

vars == <<order, stays, txns>>

Idle == [kind |-> "idle"]

\* list is the rooms in the order the statements name them; at is the statement
\* that is next; sent tells that it has put its row in and awaits the verdict;
\* cleared tells that the deleteMany of remove took a block.
Txn(kind, list) == [kind |-> kind, list |-> list, at |-> 1,
                    sent |-> FALSE, cleared |-> FALSE]

Init == /\ \E n \in 0 .. MAX_ROOMS_PER_PROPERTY : \E rs \in kSubset(n, Rooms) :
              order \in Injection(rs, 0 .. n - 1)
        /\ stays = [r \in Rooms |-> "free"]
        /\ txns = [t \in Txns |-> Idle]

-----------------------------------------------------------------------------
(* A request reads, refuses, and opens its transaction.                    *)

Begin(t, kind, list) == /\ txns[t] = Idle
                        /\ txns' = [txns EXCEPT ![t] = Txn(kind, list)]
                        /\ UNCHANGED <<order, stays>>

Active == {t \in Txns : txns[t].kind \notin {"idle", "create"}}   \* in a transaction

AreFree(rs) == rs \subseteq DOMAIN order /\ \A r \in rs : stays[r] = "free"

\* createBlocks writes in the order of the request, which may name a room twice:
\* the check of the rooms compares sets.
CloseBegin(t) == \E n \in 1 .. MaxNamed : \E list \in [1 .. n -> Rooms] :
    AreFree(ToSet(list)) /\ Begin(t, "block", list)

\* A booking's rooms are written in the sort order they were read in.
BookBegin(t) == \E rs \in SUBSET Rooms \ {{}} :
    /\ AreFree(rs)
    /\ Begin(t, "booking", SetToSortSeq(rs, LAMBDA a, b : order[a] < order[b]))

\* Every room of the property, exactly once, as it was read.
ReorderBegin(t) == DOMAIN order # {} /\ \E list \in SetToSeqs(DOMAIN order) :
    Begin(t, "reorder", list)

RemoveBegin(t) == \E r \in DOMAIN order :
    stays[r] # "booking" /\ Begin(t, "remove", <<r, r>>)

-----------------------------------------------------------------------------
(* A new room: three round trips, and nothing holds them together.         *)

Creating(t) == txns[t].kind = "create"

NextPlace == IF order = <<>> THEN 0 ELSE Max(Range(order)) + 1

WithinPlaces == /\ NextPlace <= MaxPlace        \* the bound, and nothing of the code
                /\ \A u \in Txns : Creating(u) => txns[u].place < MaxPlace

CountTooLate(t) ==              \* mutant: off by one
    /\ txns[t] = Idle /\ Cardinality(DOMAIN order) <= MAX_ROOMS_PER_PROPERTY
    /\ WithinPlaces
    /\ txns' = [txns EXCEPT ![t] = [kind |-> "create", place |-> -1]]
    /\ UNCHANGED <<order, stays>>

CountRooms(t) ==
    /\ txns[t] = Idle /\ Cardinality(DOMAIN order) < MAX_ROOMS_PER_PROPERTY
    /\ WithinPlaces
    /\ txns' = [txns EXCEPT ![t] = [kind |-> "create", place |-> -1]]
    /\ UNCHANGED <<order, stays>>

ReadLast(t) ==
    /\ Creating(t) /\ txns[t].place = -1
    /\ txns' = [txns EXCEPT ![t].place = NextPlace]
    /\ UNCHANGED <<order, stays>>

\* Ids no room has and no request has heard of: a new room never gets an old one's.
NewIds == {r \in Rooms \ DOMAIN order : \A u \in Active : r \notin ToSet(txns[u].list)}

InsertRoom(t) ==
    /\ Creating(t) /\ txns[t].place >= 0 /\ NewIds # {}
    /\ LET r == CHOOSE id \in NewIds : TRUE IN
          order' = [x \in DOMAIN order \cup {r} |->
                       IF x = r THEN txns[t].place ELSE order[x]]
    /\ txns' = [txns EXCEPT ![t] = Idle] /\ stays' = stays

-----------------------------------------------------------------------------
(* Rows of unfinished transactions, and who waits for them.                *)


Stmt(t)  == txns[t].list[txns[t].at]
Ended(t) == txns[t].at > Len(txns[t].list)

\* The rooms whose rows t has written: those of its past statements.
Wrote(t) == {txns[t].list[i] : i \in 1 .. (txns[t].at - 1)}

\* A stay row is in its table, and in the constraint's index, before the
\* constraint looks for others.
HasStay(t, r) == /\ txns[t].kind \in {"block", "booking"}
                 /\ \/ r \in Wrote(t)
                    \/ txns[t].sent /\ ~Ended(t) /\ Stmt(t) = r
Renumbered(t, r) == txns[t].kind = "reorder" /\ r \in Wrote(t)
Clearing(t, r)   == txns[t].kind = "remove" /\ r \in Wrote(t)
TookBlock(t, r)  == Clearing(t, r) /\ txns[t].cleared
Deleted(t, r)    == txns[t].kind = "remove" /\ Ended(t) /\ r \in Wrote(t)

\* Whom the statement of t waits for.  A stay waits for a stay of the room that
\* may yet be committed or undone, a block that a removal took among them, and for
\* a room that is deleted and may yet be back (but not for a removal that found no
\* block: there is no row of it to meet before the room is deleted); an
\* update or a deletion of a room for what else holds its row, the key lock of a
\* checked stay included (an update of the sort order does not mind that one).
Blocks(u, t) == LET r == Stmt(t) IN
    CASE txns[t].kind \in {"block", "booking"} ->
             txns[t].sent /\ (HasStay(u, r) \/ TookBlock(u, r) \/ Deleted(u, r))
      [] txns[t].kind = "reorder" -> Renumbered(u, r) \/ Deleted(u, r)
      [] txns[t].kind = "remove" /\ txns[t].at = 1 -> TookBlock(u, r)
      [] OTHER -> \/ Renumbered(u, r) \/ Deleted(u, r)
                  \/ txns[u].kind \in {"block", "booking"} /\ r \in Wrote(u)

WaitsFor(t) == IF t \notin Active \/ Ended(t) THEN {}
               ELSE {u \in Active \ {t} : Blocks(u, t)}

WaitGraph == [node |-> Txns, edge |-> {e \in Txns \X Txns : e[2] \in WaitsFor(e[1])}]

-----------------------------------------------------------------------------
Runs(t) == t \in Active /\ ~Ended(t) /\ WaitsFor(t) = {}

Rollback(t) == txns' = [txns EXCEPT ![t] = Idle] /\ UNCHANGED <<order, stays>>
NextStatement(t) ==
    /\ txns' = [txns EXCEPT ![t].at = @ + 1, ![t].sent = FALSE,
                            ![t].cleared = @ \/ (txns[t].kind = "remove" /\
                                                 stays[Stmt(t)] = "block")]
    /\ UNCHANGED <<order, stays>>

\* An insert puts its row in; then the constraints look at it.
InsertSend(t) ==
    /\ Runs(t) /\ txns[t].kind \in {"block", "booking"} /\ ~txns[t].sent
    /\ txns' = [txns EXCEPT ![t].sent = TRUE]
    /\ UNCHANGED <<order, stays>>

NoExclusion(t) == Stmt(t) \in DOMAIN order      \* mutant: only the service looked

\* room_stays_no_overlap (a row of its own counts too) and the foreign key.
InsertFits(t) == /\ Stmt(t) \in DOMAIN order /\ stays[Stmt(t)] = "free"
                 /\ Stmt(t) \notin Wrote(t)

InsertVerdict(t) ==
    /\ Runs(t) /\ txns[t].sent
    /\ IF InsertFits(t) THEN NextStatement(t) ELSE Rollback(t)

\* An update of a room that is gone fails, and the new order with it.
RenumberRoom(t) ==
    /\ Runs(t) /\ txns[t].kind = "reorder"
    /\ IF Stmt(t) \in DOMAIN order THEN NextStatement(t) ELSE Rollback(t)

ClearBlocks(t) ==
    /\ Runs(t) /\ txns[t].kind = "remove" /\ txns[t].at = 1
    /\ NextStatement(t)

\* RESTRICT: a stay that was committed after the blocks were cleared keeps its room.
Deletable(t) == /\ Stmt(t) \in DOMAIN order
                /\ stays[Stmt(t)] = IF txns[t].cleared THEN "block" ELSE "free"

DeleteRoom(t) ==
    /\ Runs(t) /\ txns[t].kind = "remove" /\ txns[t].at = 2
    /\ IF Deletable(t) THEN NextStatement(t) ELSE Rollback(t)

Commit(t) ==
    /\ t \in Active /\ Ended(t)
    /\ txns' = [txns EXCEPT ![t] = Idle]
    /\ stays' = [r \in Rooms |-> IF HasStay(t, r) THEN txns[t].kind
                                 ELSE IF Deleted(t, r) THEN "free" ELSE stays[r]]
    /\ order' = CASE txns[t].kind = "reorder" ->
                         [r \in DOMAIN order |-> IF r \in Wrote(t)
                             THEN (CHOOSE i \in DOMAIN txns[t].list : txns[t].list[i] = r) - 1
                             ELSE order[r]]
                  [] txns[t].kind = "remove" ->
                         [r \in DOMAIN order \ Wrote(t) |-> order[r]]
                  [] OTHER -> order

InNoCycle(t) == FALSE           \* mutant: no one looks for cycles

\* PostgreSQL fails one of the transactions that wait for each other.
InCycle(t) == t \in Descendants(WaitGraph, t)

DeadlockDetected(t) == InCycle(t) /\ Rollback(t)

\* The process that held the connection died: what was not committed is undone.
ConnectionLost(t) == txns[t] # Idle /\ Rollback(t)

\* removeBlock: one deleteMany, which waits for a removal that took the row first.
Reopen(r) ==
    /\ stays[r] = "block" /\ \A t \in Active : ~TookBlock(t, r)
    /\ stays' = [stays EXCEPT ![r] = "free"]
    /\ UNCHANGED <<order, txns>>

-----------------------------------------------------------------------------
Start(t) == CloseBegin(t) \/ BookBegin(t) \/ ReorderBegin(t) \/ RemoveBegin(t)
            \/ CountRooms(t)

Step(t) == \/ InsertSend(t) \/ InsertVerdict(t) \/ RenumberRoom(t)
           \/ ClearBlocks(t) \/ DeleteRoom(t) \/ Commit(t)
           \/ ReadLast(t) \/ InsertRoom(t)

Next == \/ \E t \in Txns : Start(t) \/ Step(t) \/ DeadlockDetected(t) \/ ConnectionLost(t)
        \/ \E r \in Rooms : Reopen(r)

Spec == Init /\ [][Next]_vars

\* Locks are granted in the order they were asked for, so a transaction whose
\* wait ends again and again is served; the detector runs after deadlock_timeout.
FairSpec == Spec /\ \A t \in Txns : SF_vars(Step(t)) /\ WF_vars(DeadlockDetected(t))
-----------------------------------------------------------------------------
(* Properties.                                                             *)

\* Whatever the transactions do to each other row by row, the tables change only
\* as RoomBoard does: a closure takes all its rooms or none, a new order is of
\* exactly the rooms there are, and a room never goes from under a booking.
Board == INSTANCE RoomBoard
ImplementsRoomBoard == Board!Spec

\* Nobody waits forever: a request that opened a transaction ends, also when two
\* closures name the rooms in opposite orders or cross a reorder or a removal.
RequestsEnd == \A t \in Txns : txns[t] # Idle ~> txns[t] = Idle

\* Creations that count before any of them inserts pass the limit of rooms by as
\* many as run at once, less one, and never by more.
RoomsNearTheLimit ==
    Cardinality(DOMAIN order) <= MAX_ROOMS_PER_PROPERTY + Cardinality(Txns) - 1
=============================================================================
