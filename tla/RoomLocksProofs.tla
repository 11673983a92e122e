-------------------------- MODULE RoomLocksProofs --------------------------
(***************************************************************************)
(* What holds of RoomLocks for any number of rooms and of requests at once *)
(* and for any limit.                                                      *)
(***************************************************************************)
EXTENDS RoomLocks, TLAPS, FiniteSetTheorems

Underway == {t \in Txns : Creating(t)}

Kinds == {"idle", "create", "block", "booking", "reorder", "remove"}

\* A request has one of the six kinds.
ShapesOK == /\ DOMAIN txns = Txns
            /\ \A t \in Txns : "kind" \in DOMAIN txns[t] /\ txns[t].kind \in Kinds

\* Every creation that counted too early is still underway, or has its room.
LimitInv ==
    /\ ShapesOK
    /\ DOMAIN order \subseteq Rooms
    /\ Cardinality(DOMAIN order) + Cardinality(Underway)
           <= MAX_ROOMS_PER_PROPERTY + Cardinality(Txns) - 1

LEMMA SetsOfRooms ==
    ASSUME LimitInv
    PROVE  /\ IsFiniteSet(DOMAIN order) /\ Cardinality(DOMAIN order) \in Nat
           /\ IsFiniteSet(Underway) /\ Cardinality(Underway) \in Nat
           /\ Cardinality(Txns) \in Nat
<1>1. Underway \subseteq Txns
  BY DEF Underway
<1>2. IsFiniteSet(DOMAIN order) /\ IsFiniteSet(Underway)
  BY <1>1, LimitAssumption, TxnsAssumption, FS_Subset DEF LimitInv
<1> QED
  BY <1>2, TxnsAssumption, FS_CardinalityType

\* A step that adds no room and begins no creation.
LEMMA NothingNewIsFine ==
    ASSUME LimitInv, ShapesOK', DOMAIN order' \subseteq DOMAIN order,
           \A t \in Txns : Creating(t)' => Creating(t)
    PROVE  LimitInv'
<1>1. Underway' \subseteq Underway
  BY DEF Underway
<1>2. /\ Cardinality(Underway') <= Cardinality(Underway)
      /\ Cardinality(DOMAIN order') <= Cardinality(DOMAIN order)
      /\ Cardinality(Underway') \in Nat /\ Cardinality(DOMAIN order') \in Nat
  BY <1>1, SetsOfRooms, FS_Subset, FS_CardinalityType
<1> QED
  BY <1>2, SetsOfRooms, LimitAssumption DEF LimitInv

LEMMA InitIsUnderTheLimit == Init => LimitInv
<1> SUFFICES ASSUME Init PROVE LimitInv
  OBVIOUS
<1> PICK n \in 0 .. MAX_ROOMS_PER_PROPERTY :
       \E rs \in kSubset(n, Rooms) : order \in Injection(rs, 0 .. n - 1)
  BY DEF Init
<1> PICK rs \in kSubset(n, Rooms) : order \in Injection(rs, 0 .. n - 1)
  OBVIOUS
<1>1. rs \subseteq Rooms /\ Cardinality(rs) = n /\ DOMAIN order = rs
  BY DEF kSubset, Injection
<1>2. ShapesOK /\ Underway = {}
  BY DEF Init, Idle, ShapesOK, Kinds, Underway, Creating
<1>3. Cardinality(Underway) = 0
  BY <1>2, FS_EmptySet
<1>4. Cardinality(Txns) \in Nat /\ Cardinality(Txns) # 0
  BY TxnsAssumption, FS_CardinalityType, FS_EmptySet
<1>5. Cardinality(DOMAIN order) <= MAX_ROOMS_PER_PROPERTY /\ Cardinality(DOMAIN order) \in Nat
  BY <1>1
<1> QED
  BY <1>1, <1>2, <1>3, <1>4, <1>5, LimitAssumption DEF LimitInv

\* A transaction begins, moves on or ends: no step of one is part of a creation.
LEMMA TransactionsAreFine ==
    ASSUME LimitInv, NEW t \in Txns,
           \/ CloseBegin(t) \/ BookBegin(t) \/ ReorderBegin(t) \/ RemoveBegin(t)
           \/ InsertSend(t) \/ InsertVerdict(t) \/ RenumberRoom(t) \/ ClearBlocks(t)
           \/ DeleteRoom(t) \/ DeadlockDetected(t) \/ ConnectionLost(t)
    PROVE  LimitInv'
<1>1. ASSUME NEW kind \in Kinds \ {"create"}, NEW list, Begin(t, kind, list) PROVE LimitInv'
  <2>1. ShapesOK' /\ order' = order /\ \A u \in Txns : Creating(u)' => Creating(u)
    BY <1>1 DEF Begin, Txn, ShapesOK, LimitInv, Creating, Kinds
  <2> QED
    BY <2>1, NothingNewIsFine
<1>2. ASSUME Rollback(t) PROVE LimitInv'
  <2>1. ShapesOK' /\ order' = order /\ \A u \in Txns : Creating(u)' => Creating(u)
    BY <1>2 DEF Rollback, Idle, ShapesOK, LimitInv, Creating, Kinds
  <2> QED
    BY <2>1, NothingNewIsFine
<1>3. ASSUME NextStatement(t) \/ InsertSend(t) PROVE LimitInv'
  <2>1. /\ order' = order /\ DOMAIN txns' = Txns
        /\ \A u \in Txns \ {t} : txns'[u] = txns[u]
        /\ DOMAIN txns'[t] = DOMAIN txns[t] /\ txns'[t].kind = txns[t].kind
    BY <1>3 DEF NextStatement, InsertSend, LimitInv, ShapesOK
  <2>2. ShapesOK' /\ \A u \in Txns : Creating(u)' => Creating(u)
    BY <2>1 DEF ShapesOK, LimitInv, Creating
  <2> QED
    BY <2>1, <2>2, NothingNewIsFine
<1>4. CASE CloseBegin(t) \/ BookBegin(t) \/ ReorderBegin(t) \/ RemoveBegin(t)
  BY <1>1, <1>4 DEF CloseBegin, BookBegin, ReorderBegin, RemoveBegin, Kinds
<1>5. CASE InsertVerdict(t) \/ RenumberRoom(t) \/ ClearBlocks(t) \/ DeleteRoom(t)
  BY <1>2, <1>3, <1>5 DEF InsertVerdict, RenumberRoom, ClearBlocks, DeleteRoom
<1>6. CASE DeadlockDetected(t) \/ ConnectionLost(t)
  BY <1>2, <1>6 DEF DeadlockDetected, ConnectionLost
<1> QED
  BY <1>3, <1>4, <1>5, <1>6

\* A commit may take rooms away; it adds none.
LEMMA CommitIsFine == ASSUME LimitInv, NEW t \in Txns, Commit(t) PROVE LimitInv'
<1>1. ShapesOK' /\ \A u \in Txns : Creating(u)' => Creating(u)
  BY DEF Commit, Idle, ShapesOK, LimitInv, Creating, Kinds
<1>2. DOMAIN order' \subseteq DOMAIN order
  <2>1. CASE txns[t].kind = "reorder"
    BY <2>1 DEF Commit
  <2>2. CASE txns[t].kind = "remove"
    BY <2>2 DEF Commit
  <2>3. CASE txns[t].kind \notin {"reorder", "remove"}
    BY <2>3 DEF Commit
  <2> QED
    BY <2>1, <2>2, <2>3
<1> QED
  BY <1>1, <1>2, NothingNewIsFine

\* A creation begins only below the limit, and at most all requests are creations.
LEMMA CountIsFine == ASSUME LimitInv, NEW t \in Txns, CountRooms(t) PROVE LimitInv'
<1>1. /\ Cardinality(DOMAIN order) < MAX_ROOMS_PER_PROPERTY /\ order' = order
      /\ ShapesOK'
  BY DEF CountRooms, LimitInv, ShapesOK, Kinds
<1>2. Cardinality(Underway') \in Nat /\ Cardinality(Underway') <= Cardinality(Txns)
  <2>1. Underway' \subseteq Txns
    BY DEF Underway
  <2> QED
    BY <2>1, TxnsAssumption, FS_Subset, FS_CardinalityType
<1> QED
  BY <1>1, <1>2, SetsOfRooms, LimitAssumption DEF LimitInv

LEMMA ReadLastIsFine == ASSUME LimitInv, NEW t \in Txns, ReadLast(t) PROVE LimitInv'
<1>1. /\ order' = order /\ DOMAIN txns' = Txns
      /\ \A u \in Txns \ {t} : txns'[u] = txns[u]
      /\ DOMAIN txns'[t] = DOMAIN txns[t] /\ txns'[t].kind = txns[t].kind
  BY DEF ReadLast, LimitInv, ShapesOK
<1>2. ShapesOK' /\ \A u \in Txns : Creating(u)' => Creating(u)
  BY <1>1 DEF ShapesOK, LimitInv, Creating
<1> QED
  BY <1>1, <1>2, NothingNewIsFine

\* One more room, and one creation less underway.
LEMMA InsertIsFine == ASSUME LimitInv, NEW t \in Txns, InsertRoom(t) PROVE LimitInv'
<1>1. PICK r \in Rooms \ DOMAIN order :
         order' = [x \in DOMAIN order \cup {r} |-> IF x = r THEN txns[t].place ELSE order[x]]
  <2>1. (CHOOSE id \in NewIds : TRUE) \in Rooms \ DOMAIN order
    BY DEF InsertRoom, NewIds
  <2> QED
    BY <2>1 DEF InsertRoom
<1>2. /\ txns[t].kind = "create" /\ txns'[t] = Idle /\ ShapesOK'
      /\ \A u \in Txns \ {t} : txns'[u] = txns[u]
  BY DEF InsertRoom, LimitInv, Creating, ShapesOK, Idle, Kinds
<1>3. t \in Underway /\ Underway' = Underway \ {t}
  BY <1>2 DEF Underway, Creating, Idle
<1>4. DOMAIN order' = DOMAIN order \cup {r}
  BY <1>1
<1>5. Cardinality(Underway') = Cardinality(Underway) - 1
  BY <1>3, SetsOfRooms, FS_RemoveElement
<1>6. Cardinality(DOMAIN order') = Cardinality(DOMAIN order) + 1
  BY <1>4, SetsOfRooms, FS_AddElement
<1> QED
  BY <1>2, <1>4, <1>5, <1>6, SetsOfRooms, LimitAssumption DEF LimitInv

LEMMA NextIsUnderTheLimit == LimitInv /\ [Next]_vars => LimitInv'
<1> SUFFICES ASSUME LimitInv, [Next]_vars PROVE LimitInv'
  OBVIOUS
<1>1. ASSUME UNCHANGED <<order, txns>> PROVE LimitInv'
  BY <1>1 DEF LimitInv, ShapesOK, Underway, Creating
<1>2. ASSUME NEW t \in Txns, Start(t) PROVE LimitInv'
  BY <1>2, TransactionsAreFine, CountIsFine DEF Start
<1>3. ASSUME NEW t \in Txns, Step(t) PROVE LimitInv'
  BY <1>3, TransactionsAreFine, CommitIsFine, ReadLastIsFine, InsertIsFine DEF Step
<1>4. ASSUME NEW t \in Txns, DeadlockDetected(t) \/ ConnectionLost(t) PROVE LimitInv'
  BY <1>4, TransactionsAreFine
<1>5. ASSUME NEW r \in Rooms, Reopen(r) PROVE LimitInv'
  BY <1>1, <1>5 DEF Reopen
<1>6. CASE UNCHANGED vars
  BY <1>1, <1>6 DEF vars
<1> QED
  BY <1>2, <1>3, <1>4, <1>5, <1>6 DEF Next

\* The limit slips by less than the number of creations that may run at once.
THEOREM RoomsAreNearTheLimit == Spec => []RoomsNearTheLimit
<1>1. LimitInv => RoomsNearTheLimit
  BY SetsOfRooms, LimitAssumption DEF LimitInv, RoomsNearTheLimit
<1> QED
  BY <1>1, InitIsUnderTheLimit, NextIsUnderTheLimit, PTL DEF Spec
-----------------------------------------------------------------------------
(* The tables change as RoomBoard does: what a transaction has written, and  *)
(* what the waits keep others from writing until it is over.                 *)

Taking(t)    == txns[t].kind \in {"block", "booking"}
Arranging(t) == txns[t].kind = "reorder"
Removing(t)  == txns[t].kind = "remove"

\* A removal that has run both of its statements and is not committed.
HasDeleted(t) == Removing(t) /\ txns[t].at = 3

\* A removal names its room twice, and a new order no room twice.
NamesOneTwice(txn) ==
    /\ Len(txn.list) = 2 /\ DOMAIN txn.list = {1, 2} /\ txn.list[1] = txn.list[2]
    /\ txn.at \in 1 .. 3
NamesEachOnce(txn) ==
    /\ Len(txn.list) \in Nat /\ txn.list = [i \in 1 .. Len(txn.list) |-> txn.list[i]]
    /\ \A i, j \in 1 .. Len(txn.list) : txn.list[i] = txn.list[j] => i = j
    /\ txn.at \in 1 .. Len(txn.list) + 1

ListsOK == \A t \in Txns : /\ Removing(t) => NamesOneTwice(txns[t])
                           /\ Arranging(t) => NamesEachOnce(txns[t])

\* A statement is a number, and a place that was read is one that no room is below.
ShapeOK(txn) ==
    /\ txn.kind \in {"block", "booking", "reorder", "remove"} =>
           /\ DOMAIN txn = {"kind", "list", "at", "sent", "cleared"}
           /\ txn.at \in Nat \ {0} /\ txn.sent \in BOOLEAN /\ txn.cleared \in BOOLEAN
           /\ txn.sent = FALSE \/ txn.kind \in {"block", "booking"}
    /\ txn.kind = "create" =>
           DOMAIN txn = {"kind", "place"} /\ txn.place \in Nat \cup {-1}

ShapesOfTxns == ShapesOK /\ \A t \in Txns : ShapeOK(txns[t])

\* A room that is not there has no stay.
TablesOK ==
    /\ DOMAIN order \subseteq Rooms /\ order = [r \in DOMAIN order |-> order[r]]
    /\ \E n \in Nat : \A r \in DOMAIN order : order[r] \in 0 .. n
    /\ stays \in [Rooms -> {"free", "block", "booking"}]
    /\ \A r \in Rooms \ DOMAIN order : stays[r] = "free"

\* What a closure or a booking has written is its own: no one else took it, and no one
\* took the room away.
TakenIsKept ==
    \A t \in Txns : Taking(t) => \A r \in Wrote(t) :
        /\ r \in DOMAIN order /\ stays[r] = "free"
        /\ \A u \in Txns \ {t} : Taking(u) => r \notin Wrote(u)
        /\ \A u \in Txns : HasDeleted(u) => txns[u].list[1] # r

\* So is what a new order has renumbered,
ArrangedIsKept ==
    \A t \in Txns : Arranging(t) => \A r \in Wrote(t) :
        /\ r \in DOMAIN order
        /\ \A u \in Txns : HasDeleted(u) => txns[u].list[1] # r

\* and the room that a removal has deleted, which no booking holds.
DeletedIsKept ==
    \A t \in Txns : HasDeleted(t) =>
        /\ txns[t].list[1] \in DOMAIN order /\ stays[txns[t].list[1]] # "booking"
        /\ \A u \in Txns \ {t} : HasDeleted(u) => txns[u].list[1] # txns[t].list[1]

BoardInv == /\ ShapesOfTxns /\ ListsOK /\ TablesOK
            /\ TakenIsKept /\ ArrangedIsKept /\ DeletedIsKept

\* A request that has written no more after a step than before.
WroteNoMore(u) ==
    /\ Taking(u)' => Wrote(u)' = {} \/ (Taking(u) /\ Wrote(u)' \subseteq Wrote(u))
    /\ Arranging(u)' => Wrote(u)' = {} \/ (Arranging(u) /\ Wrote(u)' \subseteq Wrote(u))
    /\ HasDeleted(u)' => HasDeleted(u) /\ txns'[u].list = txns[u].list

LEMMA NoMoreWritten ==
    ASSUME BoardInv, ShapesOfTxns', ListsOK', UNCHANGED <<order, stays>>,
           \A u \in Txns : WroteNoMore(u)
    PROVE  BoardInv'
<1>1. TablesOK'
  BY DEF BoardInv, TablesOK
<1>2. TakenIsKept'
  <2> SUFFICES ASSUME NEW t \in Txns, Taking(t)', NEW r \in Wrote(t)'
               PROVE  /\ r \in DOMAIN order /\ stays[r] = "free"
                      /\ \A u \in Txns \ {t} : Taking(u)' => r \notin Wrote(u)'
                      /\ \A u \in Txns : HasDeleted(u)' => txns'[u].list[1] # r
    BY DEF TakenIsKept
  <2>1. Taking(t) /\ r \in Wrote(t)
    BY DEF WroteNoMore
  <2> QED
    BY <2>1 DEF BoardInv, TakenIsKept, WroteNoMore
<1>3. ArrangedIsKept'
  <2> SUFFICES ASSUME NEW t \in Txns, Arranging(t)', NEW r \in Wrote(t)'
               PROVE  /\ r \in DOMAIN order
                      /\ \A u \in Txns : HasDeleted(u)' => txns'[u].list[1] # r
    BY DEF ArrangedIsKept
  <2>1. Arranging(t) /\ r \in Wrote(t)
    BY DEF WroteNoMore
  <2> QED
    BY <2>1 DEF BoardInv, ArrangedIsKept, WroteNoMore
<1>4. DeletedIsKept'
  BY DEF BoardInv, DeletedIsKept, WroteNoMore
<1> QED
  BY <1>1, <1>2, <1>3, <1>4 DEF BoardInv

\* The rows of a request depend on nothing but it.
LEMMA SameRequestSameRows ==
    ASSUME NEW u \in Txns, txns'[u] = txns[u]
    PROVE  /\ Wrote(u)' = Wrote(u) /\ Taking(u)' = Taking(u) /\ Arranging(u)' = Arranging(u)
           /\ Removing(u)' = Removing(u) /\ HasDeleted(u)' = HasDeleted(u)
           /\ WroteNoMore(u)
BY DEF Wrote, Taking, Arranging, Removing, HasDeleted, WroteNoMore

\* One request moves on, and the others are as they were.
LEMMA OneMoves ==
    ASSUME BoardInv, NEW t \in Txns, NEW txn, txns' = [txns EXCEPT ![t] = txn],
           "kind" \in DOMAIN txn, txn.kind \in Kinds, ShapeOK(txn),
           txn.kind = "remove" => NamesOneTwice(txn),
           txn.kind = "reorder" => NamesEachOnce(txn)
    PROVE  /\ ShapesOfTxns' /\ ListsOK'
           /\ txns'[t] = txn /\ \A u \in Txns \ {t} : txns'[u] = txns[u]
           /\ \A u \in Txns \ {t} : /\ Wrote(u)' = Wrote(u) /\ Taking(u)' = Taking(u)
                                    /\ Arranging(u)' = Arranging(u)
                                    /\ Removing(u)' = Removing(u) /\ HasDeleted(u)' = HasDeleted(u)
                                    /\ WroteNoMore(u)
<1>1. DOMAIN txns' = Txns /\ txns'[t] = txn /\ \A u \in Txns \ {t} : txns'[u] = txns[u]
  BY DEF BoardInv, ShapesOfTxns, ShapesOK
<1>2. ShapesOfTxns'
  BY <1>1 DEF BoardInv, ShapesOfTxns, ShapesOK
<1>3. ListsOK'
  BY <1>1 DEF BoardInv, ListsOK, Removing, Arranging
<1> QED
  BY <1>1, <1>2, <1>3, SameRequestSameRows

LEMMA BoardInit == Init => BoardInv
<1> SUFFICES ASSUME Init PROVE BoardInv
  OBVIOUS
<1>1. ShapesOfTxns /\ ListsOK /\ TakenIsKept /\ ArrangedIsKept /\ DeletedIsKept
  BY DEF Init, Idle, ShapesOfTxns, ShapesOK, Kinds, ListsOK, TakenIsKept, ArrangedIsKept,
         DeletedIsKept, Taking, Arranging, Removing, HasDeleted, Creating, ShapeOK
<1> PICK n \in 0 .. MAX_ROOMS_PER_PROPERTY :
       \E rs \in kSubset(n, Rooms) : order \in Injection(rs, 0 .. n - 1)
  BY DEF Init
<1> PICK rs \in kSubset(n, Rooms) : order \in Injection(rs, 0 .. n - 1)
  OBVIOUS
<1>2. rs \subseteq Rooms /\ order \in [rs -> 0 .. n - 1]
  BY DEF kSubset, Injection
<1>3. \A r \in DOMAIN order : order[r] \in 0 .. n
  BY <1>2, LimitAssumption
<1>4. TablesOK
  BY <1>2, <1>3, LimitAssumption DEF Init, TablesOK
<1> QED
  BY <1>1, <1>4 DEF BoardInv

LEMMA RollbackKeeps == ASSUME BoardInv, NEW t \in Txns, Rollback(t) PROVE BoardInv'
<1>1. "kind" \in DOMAIN Idle /\ Idle.kind = "idle" /\ Idle.kind \in Kinds /\ ShapeOK(Idle)
  BY DEF Idle, Kinds, ShapeOK
<1>2. WroteNoMore(t)
  <2>1. txns'[t] = Idle
    BY <1>1, OneMoves DEF Rollback
  <2> QED
    BY <1>1, <2>1 DEF Taking, Arranging, Removing, HasDeleted, WroteNoMore
<1> QED
  BY <1>1, <1>2, OneMoves, NoMoreWritten DEF Rollback

LEMMA BeginKeeps ==
    ASSUME BoardInv, NEW t \in Txns,
           CloseBegin(t) \/ BookBegin(t) \/ ReorderBegin(t) \/ RemoveBegin(t)
    PROVE  BoardInv'
<1>1. ASSUME NEW kind \in Kinds \ {"idle", "create"}, NEW list, Begin(t, kind, list),
             kind = "remove" => Len(list) = 2 /\ DOMAIN list = {1, 2} /\ list[1] = list[2],
             kind = "reorder" => /\ Len(list) \in Nat /\ list = [i \in 1 .. Len(list) |-> list[i]]
                                 /\ \A i, j \in 1 .. Len(list) : list[i] = list[j] => i = j
      PROVE  BoardInv'
  <2> DEFINE txn == Txn(kind, list)
  <2>1. "kind" \in DOMAIN txn /\ txn.kind = kind /\ ShapeOK(txn)
    BY <1>1 DEF Txn, ShapeOK, Kinds
  <2>2. /\ kind = "remove" => NamesOneTwice(txn)
        /\ kind = "reorder" => NamesEachOnce(txn)
    BY <1>1 DEF Txn, NamesOneTwice, NamesEachOnce
  <2>3. txn.at = 1
    BY DEF Txn
  <2>4. txns' = [txns EXCEPT ![t] = txn] /\ UNCHANGED <<order, stays>>
    BY <1>1 DEF Begin
  <2> HIDE DEF txn
  <2>5. txns'[t] = txn /\ ShapesOfTxns' /\ ListsOK'
    BY <1>1, <2>1, <2>2, <2>4, OneMoves
  <2>6. WroteNoMore(t)
    BY <2>3, <2>5 DEF Wrote, HasDeleted, WroteNoMore
  <2> QED
    BY <1>1, <2>1, <2>2, <2>4, <2>5, <2>6, OneMoves, NoMoreWritten
<1>2. CASE CloseBegin(t) \/ BookBegin(t)
  BY <1>1, <1>2 DEF CloseBegin, BookBegin, Kinds
<1>3. CASE ReorderBegin(t)
  <2>1. PICK list \in SetToSeqs(DOMAIN order) : Begin(t, "reorder", list)
    BY <1>3 DEF ReorderBegin
  <2>2. Cardinality(DOMAIN order) \in Nat
    BY FS_Subset, FS_CardinalityType, LimitAssumption DEF BoardInv, TablesOK
  <2>3. /\ Len(list) \in Nat /\ list = [i \in 1 .. Len(list) |-> list[i]]
        /\ \A i, j \in 1 .. Len(list) : list[i] = list[j] => i = j
    BY <2>1, <2>2 DEF SetToSeqs
  <2> QED
    BY <2>1, <2>3, <1>1 DEF Kinds
<1>4. CASE RemoveBegin(t)
  BY <1>1, <1>4 DEF RemoveBegin, Kinds
<1> QED
  BY <1>2, <1>3, <1>4

LEMMA CreationKeeps ==
    ASSUME BoardInv, NEW t \in Txns, NEW place \in Nat \cup {-1},
           txns' = [txns EXCEPT ![t] = [kind |-> "create", place |-> place]],
           UNCHANGED <<order, stays>>
    PROVE  BoardInv'
<1> DEFINE txn == [kind |-> "create", place |-> place]
<1>1. "kind" \in DOMAIN txn /\ txn.kind = "create" /\ ShapeOK(txn)
  BY DEF ShapeOK
<1> HIDE DEF txn
<1>2. ShapesOfTxns' /\ ListsOK' /\ txns'[t] = txn
  BY <1>1, OneMoves DEF Kinds, txn
<1>3. WroteNoMore(t)
  BY <1>1, <1>2 DEF Taking, Arranging, Removing, HasDeleted, WroteNoMore
<1> QED
  BY <1>1, <1>2, <1>3, OneMoves, NoMoreWritten DEF Kinds, txn

\* A set of numbers below a bound has a largest one: the complements to the bound are
\* intervals, and a family of finite sets has one that contains no other.
LEMMA LargestOfBounded ==
    ASSUME NEW S, S # {}, NEW n \in Nat, S \subseteq 0 .. n
    PROVE  Max(S) \in S /\ \A x \in S : Max(S) >= x
<1> DEFINE Above == {x .. n : x \in S}
<1>0. \A x \in S : x .. n \subseteq 0 .. n
  OBVIOUS
<1>1. IsFiniteSet(0 .. n) /\ Above \subseteq SUBSET (0 .. n) /\ Above # {}
  <2>1. IsFiniteSet(0 .. n)
    BY FS_Interval
  <2> QED
    BY <1>0, <2>1
<1> HIDE DEF Above
<1>2. IsWellFoundedOn(StrictSubsetOrdering(0 .. n), SUBSET (0 .. n))
  BY <1>1, FS_StrictSubsetOrderingWellFounded, FS_FiniteSubsetsOfFinite
<1>3. PICK least \in Above : \A above \in Above :
         <<above, least>> \notin StrictSubsetOrdering(0 .. n)
  BY <1>1, <1>2, WFMin
<1> USE DEF Above
<1>4. PICK m \in S : least = m .. n
  BY <1>3
<1>5. ASSUME NEW x \in S, m < x PROVE FALSE
  <2>1. x .. n \in Above /\ x .. n \subseteq least /\ x .. n # least
    <3>1. m \in least /\ m \notin x .. n
      BY <1>4, <1>5
    <3> QED
      BY <1>4, <1>5, <3>1
  <2> QED
    BY <1>1, <1>3, <2>1 DEF StrictSubsetOrdering
<1>6. \A x \in S : m >= x
  BY <1>5
<1> QED
  BY <1>6 DEF Max

LEMMA PlacesAreNumbers == ASSUME BoardInv PROVE NextPlace \in Nat
<1>1. CASE order = <<>>
  BY <1>1 DEF NextPlace
<1>2. CASE order # <<>>
  <2>1. DOMAIN order # {}
    <3>1. order = [r \in DOMAIN order |-> order[r]]
      BY DEF BoardInv, TablesOK
    <3> QED
      BY <1>2, <3>1
  <2>2. PICK n \in Nat : \A r \in DOMAIN order : order[r] \in 0 .. n
    BY DEF BoardInv, TablesOK
  <2>3. Range(order) # {} /\ Range(order) \subseteq 0 .. n
    BY <2>1, <2>2 DEF Range
  <2> QED
    BY <1>2, <2>3, LargestOfBounded DEF NextPlace
<1> QED
  BY <1>1, <1>2

-----------------------------------------------------------------------------
(* Statements.                                                             *)

Statement(t) == Taking(t) \/ Arranging(t) \/ Removing(t)

LEMMA ActiveOnesHaveStatements ==
    ASSUME BoardInv, NEW t \in Active PROVE t \in Txns /\ Statement(t) /\ ShapeOK(txns[t])
BY DEF Active, BoardInv, ShapesOfTxns, ShapesOK, Kinds, Statement, Taking, Arranging, Removing

\* What a removal has in hand is the one room it names.
LEMMA RemovalsHaveOneRoom ==
    ASSUME BoardInv, NEW t \in Txns, Removing(t)
    PROVE  /\ HasDeleted(t) <=> Ended(t)
           /\ HasDeleted(t) => Wrote(t) = {txns[t].list[1]}
           /\ ~Ended(t) => Stmt(t) = txns[t].list[1]
           /\ \A r : Deleted(t, r) <=> HasDeleted(t) /\ r = txns[t].list[1]
<1>1. NamesOneTwice(txns[t])
  BY DEF BoardInv, ListsOK
<1>2. txns[t].at = 3 => Wrote(t) = {txns[t].list[1]}
  BY <1>1 DEF Wrote, NamesOneTwice
<1>3. HasDeleted(t) <=> Ended(t)
  BY <1>1 DEF HasDeleted, Ended, NamesOneTwice
<1>4. ~Ended(t) => Stmt(t) = txns[t].list[1]
  BY <1>1 DEF Ended, Stmt, NamesOneTwice
<1> QED
  BY <1>2, <1>3, <1>4 DEF Deleted, Removing, HasDeleted

\* A statement that runs has met no row of another transaction that is in its way.
LEMMA WhoRunsIsAlone ==
    ASSUME BoardInv, NEW t \in Txns, Runs(t)
    PROVE  /\ Statement(t) /\ ~Ended(t)
           /\ Taking(t) /\ txns[t].sent => \A u \in Txns \ {t} :
                  /\ Taking(u) => Stmt(t) \notin Wrote(u)
                  /\ HasDeleted(u) => txns[u].list[1] # Stmt(t)
           /\ Arranging(t) => \A u \in Txns \ {t} : HasDeleted(u) => txns[u].list[1] # Stmt(t)
           /\ Removing(t) /\ txns[t].at = 2 => \A u \in Txns \ {t} :
                  /\ Taking(u) \/ Arranging(u) => Stmt(t) \notin Wrote(u)
                  /\ HasDeleted(u) => txns[u].list[1] # Stmt(t)
<1>1. t \in Active /\ ~Ended(t) /\ Statement(t)
  BY ActiveOnesHaveStatements DEF Runs
<1>2. \A u \in Active \ {t} : ~Blocks(u, t)
  BY <1>1 DEF Runs, WaitsFor
<1>3. \A u \in Txns : Statement(u) => u \in Active
  BY DEF Statement, Taking, Arranging, Removing, Active
<1>4. ASSUME NEW u \in Txns \ {t}, HasDeleted(u)
      PROVE  Deleted(u, txns[u].list[1]) /\ Statement(u)
  <2>1. Removing(u) /\ txns[u].list[1] \in Wrote(u)
    BY <1>4, RemovalsHaveOneRoom DEF HasDeleted
  <2> QED
    BY <1>4, <2>1, RemovalsHaveOneRoom DEF Removing, Statement
<1>5. CASE Taking(t) /\ txns[t].sent
  <2>1. \A u \in Txns \ {t} : Statement(u) => ~HasStay(u, Stmt(t)) /\ ~Deleted(u, Stmt(t))
    BY <1>2, <1>3, <1>5 DEF Blocks, Taking
  <2> QED
    BY <1>1, <1>4, <1>5, <2>1 DEF HasStay, Taking, Arranging, Removing, Statement
<1>6. CASE Arranging(t)
  <2>1. \A u \in Txns \ {t} : Statement(u) => ~Deleted(u, Stmt(t))
    BY <1>2, <1>3, <1>6 DEF Blocks, Arranging
  <2> QED
    BY <1>1, <1>4, <1>6, <2>1 DEF Taking, Arranging, Removing
<1>7. CASE Removing(t) /\ txns[t].at = 2
  <2>1. \A u \in Txns \ {t} : Statement(u) =>
            /\ ~Deleted(u, Stmt(t)) /\ ~Renumbered(u, Stmt(t))
            /\ Taking(u) => Stmt(t) \notin Wrote(u)
    BY <1>2, <1>3, <1>7 DEF Blocks, Removing, Taking
  <2> QED
    BY <1>1, <1>4, <1>7, <2>1 DEF Renumbered, Taking, Arranging, Removing, Statement
<1> QED
  BY <1>1, <1>5, <1>6, <1>7 DEF Taking, Arranging, Removing

\* A statement that succeeds adds its room to what its transaction has written.
LEMMA StatementAddsItsRoom ==
    ASSUME BoardInv, NEW t \in Txns, Statement(t), ~Ended(t), NextStatement(t)
    PROVE  /\ ShapesOfTxns' /\ ListsOK' /\ UNCHANGED <<order, stays>>
           /\ Taking(t)' = Taking(t) /\ Arranging(t)' = Arranging(t) /\ Removing(t)' = Removing(t)
           /\ Wrote(t)' = Wrote(t) \cup {Stmt(t)}
           /\ txns'[t].at = txns[t].at + 1 /\ txns'[t].list = txns[t].list
           /\ \A u \in Txns \ {t} : /\ Wrote(u)' = Wrote(u) /\ Taking(u)' = Taking(u)
                                    /\ Arranging(u)' = Arranging(u) /\ HasDeleted(u)' = HasDeleted(u)
                                    /\ txns'[u] = txns[u] /\ WroteNoMore(u)
<1> DEFINE clears == txns[t].cleared \/ (txns[t].kind = "remove" /\ stays[Stmt(t)] = "block")
           txn == [txns[t] EXCEPT !.at = @ + 1, !.sent = FALSE, !.cleared = clears]
<1>1. clears \in BOOLEAN
  OBVIOUS
<1>2. txns' = [txns EXCEPT ![t] = txn] /\ UNCHANGED <<order, stays>>
  BY DEF NextStatement
<1> HIDE DEF clears
<1>3. /\ txns[t].kind \in {"block", "booking", "reorder", "remove"} /\ txns[t].at \in Nat \ {0}
      /\ DOMAIN txns[t] = {"kind", "list", "at", "sent", "cleared"}
  BY DEF BoardInv, ShapesOfTxns, ShapeOK, Statement, Taking, Arranging, Removing
<1>4. /\ DOMAIN txn = DOMAIN txns[t] /\ txn.kind = txns[t].kind /\ txn.list = txns[t].list
      /\ txn.at = txns[t].at + 1 /\ txn.sent = FALSE /\ txn.cleared = clears
  BY <1>3
<1> HIDE DEF txn
<1>5. "kind" \in DOMAIN txn /\ txn.kind \in Kinds /\ ShapeOK(txn)
  <2>1. txn.sent \in BOOLEAN /\ txn.cleared \in BOOLEAN
    BY <1>1, <1>4, Zenon
  <2>2. txn.at \in Nat \ {0} /\ txn.kind # "create" /\ txn.kind \in Kinds
    BY <1>3, <1>4 DEF Kinds
  <2> QED
    BY <1>3, <1>4, <2>1, <2>2 DEF ShapeOK
<1>6. /\ txn.kind = "remove" => NamesOneTwice(txn)
      /\ txn.kind = "reorder" => NamesEachOnce(txn)
  <2>1. CASE Removing(t)
    <3>1. NamesOneTwice(txns[t]) /\ txns[t].kind = "remove"
      BY <2>1 DEF BoardInv, ListsOK, Removing
    <3>2. txns[t].at + 1 \in 1 .. 3
      BY <3>1, <1>3 DEF NamesOneTwice, Ended
    <3> QED
      BY <3>1, <3>2, <1>4, Zenon DEF NamesOneTwice
  <2>2. CASE Arranging(t)
    <3>1. NamesEachOnce(txns[t]) /\ txns[t].kind = "reorder"
      BY <2>2 DEF BoardInv, ListsOK, Arranging
    <3>2. txns[t].at + 1 \in 1 .. Len(txns[t].list) + 1
      BY <3>1, <1>3 DEF NamesEachOnce, Ended
    <3> QED
      BY <3>1, <3>2, <1>4, Zenon DEF NamesEachOnce
  <2> QED
    BY <1>4, <2>1, <2>2 DEF Removing, Arranging
<1>7. /\ ShapesOfTxns' /\ ListsOK' /\ txns'[t] = txn
      /\ \A u \in Txns \ {t} : /\ Wrote(u)' = Wrote(u) /\ Taking(u)' = Taking(u)
                               /\ Arranging(u)' = Arranging(u) /\ HasDeleted(u)' = HasDeleted(u)
                               /\ txns'[u] = txns[u] /\ WroteNoMore(u)
  BY <1>2, <1>5, <1>6, OneMoves
<1>8. Wrote(t)' = Wrote(t) \cup {Stmt(t)}
  <2>1. Wrote(t)' = {txns[t].list[i] : i \in 1 .. txns[t].at}
    BY <1>3, <1>4, <1>7 DEF Wrote
  <2>2. 1 .. txns[t].at = (1 .. txns[t].at - 1) \cup {txns[t].at}
    BY <1>3
  <2> QED
    BY <2>1, <2>2 DEF Wrote, Stmt
<1> QED
  BY <1>2, <1>4, <1>7, <1>8 DEF Taking, Arranging, Removing

LEMMA VerdictKeeps == ASSUME BoardInv, NEW t \in Txns, InsertVerdict(t) PROVE BoardInv'
<1>1. CASE ~InsertFits(t)
  BY <1>1, RollbackKeeps DEF InsertVerdict
<1>2. CASE InsertFits(t)
  <2>1. /\ Runs(t) /\ txns[t].sent /\ NextStatement(t) /\ Statement(t) /\ ~Ended(t)
        /\ Stmt(t) \in DOMAIN order /\ stays[Stmt(t)] = "free"
    BY <1>2, WhoRunsIsAlone DEF InsertVerdict, InsertFits
  <2>2. Taking(t) /\ ~Arranging(t) /\ ~Removing(t)
    BY <2>1, ActiveOnesHaveStatements DEF Runs, ShapeOK, Statement, Taking, Arranging, Removing
  <2>3. \A u \in Txns \ {t} : /\ Taking(u) => Stmt(t) \notin Wrote(u)
                              /\ HasDeleted(u) => txns[u].list[1] # Stmt(t)
    BY <2>1, <2>2, WhoRunsIsAlone
  <2>4. ~HasDeleted(t) /\ ~HasDeleted(t)'
    BY <2>1, <2>2, StatementAddsItsRoom DEF HasDeleted
  <2>5. /\ ShapesOfTxns' /\ ListsOK' /\ UNCHANGED <<order, stays>>
        /\ Taking(t)' /\ ~Arranging(t)' /\ Wrote(t)' = Wrote(t) \cup {Stmt(t)}
        /\ \A u \in Txns \ {t} : /\ Wrote(u)' = Wrote(u) /\ Taking(u)' = Taking(u)
                                 /\ Arranging(u)' = Arranging(u) /\ HasDeleted(u)' = HasDeleted(u)
                                 /\ txns'[u] = txns[u]
    BY <2>1, <2>2, StatementAddsItsRoom
  <2>6. TablesOK' /\ ArrangedIsKept' /\ DeletedIsKept'
    BY <2>4, <2>5 DEF BoardInv, TablesOK, ArrangedIsKept, DeletedIsKept
  <2>7. TakenIsKept'
    <3> SUFFICES ASSUME NEW u \in Txns, Taking(u)', NEW r \in Wrote(u)'
                 PROVE  /\ r \in DOMAIN order /\ stays[r] = "free"
                        /\ \A v \in Txns \ {u} : Taking(v)' => r \notin Wrote(v)'
                        /\ \A v \in Txns : HasDeleted(v)' => txns'[v].list[1] # r
      BY <2>5 DEF TakenIsKept
    <3>1. CASE u = t /\ r = Stmt(t)
      BY <3>1, <2>1, <2>3, <2>4, <2>5
    <3>2. CASE u # t \/ r # Stmt(t)
      <4>1. Taking(u) /\ r \in Wrote(u)
        BY <3>2, <2>2, <2>5
      <4>2. \A v \in Txns \ {u} : Taking(v)' => r \notin Wrote(v)'
        BY <4>1, <2>2, <2>3, <2>5 DEF BoardInv, TakenIsKept
      <4> QED
        BY <4>1, <4>2, <2>4, <2>5 DEF BoardInv, TakenIsKept
    <3> QED
      BY <3>1, <3>2
  <2> QED
    BY <2>5, <2>6, <2>7 DEF BoardInv
<1> QED
  BY <1>1, <1>2

LEMMA RenumberKeeps == ASSUME BoardInv, NEW t \in Txns, RenumberRoom(t) PROVE BoardInv'
<1>1. CASE Stmt(t) \notin DOMAIN order
  BY <1>1, RollbackKeeps DEF RenumberRoom
<1>2. CASE Stmt(t) \in DOMAIN order
  <2>1. Runs(t) /\ NextStatement(t) /\ Arranging(t) /\ Statement(t) /\ ~Ended(t) /\ ~Taking(t)
    BY <1>2, WhoRunsIsAlone DEF RenumberRoom, Arranging, Taking
  <2>2. /\ \A u \in Txns \ {t} : HasDeleted(u) => txns[u].list[1] # Stmt(t)
        /\ ~HasDeleted(t) /\ ~HasDeleted(t)'
    BY <2>1, WhoRunsIsAlone, StatementAddsItsRoom DEF HasDeleted, Arranging, Removing
  <2>3. /\ ShapesOfTxns' /\ ListsOK' /\ UNCHANGED <<order, stays>>
        /\ ~Taking(t)' /\ Arranging(t)' /\ Wrote(t)' = Wrote(t) \cup {Stmt(t)}
        /\ \A u \in Txns \ {t} : /\ Wrote(u)' = Wrote(u) /\ Taking(u)' = Taking(u)
                                 /\ Arranging(u)' = Arranging(u) /\ HasDeleted(u)' = HasDeleted(u)
                                 /\ txns'[u] = txns[u]
    BY <2>1, StatementAddsItsRoom
  <2>4. TablesOK' /\ DeletedIsKept'
    BY <2>2, <2>3 DEF BoardInv, TablesOK, DeletedIsKept
  <2>5. TakenIsKept'
    BY <2>2, <2>3 DEF BoardInv, TakenIsKept
  <2>6. ArrangedIsKept'
    BY <1>2, <2>1, <2>2, <2>3 DEF BoardInv, ArrangedIsKept
  <2> QED
    BY <2>3, <2>4, <2>5, <2>6 DEF BoardInv
<1> QED
  BY <1>1, <1>2

LEMMA ClearKeeps == ASSUME BoardInv, NEW t \in Txns, ClearBlocks(t) PROVE BoardInv'
<1>1. Runs(t) /\ NextStatement(t) /\ Removing(t) /\ Statement(t) /\ ~Ended(t) /\ txns[t].at = 1
  BY WhoRunsIsAlone DEF ClearBlocks, Removing
<1>2. WroteNoMore(t)
  BY <1>1, StatementAddsItsRoom DEF WroteNoMore, HasDeleted, Removing, Taking, Arranging
<1> QED
  BY <1>1, <1>2, StatementAddsItsRoom, NoMoreWritten

LEMMA DeleteKeeps == ASSUME BoardInv, NEW t \in Txns, DeleteRoom(t) PROVE BoardInv'
<1>1. CASE ~Deletable(t)
  BY <1>1, RollbackKeeps DEF DeleteRoom
<1>2. CASE Deletable(t)
  <2> DEFINE room == txns[t].list[1]
  <2>1. Runs(t) /\ NextStatement(t) /\ Removing(t) /\ Statement(t) /\ ~Ended(t) /\ txns[t].at = 2
    BY <1>2, WhoRunsIsAlone DEF DeleteRoom, Removing
  <2>2. Stmt(t) = room /\ room \in DOMAIN order /\ stays[room] # "booking"
    BY <1>2, <2>1, RemovalsHaveOneRoom DEF Deletable
  <2>3. \A u \in Txns \ {t} : /\ Taking(u) \/ Arranging(u) => room \notin Wrote(u)
                              /\ HasDeleted(u) => txns[u].list[1] # room
    BY <2>1, <2>2, WhoRunsIsAlone
  <2>4. /\ ShapesOfTxns' /\ ListsOK' /\ UNCHANGED <<order, stays>>
        /\ Removing(t)' /\ txns'[t].at = 3 /\ txns'[t].list = txns[t].list
        /\ \A u \in Txns \ {t} : /\ Wrote(u)' = Wrote(u) /\ Taking(u)' = Taking(u)
                                 /\ Arranging(u)' = Arranging(u) /\ HasDeleted(u)' = HasDeleted(u)
                                 /\ txns'[u] = txns[u]
    BY <2>1, StatementAddsItsRoom
  <2>5. ~Taking(t)' /\ ~Arranging(t)' /\ HasDeleted(t)' /\ ~HasDeleted(t)
    BY <2>1, <2>4 DEF Taking, Arranging, Removing, HasDeleted
  <2> HIDE DEF room
  <2>6. TablesOK' /\ txns'[t].list[1] = room
    BY <2>4 DEF BoardInv, TablesOK, room
  <2>7. TakenIsKept'
    BY <2>3, <2>4, <2>5, <2>6 DEF BoardInv, TakenIsKept
  <2>8. ArrangedIsKept'
    BY <2>3, <2>4, <2>5, <2>6 DEF BoardInv, ArrangedIsKept
  <2>9. DeletedIsKept'
    BY <2>2, <2>3, <2>4, <2>5, <2>6 DEF BoardInv, DeletedIsKept
  <2> QED
    BY <2>4, <2>6, <2>7, <2>8, <2>9 DEF BoardInv
<1> QED
  BY <1>1, <1>2

LEMMA SendKeeps == ASSUME BoardInv, NEW t \in Txns, InsertSend(t) PROVE BoardInv'
<1> DEFINE txn == [txns[t] EXCEPT !.sent = TRUE]
<1>1. /\ txns[t].kind \in {"block", "booking"} /\ Taking(t) /\ ShapeOK(txns[t])
      /\ DOMAIN txns[t] = {"kind", "list", "at", "sent", "cleared"}
  BY DEF InsertSend, BoardInv, ShapesOfTxns, ShapeOK, Taking
<1>2. /\ DOMAIN txn = DOMAIN txns[t] /\ txn.kind = txns[t].kind /\ txn.list = txns[t].list
      /\ txn.at = txns[t].at /\ txn.sent = TRUE /\ txn.cleared = txns[t].cleared
  BY <1>1
<1>3. txns' = [txns EXCEPT ![t] = txn] /\ UNCHANGED <<order, stays>>
  BY DEF InsertSend
<1> HIDE DEF txn
<1>4. ShapeOK(txn)
  BY <1>1, <1>2 DEF ShapeOK
<1>5. "kind" \in DOMAIN txn /\ txn.kind \in Kinds /\ txn.kind \notin {"remove", "reorder"}
  BY <1>1, <1>2 DEF Kinds
<1>6. ShapesOfTxns' /\ ListsOK' /\ txns'[t] = txn /\ \A u \in Txns \ {t} : WroteNoMore(u)
  BY <1>3, <1>4, <1>5, OneMoves
<1>7. WroteNoMore(t)
  BY <1>1, <1>2, <1>6 DEF WroteNoMore, Taking, Arranging, HasDeleted, Removing, Wrote
<1> QED
  BY <1>3, <1>6, <1>7, NoMoreWritten

LEMMA CreationsKeep ==
    ASSUME BoardInv, NEW t \in Txns, CountRooms(t) \/ ReadLast(t) PROVE BoardInv'
<1>1. CASE CountRooms(t)
  BY <1>1, CreationKeeps DEF CountRooms
<1>2. CASE ReadLast(t)
  <2>1. DOMAIN txns[t] = {"kind", "place"} /\ txns[t].kind = "create"
    BY <1>2 DEF ReadLast, Creating, BoardInv, ShapesOfTxns, ShapeOK
  <2>2. [txns[t] EXCEPT !.place = NextPlace] = [kind |-> "create", place |-> NextPlace]
    BY <2>1
  <2>3. txns' = [txns EXCEPT ![t] = [kind |-> "create", place |-> NextPlace]]
    BY <1>2, <2>2 DEF ReadLast
  <2> QED
    BY <1>2, <2>3, PlacesAreNumbers, CreationKeeps DEF ReadLast
<1> QED
  BY <1>1, <1>2

\* A request that ends leaves the others as they were.
LEMMA OneEnds ==
    ASSUME BoardInv, NEW t \in Txns, txns' = [txns EXCEPT ![t] = Idle]
    PROVE  /\ ShapesOfTxns' /\ ListsOK' /\ ~Taking(t)' /\ ~Arranging(t)' /\ ~HasDeleted(t)'
           /\ \A u \in Txns \ {t} : /\ Wrote(u)' = Wrote(u) /\ Taking(u)' = Taking(u)
                                    /\ Arranging(u)' = Arranging(u) /\ HasDeleted(u)' = HasDeleted(u)
                                    /\ txns'[u] = txns[u]
<1>1. "kind" \in DOMAIN Idle /\ Idle.kind = "idle" /\ Idle.kind \in Kinds /\ ShapeOK(Idle)
  BY DEF Idle, Kinds, ShapeOK
<1>2. txns'[t] = Idle
  BY <1>1, OneMoves
<1> QED
  BY <1>1, <1>2, OneMoves DEF Taking, Arranging, Removing, HasDeleted

LEMMA TakingCommits ==
    ASSUME BoardInv, NEW t \in Txns, Taking(t), Commit(t)
    PROVE  BoardInv' /\ (Board!Next \/ UNCHANGED <<order, stays>>)
<1>1. \A r : HasStay(t, r) <=> r \in Wrote(t)
  BY DEF HasStay, Taking, Commit
<1>2. \A r : ~Deleted(t, r)
  BY DEF Deleted, Taking
<1>3. order' = order /\ stays' = [r \in Rooms |-> IF r \in Wrote(t) THEN txns[t].kind ELSE stays[r]]
  BY <1>1, <1>2 DEF Commit, Taking
<1>4. \A r \in Wrote(t) :
          /\ r \in DOMAIN order /\ r \in Rooms /\ stays[r] = "free"
          /\ \A u \in Txns \ {t} : Taking(u) => r \notin Wrote(u)
          /\ \A u \in Txns : HasDeleted(u) => txns[u].list[1] # r
  BY DEF BoardInv, TakenIsKept, TablesOK
<1>5. /\ ShapesOfTxns' /\ ListsOK' /\ ~Taking(t)' /\ ~Arranging(t)' /\ ~HasDeleted(t)'
      /\ \A u \in Txns \ {t} : /\ Wrote(u)' = Wrote(u) /\ Taking(u)' = Taking(u)
                               /\ Arranging(u)' = Arranging(u) /\ HasDeleted(u)' = HasDeleted(u)
                               /\ txns'[u] = txns[u]
  BY OneEnds DEF Commit
<1>6. BoardInv'
  <2>1. TablesOK'
    BY <1>3, <1>4 DEF BoardInv, TablesOK, Taking
  <2>2. TakenIsKept'
    BY <1>3, <1>4, <1>5 DEF BoardInv, TakenIsKept, TablesOK
  <2>3. ArrangedIsKept'
    BY <1>3, <1>5 DEF BoardInv, ArrangedIsKept
  <2>4. DeletedIsKept'
    BY <1>3, <1>4, <1>5 DEF BoardInv, DeletedIsKept, TablesOK
  <2> QED
    BY <1>5, <2>1, <2>2, <2>3, <2>4 DEF BoardInv
<1>7. CASE Wrote(t) = {}
  BY <1>3, <1>6, <1>7 DEF BoardInv, TablesOK
<1>8. CASE Wrote(t) # {}
  <2>1. Board!Take(Wrote(t), txns[t].kind)
    BY <1>3, <1>4, <1>8 DEF Board!Take
  <2>2. Wrote(t) \in SUBSET Rooms /\ txns[t].kind \in {"block", "booking"}
    BY <1>4 DEF Taking
  <2> QED
    BY <1>6, <2>1, <2>2 DEF Board!Next
<1> QED
  BY <1>7, <1>8

\* What a removal deletes is one room without a booking.
LEMMA RemovingCommits ==
    ASSUME BoardInv, NEW t \in Txns, Removing(t), Commit(t)
    PROVE  BoardInv' /\ Board!Next
<1> DEFINE room == txns[t].list[1]
<1>1. /\ HasDeleted(t) /\ Wrote(t) = {room} /\ \A r : Deleted(t, r) <=> r = room
      /\ room \in DOMAIN order /\ room \in Rooms /\ stays[room] # "booking"
  BY RemovalsHaveOneRoom DEF Commit, BoardInv, DeletedIsKept, TablesOK
<1>2. \A r : ~HasStay(t, r)
  BY DEF HasStay, Removing
<1>3. /\ order' = [r \in DOMAIN order \ {room} |-> order[r]]
      /\ stays' = [r \in Rooms |-> IF r = room THEN "free" ELSE stays[r]]
  BY <1>1, <1>2 DEF Commit, Removing
<1>4. \A u \in Txns \ {t} : /\ HasDeleted(u) => txns[u].list[1] # room
                            /\ Taking(u) \/ Arranging(u) => room \notin Wrote(u)
  BY <1>1 DEF BoardInv, TakenIsKept, ArrangedIsKept, DeletedIsKept
<1>5. /\ ShapesOfTxns' /\ ListsOK' /\ ~Taking(t)' /\ ~Arranging(t)' /\ ~HasDeleted(t)'
      /\ \A u \in Txns \ {t} : /\ Wrote(u)' = Wrote(u) /\ Taking(u)' = Taking(u)
                               /\ Arranging(u)' = Arranging(u) /\ HasDeleted(u)' = HasDeleted(u)
                               /\ txns'[u] = txns[u]
  BY OneEnds DEF Commit
<1> HIDE DEF room
<1>6. TablesOK'
  BY <1>1, <1>3 DEF BoardInv, TablesOK
<1>7. TakenIsKept'
  BY <1>1, <1>3, <1>4, <1>5 DEF BoardInv, TakenIsKept, TablesOK
<1>8. ArrangedIsKept'
  BY <1>3, <1>4, <1>5 DEF BoardInv, ArrangedIsKept
<1>9. DeletedIsKept'
  BY <1>1, <1>3, <1>4, <1>5 DEF BoardInv, DeletedIsKept, TablesOK
<1>10. Board!Remove(room)
  BY <1>1, <1>3 DEF Board!Remove, BoardInv, TablesOK
<1> QED
  BY <1>1, <1>5, <1>6, <1>7, <1>8, <1>9, <1>10 DEF BoardInv, Board!Next

LEMMA BoardCounts == ASSUME NEW S PROVE Board!Cardinality(S) = Cardinality(S)
BY DEF Board!Cardinality, Cardinality

\* A new order gives its rooms the places 0, 1, 2, ... and leaves the others theirs.
LEMMA ArrangingCommits ==
    ASSUME BoardInv, NEW t \in Txns, Arranging(t), Commit(t)
    PROVE  BoardInv' /\ Board!Next
<1> DEFINE list == txns[t].list
           n == Len(list)
           placeOf(r) == (CHOOSE i \in DOMAIN list : list[i] = r) - 1
<1>1. /\ n \in Nat /\ DOMAIN list = 1 .. n /\ list = [i \in 1 .. n |-> list[i]] /\ txns[t].at = n + 1
      /\ \A i, j \in 1 .. n : list[i] = list[j] => i = j
  <2>1. NamesEachOnce(txns[t]) /\ txns[t].at > n
    BY DEF BoardInv, ListsOK, Commit, Ended
  <2>2. n \in Nat /\ list = [i \in 1 .. n |-> list[i]] /\ txns[t].at \in 1 .. n + 1
    BY <2>1 DEF NamesEachOnce
  <2>3. DOMAIN list = 1 .. n
    BY <2>2
  <2>4. txns[t].at = n + 1
    BY <2>1, <2>2
  <2> QED
    BY <2>1, <2>2, <2>3, <2>4 DEF NamesEachOnce
<1>2. \A r : ~HasStay(t, r) /\ ~Deleted(t, r)
  BY DEF HasStay, Deleted, Arranging
<1>3. Wrote(t) = {list[i] : i \in 1 .. n}
  BY <1>1 DEF Wrote
<1>4. /\ order' = [r \in DOMAIN order |-> IF r \in Wrote(t) THEN placeOf(r) ELSE order[r]]
      /\ stays' = stays
  BY <1>2 DEF Commit, Arranging, BoardInv, TablesOK
<1>5. /\ ShapesOfTxns' /\ ListsOK' /\ ~Taking(t)' /\ ~Arranging(t)' /\ ~HasDeleted(t)'
      /\ \A u \in Txns \ {t} : /\ Wrote(u)' = Wrote(u) /\ Taking(u)' = Taking(u)
                               /\ Arranging(u)' = Arranging(u) /\ HasDeleted(u)' = HasDeleted(u)
                               /\ txns'[u] = txns[u]
  BY OneEnds DEF Commit
<1>6. \A r \in Wrote(t) : /\ r \in DOMAIN order /\ r \in Rooms
                          /\ placeOf(r) \in 0 .. n - 1 /\ list[placeOf(r) + 1] = r
  <2>1. \A r \in Wrote(t) : r \in DOMAIN order /\ r \in Rooms
    BY DEF BoardInv, ArrangedIsKept, TablesOK
  <2> HIDE DEF list, n
  <2>2. ASSUME NEW r \in Wrote(t) PROVE placeOf(r) \in 0 .. n - 1 /\ list[placeOf(r) + 1] = r
    <3>1. \E i \in DOMAIN list : list[i] = r
      BY <1>1, <1>3
    <3>2. placeOf(r) + 1 \in DOMAIN list /\ list[placeOf(r) + 1] = r
      BY <1>1, <3>1
    <3> QED
      BY <1>1, <3>2
  <2> QED
    BY <2>1, <2>2
<1> HIDE DEF placeOf
<1>7. BoardInv'
  <2>1. PICK m \in Nat : \A r \in DOMAIN order : order[r] \in 0 .. m
    BY DEF BoardInv, TablesOK
  <2>2. \A r \in DOMAIN order' : order'[r] \in 0 .. (m + n)
    BY <1>1, <1>4, <1>6, <2>1
  <2>3. m + n \in Nat
    BY <1>1
  <2>4. TablesOK'
    BY <1>4, <2>2, <2>3 DEF BoardInv, TablesOK
  <2>5. TakenIsKept' /\ ArrangedIsKept' /\ DeletedIsKept'
    BY <1>4, <1>5 DEF BoardInv, TakenIsKept, ArrangedIsKept, DeletedIsKept
  <2> QED
    BY <1>5, <2>4, <2>5 DEF BoardInv
<1>8. Restrict(order', Wrote(t)) \in Injection(Wrote(t), 0 .. n - 1)
  <2>1. \A r \in Wrote(t) : order'[r] = placeOf(r)
    BY <1>4, <1>6
  <2>2. \A a, b \in Wrote(t) : placeOf(a) = placeOf(b) => a = b
    BY <1>6
  <2> QED
    BY <1>6, <2>1, <2>2 DEF Restrict, Injection, IsInjective
<1>9. Cardinality(Wrote(t)) = n
  <2>1. list \in Bijection(1 .. n, Wrote(t))
    <3>1. list \in [1 .. n -> Wrote(t)]
      BY <1>1, <1>3
    <3> QED
      BY <1>1, <1>3, <3>1 DEF Bijection, Injection, Surjection, IsInjective
  <2> HIDE DEF n
  <2>2. IsFiniteSet(1 .. n) /\ Cardinality(1 .. n) = n
    BY <1>1, FS_Interval
  <2> QED
    BY <2>1, <2>2, FS_Bijection DEF ExistsBijection
<1>10. Board!Arrange(Wrote(t))
  BY <1>4, <1>6, <1>8, <1>9, BoardCounts
     DEF Board!Arrange, Board!Restrict, Restrict, Board!Injection, Injection, Board!IsInjective,
         IsInjective, BoardInv, TablesOK
<1> QED
  BY <1>6, <1>7, <1>10 DEF Board!Next

\* A new room takes the place that was last read, among rooms that are as they were.
LEMMA InsertingCreates ==
    ASSUME BoardInv, NEW t \in Txns, InsertRoom(t)
    PROVE  BoardInv' /\ Board!Next
<1> DEFINE room == CHOOSE id \in NewIds : TRUE
           place == txns[t].place
<1>1. room \in Rooms \ DOMAIN order
  BY DEF InsertRoom, NewIds
<1>2. place \in Nat
  <2>1. place \in Nat \cup {-1} /\ place >= 0
    BY DEF InsertRoom, Creating, BoardInv, ShapesOfTxns, ShapeOK
  <2> QED
    BY <2>1
<1>3. /\ order' = [x \in DOMAIN order \cup {room} |-> IF x = room THEN place ELSE order[x]]
      /\ txns' = [txns EXCEPT ![t] = Idle] /\ stays' = stays
  BY DEF InsertRoom
<1>4. /\ ShapesOfTxns' /\ ListsOK' /\ ~Taking(t)' /\ ~Arranging(t)' /\ ~HasDeleted(t)'
      /\ \A u \in Txns \ {t} : /\ Wrote(u)' = Wrote(u) /\ Taking(u)' = Taking(u)
                               /\ Arranging(u)' = Arranging(u) /\ HasDeleted(u)' = HasDeleted(u)
                               /\ txns'[u] = txns[u]
  BY <1>3, OneEnds
<1> HIDE DEF room, place
<1>5. TablesOK'
  <2>1. PICK m \in Nat : \A r \in DOMAIN order : order[r] \in 0 .. m
    BY DEF BoardInv, TablesOK
  <2>2. m + place \in Nat /\ \A r \in DOMAIN order' : order'[r] \in 0 .. (m + place)
    BY <1>2, <1>3, <2>1
  <2> QED
    BY <1>1, <1>3, <2>2 DEF BoardInv, TablesOK
<1>6. TakenIsKept' /\ ArrangedIsKept' /\ DeletedIsKept'
  BY <1>3, <1>4 DEF BoardInv, TakenIsKept, ArrangedIsKept, DeletedIsKept
<1>7. Board!Create(room)
  BY <1>1, <1>2, <1>3 DEF Board!Create, BoardInv, TablesOK
<1> QED
  BY <1>1, <1>4, <1>5, <1>6, <1>7 DEF BoardInv, Board!Next

\* The host takes one closure back; no request in flight has that room in hand, but for
\* a new order or a removal that found nothing to clear.
LEMMA ReopeningKeeps ==
    ASSUME BoardInv, NEW r \in Rooms, Reopen(r)
    PROVE  BoardInv' /\ Board!Next
<1>1. /\ stays[r] = "block" /\ stays' = [stays EXCEPT ![r] = "free"] /\ UNCHANGED <<order, txns>>
  BY DEF Reopen
<1>2. /\ \A u \in Txns : Wrote(u)' = Wrote(u) /\ Taking(u)' = Taking(u)
                         /\ Arranging(u)' = Arranging(u) /\ HasDeleted(u)' = HasDeleted(u)
      /\ ShapesOfTxns' /\ ListsOK'
  BY <1>1, SameRequestSameRows
     DEF BoardInv, ShapesOfTxns, ShapesOK, ListsOK, Removing, Arranging
<1>3. TablesOK'
  BY <1>1 DEF BoardInv, TablesOK
<1>4. TakenIsKept' /\ ArrangedIsKept' /\ DeletedIsKept'
  BY <1>1, <1>2 DEF BoardInv, TablesOK, TakenIsKept, ArrangedIsKept, DeletedIsKept
<1>5. Board!Reopen(r)
  BY <1>1 DEF Board!Reopen
<1> QED
  BY <1>2, <1>3, <1>4, <1>5 DEF BoardInv, Board!Next

\* Every step of a request is one step of the board, or none.
LEMMA EveryStepIsTheBoards ==
    BoardInv /\ [Next]_vars => BoardInv' /\ [Board!Next]_<<order, stays>>
<1> SUFFICES ASSUME BoardInv, [Next]_vars PROVE BoardInv' /\ [Board!Next]_<<order, stays>>
  OBVIOUS
<1>1. CASE UNCHANGED vars
  <2>1. \A u \in Txns : WroteNoMore(u)
    BY <1>1, SameRequestSameRows DEF vars
  <2>2. ShapesOfTxns' /\ ListsOK' /\ UNCHANGED <<order, stays>>
    BY <1>1 DEF vars, BoardInv, ShapesOfTxns, ShapesOK, ListsOK, Removing, Arranging
  <2> QED
    BY <2>1, <2>2, NoMoreWritten
<1>2. CASE \E r \in Rooms : Reopen(r)
  BY <1>2, ReopeningKeeps
<1>3. ASSUME NEW t \in Txns, Start(t) PROVE BoardInv' /\ UNCHANGED <<order, stays>>
  BY <1>3, BeginKeeps, CreationsKeep
     DEF Start, CloseBegin, BookBegin, ReorderBegin, RemoveBegin, Begin, CountRooms
<1>4. ASSUME NEW t \in Txns, DeadlockDetected(t) \/ ConnectionLost(t)
      PROVE  BoardInv' /\ UNCHANGED <<order, stays>>
  BY <1>4, RollbackKeeps DEF DeadlockDetected, ConnectionLost, Rollback
<1>5. ASSUME NEW t \in Txns, Step(t) PROVE BoardInv' /\ [Board!Next]_<<order, stays>>
  <2>1. CASE InsertSend(t)
    BY <2>1, SendKeeps DEF InsertSend
  <2>2. CASE InsertVerdict(t)
    BY <2>2, VerdictKeeps DEF InsertVerdict, NextStatement, Rollback
  <2>3. CASE RenumberRoom(t)
    BY <2>3, RenumberKeeps DEF RenumberRoom, NextStatement, Rollback
  <2>4. CASE ClearBlocks(t)
    BY <2>4, ClearKeeps DEF ClearBlocks, NextStatement
  <2>5. CASE DeleteRoom(t)
    BY <2>5, DeleteKeeps DEF DeleteRoom, NextStatement, Rollback
  <2>6. CASE Commit(t)
    <3>1. Taking(t) \/ Arranging(t) \/ Removing(t)
      BY <2>6, ActiveOnesHaveStatements DEF Commit, Statement
    <3> QED
      BY <2>6, <3>1, TakingCommits, ArrangingCommits, RemovingCommits
  <2>7. CASE ReadLast(t)
    BY <2>7, CreationsKeep DEF ReadLast
  <2>8. CASE InsertRoom(t)
    BY <2>8, InsertingCreates
  <2> QED
    BY <1>5, <2>1, <2>2, <2>3, <2>4, <2>5, <2>6, <2>7, <2>8 DEF Step
<1> QED
  BY <1>1, <1>2, <1>3, <1>4, <1>5 DEF Next

LEMMA TheBoardStarts == Init => Board!Init
<1> SUFFICES ASSUME Init PROVE Board!Init
  OBVIOUS
<1>1. PICK n \in 0 .. MAX_ROOMS_PER_PROPERTY :
        \E rs \in kSubset(n, Rooms) : order \in Injection(rs, 0 .. n - 1)
  BY DEF Init
<1>2. PICK rs \in kSubset(n, Rooms) : order \in Injection(rs, 0 .. n - 1)
  BY <1>1
<1>3. rs \in SUBSET Rooms /\ Cardinality(rs) = n
  BY <1>2 DEF kSubset
<1>4. order \in Board!Injection(rs, 0 .. (Board!Cardinality(rs) - 1))
  BY <1>2, <1>3, BoardCounts DEF Board!Injection, Injection, Board!IsInjective, IsInjective
<1> QED
  BY <1>3, <1>4 DEF Board!Init, Init

\* ImplementsRoomBoard (rooms.service.ts, availability.service.ts): statement by statement,
\* with every wait, deadlock and lost connection between, the tables change only as if each
\* request had happened whole at one moment.
THEOREM RequestsAreTheBoards == Spec => ImplementsRoomBoard
<1>1. Init => BoardInv
  BY BoardInit
<1>2. BoardInv /\ [Next]_vars => BoardInv'
  BY EveryStepIsTheBoards
<1>3. BoardInv /\ [Next]_vars => [Board!Next]_<<order, stays>>
  BY EveryStepIsTheBoards
<1>4. Init => Board!Init
  BY TheBoardStarts
<1> QED
  BY <1>1, <1>2, <1>3, <1>4, PTL DEF Spec, ImplementsRoomBoard, Board!Spec

=============================================================================
