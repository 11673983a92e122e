----------------------------- MODULE RoomBoard -----------------------------
(***************************************************************************)
(* What a host may rely on when several requests write one property's      *)
(* rooms at once: each happens whole, at one moment, or not at all.        *)
(***************************************************************************)
EXTENDS Integers, Functions, FiniteSets

CONSTANTS Rooms

VARIABLES order,    \* the rooms there are, each with its sort order
          stays     \* [Rooms -> what holds the room: a block, a booking or nothing]

Init == /\ \E rs \in SUBSET Rooms : order \in Injection(rs, 0 .. (Cardinality(rs) - 1))
        /\ stays = [r \in Rooms |-> "free"]

\* A closure or a booking: every room it names was there and free.
Take(rs, kind) ==
    /\ rs # {} /\ rs \subseteq DOMAIN order
    /\ \A r \in rs : stays[r] = "free"
    /\ stays' = [r \in Rooms |-> IF r \in rs THEN kind ELSE stays[r]]
    /\ order' = order

Reopen(r) == /\ stays[r] = "block"
             /\ stays' = [stays EXCEPT ![r] = "free"] /\ order' = order

\* A room is added at the end of the order, as some moment knew it.
Create(r) == /\ r \notin DOMAIN order /\ stays[r] = "free"
             /\ DOMAIN order' = DOMAIN order \cup {r}
             /\ order'[r] \in Nat /\ \A x \in DOMAIN order : order'[x] = order[x]
             /\ stays' = stays

\* A new order of the rooms there were at some moment, no two in one place.  The
\* rooms added since keep theirs.
Arrange(rs) ==
    /\ rs \subseteq DOMAIN order
    /\ DOMAIN order' = DOMAIN order
    /\ Restrict(order', rs) \in Injection(rs, 0 .. (Cardinality(rs) - 1))
    /\ \A r \in DOMAIN order \ rs : order'[r] = order[r]
    /\ stays' = stays

\* A room goes with its blocks, never with a booking.
Remove(r) ==
    /\ r \in DOMAIN order /\ stays[r] # "booking"
    /\ order' = [o \in DOMAIN order \ {r} |-> order[o]]
    /\ stays' = [stays EXCEPT ![r] = "free"]

Next == \/ \E rs \in SUBSET Rooms : Arrange(rs)
        \/ \E r \in Rooms : Create(r) \/ Reopen(r) \/ Remove(r)
        \/ \E rs \in SUBSET Rooms, kind \in {"block", "booking"} : Take(rs, kind)

Spec == Init /\ [][Next]_<<order, stays>>
=============================================================================
