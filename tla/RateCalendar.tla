---------------------------- MODULE RateCalendar ----------------------------
(***************************************************************************)
(* What the rate_overrides table promises: "rate resolution is a total     *)
(* function".  A room's night belongs to one season or to none, a season   *)
(* takes a run of nights in some rooms at once, only where no season is,   *)
(* and gives a room's nights back together.                                *)
(***************************************************************************)
EXTENDS Integers

CONSTANTS Rooms, Nights, Seasons

VARIABLE cells          \* the <<room, night, season>> that are set

Free(r, n) == ~\E s \in Seasons : <<r, n, s>> \in cells

Init == cells = {}

Set(s, rs, first, last) ==
    /\ \A cell \in cells : cell[3] # s
    /\ \A r \in rs, n \in first .. last : Free(r, n)
    /\ cells' = cells \cup (rs \X (first .. last) \X {s})

\* A season is removed one room at a time; a room that is deleted takes all
\* its seasons with it.
Remove(s, r) == cells' = {cell \in cells : ~(cell[1] = r /\ cell[3] = s)}
Drop(r)      == cells' = {cell \in cells : cell[1] # r}

Next == \/ \E r \in Rooms : Drop(r) \/ \E s \in Seasons : Remove(s, r)
        \/ \E s \in Seasons, rs \in SUBSET Rooms, first, last \in Nights :
               Set(s, rs, first, last)

Spec == Init /\ [][Next]_cells
=============================================================================
