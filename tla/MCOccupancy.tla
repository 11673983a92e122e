---------------------------- MODULE MCOccupancy ----------------------------
(* Small instances of Occupancy for TLC.                                   *)
EXTENDS Occupancy, TLC

\* Two stays that meet in the morning of day 1.
TwoNights == {[checkIn |-> 0, checkOut |-> 1], [checkIn |-> 1, checkOut |-> 2]}

\* Two stays that share one night.
Overlapping == {[checkIn |-> 0, checkOut |-> 2], [checkIn |-> 1, checkOut |-> 3]}

NoBuyout == {FALSE}

Symmetry ==
    Permutations(Rooms) \cup Permutations(BookingIds) \cup
    Permutations(BlockIds) \cup Permutations(Workers) \cup Permutations(Sweepers)
=============================================================================
