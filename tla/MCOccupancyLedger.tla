------------------------- MODULE MCOccupancyLedger -------------------------
(* A small instance of OccupancyLedger for TLC.                            *)
EXTENDS OccupancyLedger, TLC

\* Every request wants the same night.
OneRange == {[checkIn |-> 0, checkOut |-> 1]}

NoBuyout == {FALSE}

Symmetry == Permutations(Rooms) \cup Permutations(Workers)
=============================================================================
