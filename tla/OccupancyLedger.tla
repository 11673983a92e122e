-------------------------- MODULE OccupancyLedger --------------------------
(***************************************************************************)
(* Occupancy implements NightLedger: a night's holder is the owner of the  *)
(* stay that holds it.                                                     *)
(***************************************************************************)
EXTENDS Occupancy

CONSTANT Nobody

ASSUME NobodyAssumption == Nobody \notin BookingIds \cup BlockIds

HoldersIn(table, cell) ==
    {s \in table : s.room = cell[1] /\ Holds(s, cell[2])}

HolderIn(table, cell) ==
    IF HoldersIn(table, cell) = {} THEN Nobody
    ELSE (CHOOSE s \in HoldersIn(table, cell) : TRUE).owner

Holder == [cell \in Rooms \X Nights |-> HolderIn(stays, cell)]

Ledger == INSTANCE NightLedger
    WITH Bookings <- BookingIds, Blocks <- BlockIds, holder <- Holder

\* Every step of the handlers, the sweep and the rooms service is one of the
\* ledger's or leaves it as it is: a write never takes some of its nights, or
\* nights someone holds, and a night never changes hands without coming back.
ImplementsNightLedger == Ledger!Spec
=============================================================================
