---------------------------- MODULE NightLedger ----------------------------
(***************************************************************************)
(* What the occupancy table promises, with no tables, handlers or races: a *)
(* ledger with one holder for every night of every room.  Nights are taken *)
(* all together or not at all, a booking gives back all its nights at      *)
(* once, and a closure gives its rooms back one by one.                    *)
(***************************************************************************)
CONSTANTS Rooms, Nights, Bookings, Blocks, Nobody

VARIABLE holder     \* who has each night of each room

Owners == Bookings \cup Blocks

Init == holder = [cell \in Rooms \X Nights |-> Nobody]

Held(owner) == {cell \in Rooms \X Nights : holder[cell] = owner}

Give(cells, owner) ==
    holder' = [cell \in Rooms \X Nights |->
                  IF cell \in cells THEN owner ELSE holder[cell]]

\* A booking or a closure takes free nights, the same ones in each room.
Take(owner) ==
    /\ Held(owner) = {}
    /\ \E picked \in (SUBSET Rooms) \ {{}}, wanted \in (SUBSET Nights) \ {{}} :
          /\ \A cell \in picked \X wanted : holder[cell] = Nobody
          /\ Give(picked \X wanted, owner)

\* Everything a booking holds comes back at once.
Release(b) == Give(Held(b), Nobody)

\* A closure gives back one of its rooms.
Reopen(k, room) == Give({cell \in Held(k) : cell[1] = room}, Nobody)

\* A room leaves the house, with its closures; never while a booking is in it.
Remove(room) ==
    /\ \A night \in Nights : holder[<<room, night>>] \notin Bookings
    /\ Give({room} \X Nights, Nobody)

Next ==
    \/ \E owner \in Owners : Take(owner)
    \/ \E b \in Bookings : Release(b)
    \/ \E k \in Blocks, room \in Rooms : Reopen(k, room)
    \/ \E room \in Rooms : Remove(room)

Spec == Init /\ [][Next]_holder
=============================================================================
