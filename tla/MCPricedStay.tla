---------------------------- MODULE MCPricedStay ----------------------------
(* A small instance of PricedStay for TLC: amounts at the edges of the tax *)
(* slabs, seasons that share a night, a column two dear nights overflow.   *)
EXTENDS PricedStay, TLC

CONSTANTS r1, r2

RoomRow(base, weekend, active) ==
    [isActive |-> active, standardOccupancy |-> 2, maxOccupancy |-> 3,
     baseRate |-> base, weekendRate |-> weekend, extraGuestCharge |-> 1]

OneRoomEdited == (r1 :> {RoomRow(99999, 500000, TRUE), RoomRow(Null, 500000, TRUE)})
                 @@ (r2 :> {RoomRow(99999, Null, TRUE)})

\* Three guests: a plain night comes to 100000 exactly, or to 100030 with meals.
TwoPropertyForms ==
    {[mealPlan |-> "none", mealCharge |-> 10, gstEnabled |-> TRUE],
     [mealPlan |-> "BREAKFAST", mealCharge |-> 10, gstEnabled |-> TRUE]}

\* A season of two nights at the edge of the second slab, and one of its nights
\* under a minimum stay that no stay here meets.
TwoSeasonForms ==
    {[startDate |-> 0, endDate |-> 1, nightlyRate |-> 749999, minStayNights |-> 2],
     [startDate |-> 1, endDate |-> 1, nightlyRate |-> 50000, minStayNights |-> 3]}

OneStay == {[guests |-> (r1 :> 3), checkIn |-> 0, checkOut |-> 2, overrideTotal |-> 1000000]}

Symmetry == Permutations(Workers) \cup Permutations(SeasonIds)
=============================================================================
