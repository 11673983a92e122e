------------------------------- MODULE Quote -------------------------------
(***************************************************************************)
(* quote() of the domain package: what a stay costs, room-night by         *)
(* room-night.  The API runs it to write a booking's price and the browser *)
(* runs it to show one, so both call sites are elsewhere (PricedStay).     *)
(*                                                                         *)
(* Money is a whole number of paise and a night is a number.  A list of    *)
(* line items is a set: a room has one line per night.                     *)
(***************************************************************************)
EXTENDS Integers, Sequences, FiniteSetsExt

CONSTANT WeekendNights      \* the Friday and Saturday nights

ASSUME WeekendAssumption == WeekendNights \subseteq Nat

Null == -1                  \* a column that is NULL; no amount is negative

MealPlans == {"ROOM_ONLY", "BREAKFAST", "BREAKFAST_DINNER", "ALL_MEALS"}

\* Lowest slab first; the last one has no ceiling.
GstSlabs == <<[maxTariff |-> 100000, basisPoints |-> 0],
              [maxTariff |-> 750000, basisPoints |-> 500],
              [maxTariff |-> Null,   basisPoints |-> 1800]>>

GstBasisPointsBelow(tariff) ==      \* mutant: ceilings are exclusive
    LET reached == {i \in DOMAIN GstSlabs : \/ GstSlabs[i].maxTariff = Null
                                            \/ tariff < GstSlabs[i].maxTariff}
    IN  GstSlabs[Min(reached)].basisPoints

\* The first slab whose ceiling, inclusive, the tariff does not pass.
GstBasisPointsFor(tariff) ==
    LET reached == {i \in DOMAIN GstSlabs : \/ GstSlabs[i].maxTariff = Null
                                            \/ tariff <= GstSlabs[i].maxTariff}
    IN  GstSlabs[Min(reached)].basisPoints

\* Math.round of a product in basis points.
BasisPointsOf(tariff, basisPoints) == (tariff * basisPoints + 5000) \div 10000

NightsBetween(checkIn, checkOut) == checkIn .. (checkOut - 1)

Covers(override, night) == night \in override.startDate .. override.endDate

OverridesCovering(overrides, night) == {o \in overrides : Covers(o, night)}

RateSourceWeekendFirst(rates, overrides, night) ==   \* mutant: order swapped
    IF rates.weekendRate # Null /\ night \in WeekendNights THEN "weekend"
    ELSE IF OverridesCovering(overrides, night) # {} THEN "override"
    ELSE IF rates.baseRate # Null THEN "base" ELSE "none"

\* A season beats the weekend rate beats the base rate.
RateSource(rates, overrides, night) ==
    IF OverridesCovering(overrides, night) # {} THEN "override"
    ELSE IF rates.weekendRate # Null /\ night \in WeekendNights THEN "weekend"
    ELSE IF rates.baseRate # Null THEN "base" ELSE "none"

ResolvedRate(rates, overrides, night) ==
    CASE RateSource(rates, overrides, night) = "override" ->
             (CHOOSE o \in OverridesCovering(overrides, night) : TRUE).nightlyRate
      [] RateSource(rates, overrides, night) = "weekend" -> rates.weekendRate
      [] OTHER -> rates.baseRate

\* The longest minimum stay of the overrides that touch the nights; 1 when
\* none does, which no stay falls short of.
MinStayFor(overrides, nights) ==
    Max({1} \cup {o.minStayNights : o \in {o \in overrides :
             o.minStayNights # Null /\ \E night \in nights : Covers(o, night)}})

\* input: checkIn, checkOut, guests (a function from the rooms asked for to
\* their heads), rates (a function from room ids), overrides, mealPlan,
\* mealCharge and gstEnabled.
RatesOf(input, room) == {o \in input.overrides : o.room = room}

NightLine(input, room, night) ==
    LET rates  == input.rates[room]
        rate   == ResolvedRate(rates, RatesOf(input, room), night)
        extra  == Max({0, input.guests[room] - rates.standardOccupancy})
                      * rates.extraGuestCharge
        meal   == IF input.mealPlan = "ROOM_ONLY" THEN 0
                  ELSE input.mealCharge * input.guests[room]
        tariff == rate + extra + meal
        points == IF input.gstEnabled THEN GstBasisPointsFor(tariff) ELSE 0
    IN  [room |-> room, date |-> night, roomCharge |-> rate,
         extraGuestCharge |-> extra, mealCharge |-> meal, tariff |-> tariff,
         gstBasisPoints |-> points, taxAmount |-> BasisPointsOf(tariff, points)]

Known(input) == DOMAIN input.guests \cap DOMAIN input.rates

StayOf(input) == NightsBetween(input.checkIn, input.checkOut)

\* A room without a rate for some night has no lines at all: it is left out of
\* the totals, and named.
Unpriced(input) ==
    (DOMAIN input.guests \ Known(input)) \cup
    {room \in Known(input) : \E night \in StayOf(input) :
        RateSource(input.rates[room], RatesOf(input, room), night) = "none"}

Lines(input) == {NightLine(input, room, night) :
                    room \in DOMAIN input.guests \ Unpriced(input), night \in StayOf(input)}

ShortOfMinStay(input) == {room \in Known(input) :
    Cardinality(StayOf(input)) < MinStayFor(RatesOf(input, room), StayOf(input))}

Total(lines, part) == SumFunction([line \in lines |-> line[part]])

QuoteOf(input) ==
    LET lines      == Lines(input)
        roomTotal  == Total(lines, "roomCharge")
        extraTotal == Total(lines, "extraGuestCharge")
        mealTotal  == Total(lines, "mealCharge")
        taxTotal   == Total(lines, "taxAmount")
    IN  [lines |-> lines, roomTotal |-> roomTotal, extraGuestTotal |-> extraTotal,
         mealTotal |-> mealTotal, taxTotal |-> taxTotal,
         subtotal |-> roomTotal + extraTotal + mealTotal,
         total |-> roomTotal + extraTotal + mealTotal + taxTotal,
         unpricedRooms |-> Unpriced(input), shortOfMinStay |-> ShortOfMinStay(input)]
=============================================================================
