--------------------------- MODULE HostAppProofs ---------------------------
(***************************************************************************)
(* What the host's device asks of the API, for every number of screens,    *)
(* presses and photos.  A press sends its button's requests in order, each *)
(* reaches the handler it is named for, the answers on one list come in    *)
(* the order of the changes while the host stays on it, and a change that  *)
(* was confirmed reaches every screen that depends on it.                  *)
(***************************************************************************)
EXTENDS HostApp, TLAPS

-----------------------------------------------------------------------------
(* Routes.                                                                 *)

\* The segments of the paths that the client asks for and the controllers declare.
Segments == {"properties", "p", Param, "submit", "rooms", "order", "r", "pricing", "overrides", "o",
             "media", "uploads", "m", "complete", "cover", "bookings", "b", "status", "note",
             "availability", "free-rooms", "blocks", "s"}
Paths    == Seq(Segments)
Methods  == {"GET", "POST", "PATCH", "DELETE"}
Handlers == {"propertiesList", "propertiesCreate", "propertiesFindOne", "propertiesUpdate",
             "propertiesSubmitForReview", "mediaList", "mediaCreateUpload", "mediaCompleteUpload",
             "mediaReorder", "mediaSetCover", "mediaRemove", "roomsList", "roomsCreate",
             "roomsReorder", "roomsUpdate", "roomsRemove", "pricingFind", "pricingCreateOverride",
             "pricingRemoveOverride", "availabilityFind", "availabilityFreeRooms",
             "availabilityCreateBlocks", "availabilityRemoveBlock", "bookingsList", "bookingsFind",
             "bookingsCreate", "bookingsChangeStatus", "bookingsUpdateNote"}
RouteRows == {Route(method, path, handler) :
                  method \in Methods, path \in Paths, handler \in Handlers}

\* A concatenation holds the one and then the other.
LEMMA Joined ==
    ASSUME NEW S, NEW s \in Seq(S), NEW t \in Seq(S)
    PROVE  /\ s \o t \in Seq(S) /\ Len(s \o t) = Len(s) + Len(t)
           /\ \A i \in 1 .. Len(s) : (s \o t)[i] = s[i]
           /\ \A i \in 1 .. Len(t) : (s \o t)[Len(s) + i] = t[i]
  OBVIOUS

LEMMA JoinedPaths ==
    ASSUME NEW s \in Paths, NEW t \in Paths
    PROVE  /\ s \o t \in Paths /\ Len(s \o t) = Len(s) + Len(t)
           /\ \A i \in 1 .. Len(s) : (s \o t)[i] = s[i]
           /\ \A i \in 1 .. Len(t) : (s \o t)[Len(s) + i] = t[i]
  BY Joined DEF Paths

\* A path below a property: two segments, and what follows them.
LEMMA Following ==
    ASSUME NEW first \in Segments, NEW second \in Segments, NEW segments \in Paths
    PROVE  /\ <<first, second>> \o segments \in Paths
           /\ Len(<<first, second>> \o segments) = 2 + Len(segments)
           /\ (<<first, second>> \o segments)[1] = first
           /\ (<<first, second>> \o segments)[2] = second
           /\ \A i \in 1 .. Len(segments) : (<<first, second>> \o segments)[2 + i] = segments[i]
<1> DEFINE base == <<first, second>>
<1>1. base \in Paths /\ Len(base) = 2 /\ base[1] = first /\ base[2] = second
  BY DEF Paths
<1> HIDE DEF base
<1>2. /\ base \o segments \in Paths /\ Len(base \o segments) = Len(base) + Len(segments)
      /\ \A i \in 1 .. Len(base) : (base \o segments)[i] = base[i]
      /\ \A i \in 1 .. Len(segments) : (base \o segments)[Len(base) + i] = segments[i]
  BY <1>1, JoinedPaths
<1>3. /\ base \o segments \in Paths
      /\ Len(base \o segments) = 2 + Len(segments)
      /\ (base \o segments)[1] = first /\ (base \o segments)[2] = second
      /\ \A i \in 1 .. Len(segments) : (base \o segments)[2 + i] = segments[i]
  BY <1>1, <1>2
<1> QED
  BY <1>3 DEF base

\* Under a property, a route takes a request by what follows the property.
Matches(segments, asked) ==
    /\ Len(segments) = Len(asked)
    /\ \A i \in 1 .. Len(segments) : segments[i] \in {Param, asked[i]}

\* Whether a controller scoped to a property takes a request depends on what follows the property.
LEMMA ScopedTakes ==
    ASSUME NEW name, NEW handler, NEW method, NEW verb, NEW segments \in Paths, NEW asked \in Paths
    PROVE  Takes(Route(method, Scoped(segments), handler), Ask(name, verb, Under(asked)))
               <=> method = verb /\ Matches(segments, asked)
<1> DEFINE route   == Route(method, Scoped(segments), handler)
           request == Ask(name, verb, Under(asked))
<1>1. route.method = method /\ route.path = Scoped(segments)
      /\ request.method = verb /\ request.path = Under(asked)
  BY DEF Route, Ask
<1> HIDE DEF route, request
<1>2. "properties" \in Segments /\ "p" \in Segments /\ Param \in Segments
  BY DEF Segments
<1>4. /\ Scoped(segments) \in Paths /\ Len(Scoped(segments)) = 2 + Len(segments)
      /\ Scoped(segments)[1] = "properties" /\ Scoped(segments)[2] = Param
      /\ \A i \in 1 .. Len(segments) : Scoped(segments)[2 + i] = segments[i]
  BY <1>2, Following DEF Scoped
<1>5. /\ Under(asked) \in Paths /\ Len(Under(asked)) = 2 + Len(asked)
      /\ Under(asked)[1] = "properties"
      /\ \A i \in 1 .. Len(asked) : Under(asked)[2 + i] = asked[i]
  BY <1>2, Following DEF Under, PropertyPath
<1>6. DOMAIN Scoped(segments) = 1 .. (2 + Len(segments)) /\ Len(segments) \in Nat
      /\ Len(asked) \in Nat
  BY <1>4 DEF Paths
<1>7. Takes(route, request) <=>
          /\ method = verb /\ 2 + Len(segments) = 2 + Len(asked)
          /\ \A i \in 1 .. (2 + Len(segments)) : Scoped(segments)[i] \in {Param, Under(asked)[i]}
  BY <1>1, <1>4, <1>5, <1>6 DEF Takes
<1>8. ASSUME Len(segments) = Len(asked)
      PROVE  (\A i \in 1 .. (2 + Len(segments)) : Scoped(segments)[i] \in {Param, Under(asked)[i]})
                 <=> \A i \in 1 .. Len(segments) : segments[i] \in {Param, asked[i]}
  <2>1. ASSUME \A i \in 1 .. (2 + Len(segments)) : Scoped(segments)[i] \in {Param, Under(asked)[i]},
               NEW i \in 1 .. Len(segments)
        PROVE  segments[i] \in {Param, asked[i]}
    <3>1. 2 + i \in 1 .. (2 + Len(segments))
      BY <1>6
    <3> QED
      BY <1>4, <1>5, <1>8, <2>1, <3>1
  <2>2. ASSUME \A i \in 1 .. Len(segments) : segments[i] \in {Param, asked[i]},
               NEW i \in 1 .. (2 + Len(segments))
        PROVE  Scoped(segments)[i] \in {Param, Under(asked)[i]}
    <3>1. CASE i \in {1, 2}
      BY <1>4, <1>5, <3>1
    <3>2. CASE i \notin {1, 2}
      <4>1. PICK j \in 1 .. Len(segments) : i = 2 + j
        <5>1. i - 2 \in 1 .. Len(segments) /\ i = 2 + (i - 2)
          BY <1>6, <3>2
        <5> QED
          BY <5>1
      <4>2. Scoped(segments)[2 + j] = segments[j] /\ Under(asked)[2 + j] = asked[j]
        BY <1>4, <1>5, <1>8
      <4> QED
        BY <2>2, <4>1, <4>2
    <3> QED
      BY <3>1, <3>2
  <2> QED
    BY <2>1, <2>2
<1> QED
  BY <1>6, <1>7, <1>8 DEF Matches, route, request

\* Up to three segments follow a property.
LEMMA Matching ==
    ASSUME NEW asked \in Paths, NEW a, NEW b, NEW c
    PROVE  /\ Matches(<<>>, asked) <=> Len(asked) = 0
           /\ Matches(<<a>>, asked) <=> Len(asked) = 1 /\ a \in {Param, asked[1]}
           /\ Matches(<<a, b>>, asked) <=>
                  Len(asked) = 2 /\ a \in {Param, asked[1]} /\ b \in {Param, asked[2]}
           /\ Matches(<<a, b, c>>, asked) <=>
                  /\ Len(asked) = 3 /\ a \in {Param, asked[1]} /\ b \in {Param, asked[2]}
                  /\ c \in {Param, asked[3]}
  BY DEF Matches

\* Each controller is a table of routes of that many rows.
LEMMA Controllers ==
    /\ PropertiesController \in Seq(RouteRows) /\ Len(PropertiesController) = 5
    /\ MediaController \in Seq(RouteRows) /\ Len(MediaController) = 6
    /\ RoomsController \in Seq(RouteRows) /\ Len(RoomsController) = 5
    /\ PricingController \in Seq(RouteRows) /\ Len(PricingController) = 3
    /\ AvailabilityController \in Seq(RouteRows) /\ Len(AvailabilityController) = 4
    /\ BookingsController \in Seq(RouteRows) /\ Len(BookingsController) = 5
<1>1. /\ <<>> \in Paths
      /\ \A a \in Segments : <<a>> \in Paths
      /\ \A a, b \in Segments : <<a, b>> \in Paths
      /\ \A a, b, c \in Segments : <<a, b, c>> \in Paths
  BY DEF Paths
<1>2. ASSUME NEW segments \in Paths
      PROVE  Scoped(segments) \in Paths
  <2>1. "properties" \in Segments /\ Param \in Segments
    BY DEF Segments
  <2> QED
    BY <2>1, Following DEF Scoped
<1>3. /\ \A method \in Methods, handler \in Handlers, path \in Paths :
             Route(method, path, handler) \in RouteRows
      /\ \A method \in Methods, handler \in Handlers, segments \in Paths :
             Route(method, Scoped(segments), handler) \in RouteRows
  BY <1>2 DEF RouteRows
<1> HIDE DEF Paths
<1>4. PropertiesController \in Seq(RouteRows) /\ Len(PropertiesController) = 5
  <2>1. /\ {Param, "submit", "properties"} \subseteq Segments
        /\ {"GET", "PATCH", "POST"} \subseteq Methods
        /\ {"propertiesList", "propertiesCreate", "propertiesFindOne", "propertiesUpdate",
            "propertiesSubmitForReview"} \subseteq Handlers
    BY DEF Segments, Methods, Handlers
  <2>2. <<"properties">> \in Paths /\ <<"submit">> \in Paths /\ <<>> \in Paths
    BY <1>1, <2>1
  <2>3. /\ Route("GET", <<"properties">>, "propertiesList") \in RouteRows
        /\ Route("POST", <<"properties">>, "propertiesCreate") \in RouteRows
        /\ Route("GET", Scoped(<<>>), "propertiesFindOne") \in RouteRows
        /\ Route("PATCH", Scoped(<<>>), "propertiesUpdate") \in RouteRows
        /\ Route("POST", Scoped(<<"submit">>), "propertiesSubmitForReview") \in RouteRows
    BY <1>3, <2>1, <2>2
  <2> QED
    BY <2>3 DEF PropertiesController
<1>5. MediaController \in Seq(RouteRows) /\ Len(MediaController) = 6
  <2>1. /\ {Param, "complete", "cover", "media", "order", "uploads"} \subseteq Segments
        /\ {"DELETE", "GET", "PATCH", "POST"} \subseteq Methods
        /\ {"mediaList", "mediaCreateUpload", "mediaCompleteUpload", "mediaReorder",
            "mediaSetCover", "mediaRemove"} \subseteq Handlers
    BY DEF Segments, Methods, Handlers
  <2>2. /\ <<"media", "order">> \in Paths
        /\ <<"media", "uploads">> \in Paths
        /\ <<"media", Param, "complete">> \in Paths
        /\ <<"media", Param, "cover">> \in Paths
        /\ <<"media", Param>> \in Paths
        /\ <<"media">> \in Paths
    BY <1>1, <2>1
  <2>3. /\ Route("GET", Scoped(<<"media">>), "mediaList") \in RouteRows
        /\ Route("POST", Scoped(<<"media", "uploads">>), "mediaCreateUpload") \in RouteRows
        /\ Route("POST", Scoped(<<"media", Param, "complete">>), "mediaCompleteUpload")
               \in RouteRows
        /\ Route("PATCH", Scoped(<<"media", "order">>), "mediaReorder") \in RouteRows
        /\ Route("POST", Scoped(<<"media", Param, "cover">>), "mediaSetCover") \in RouteRows
        /\ Route("DELETE", Scoped(<<"media", Param>>), "mediaRemove") \in RouteRows
    BY <1>3, <2>1, <2>2
  <2> QED
    BY <2>3 DEF MediaController
<1>6. RoomsController \in Seq(RouteRows) /\ Len(RoomsController) = 5
  <2>1. /\ {Param, "order", "rooms"} \subseteq Segments
        /\ {"DELETE", "GET", "PATCH", "POST"} \subseteq Methods
        /\ {"roomsList", "roomsCreate", "roomsReorder", "roomsUpdate",
            "roomsRemove"} \subseteq Handlers
    BY DEF Segments, Methods, Handlers
  <2>2. <<"rooms", "order">> \in Paths /\ <<"rooms", Param>> \in Paths /\ <<"rooms">> \in Paths
    BY <1>1, <2>1
  <2>3. /\ Route("GET", Scoped(<<"rooms">>), "roomsList") \in RouteRows
        /\ Route("POST", Scoped(<<"rooms">>), "roomsCreate") \in RouteRows
        /\ Route("PATCH", Scoped(<<"rooms", "order">>), "roomsReorder") \in RouteRows
        /\ Route("PATCH", Scoped(<<"rooms", Param>>), "roomsUpdate") \in RouteRows
        /\ Route("DELETE", Scoped(<<"rooms", Param>>), "roomsRemove") \in RouteRows
    BY <1>3, <2>1, <2>2
  <2> QED
    BY <2>3 DEF RoomsController
<1>7. PricingController \in Seq(RouteRows) /\ Len(PricingController) = 3
  <2>1. /\ {Param, "overrides", "pricing"} \subseteq Segments
        /\ {"DELETE", "GET", "POST"} \subseteq Methods
        /\ {"pricingFind", "pricingCreateOverride", "pricingRemoveOverride"} \subseteq Handlers
    BY DEF Segments, Methods, Handlers
  <2>2. /\ <<"pricing", "overrides", Param>> \in Paths
        /\ <<"pricing", "overrides">> \in Paths
        /\ <<"pricing">> \in Paths
    BY <1>1, <2>1
  <2>3. /\ Route("GET", Scoped(<<"pricing">>), "pricingFind") \in RouteRows
        /\ Route("POST", Scoped(<<"pricing", "overrides">>), "pricingCreateOverride") \in RouteRows
        /\ Route("DELETE", Scoped(<<"pricing", "overrides", Param>>), "pricingRemoveOverride")
               \in RouteRows
    BY <1>3, <2>1, <2>2
  <2> QED
    BY <2>3 DEF PricingController
<1>8. AvailabilityController \in Seq(RouteRows) /\ Len(AvailabilityController) = 4
  <2>1. /\ {Param, "availability", "blocks", "free-rooms"} \subseteq Segments
        /\ {"DELETE", "GET", "POST"} \subseteq Methods
        /\ {"availabilityFind", "availabilityFreeRooms", "availabilityCreateBlocks",
            "availabilityRemoveBlock"} \subseteq Handlers
    BY DEF Segments, Methods, Handlers
  <2>2. /\ <<"availability", "blocks", Param>> \in Paths
        /\ <<"availability", "blocks">> \in Paths
        /\ <<"availability", "free-rooms">> \in Paths
        /\ <<"availability">> \in Paths
    BY <1>1, <2>1
  <2>3. /\ Route("GET", Scoped(<<"availability">>), "availabilityFind") \in RouteRows
        /\ Route("GET", Scoped(<<"availability", "free-rooms">>), "availabilityFreeRooms")
               \in RouteRows
        /\ Route("POST", Scoped(<<"availability", "blocks">>), "availabilityCreateBlocks")
               \in RouteRows
        /\ Route("DELETE", Scoped(<<"availability", "blocks", Param>>), "availabilityRemoveBlock")
               \in RouteRows
    BY <1>3, <2>1, <2>2
  <2> QED
    BY <2>3 DEF AvailabilityController
<1>9. BookingsController \in Seq(RouteRows) /\ Len(BookingsController) = 5
  <2>1. /\ {Param, "bookings", "note", "status"} \subseteq Segments
        /\ {"GET", "PATCH", "POST"} \subseteq Methods
        /\ {"bookingsList", "bookingsFind", "bookingsCreate", "bookingsChangeStatus",
            "bookingsUpdateNote"} \subseteq Handlers
    BY DEF Segments, Methods, Handlers
  <2>2. /\ <<"bookings", Param, "note">> \in Paths
        /\ <<"bookings", Param, "status">> \in Paths
        /\ <<"bookings", Param>> \in Paths
        /\ <<"bookings">> \in Paths
    BY <1>1, <2>1
  <2>3. /\ Route("GET", Scoped(<<"bookings">>), "bookingsList") \in RouteRows
        /\ Route("GET", Scoped(<<"bookings", Param>>), "bookingsFind") \in RouteRows
        /\ Route("POST", Scoped(<<"bookings">>), "bookingsCreate") \in RouteRows
        /\ Route("PATCH", Scoped(<<"bookings", Param, "status">>), "bookingsChangeStatus")
               \in RouteRows
        /\ Route("PATCH", Scoped(<<"bookings", Param, "note">>), "bookingsUpdateNote") \in RouteRows
    BY <1>3, <2>1, <2>2
  <2> QED
    BY <2>3 DEF BookingsController
<1> QED
  BY <1>4, <1>5, <1>6, <1>7, <1>8, <1>9

\* The routes of part are those of whole after the first from.
Holds(whole, part, from) ==
    /\ whole \in Seq(RouteRows) /\ part \in Seq(RouteRows)
    /\ from \in Nat /\ from + Len(part) <= Len(whole)
    /\ \A i \in 1 .. Len(part) : whole[from + i] = part[i]

\* A concatenation of two tables holds both.
LEMMA HoldsBoth ==
    ASSUME NEW s \in Seq(RouteRows), NEW t \in Seq(RouteRows)
    PROVE  /\ Holds(s \o t, s, 0) /\ Holds(s \o t, t, Len(s))
           /\ s \o t \in Seq(RouteRows) /\ Len(s \o t) = Len(s) + Len(t)
<1> DEFINE whole == s \o t
<1>1. /\ whole \in Seq(RouteRows) /\ Len(whole) = Len(s) + Len(t)
      /\ \A i \in 1 .. Len(s) : whole[i] = s[i]
      /\ \A i \in 1 .. Len(t) : whole[Len(s) + i] = t[i]
  BY Joined
<1> HIDE DEF whole
<1>2. Len(s) \in Nat /\ Len(t) \in Nat
  OBVIOUS
<1>3. \A i \in 1 .. Len(s) : whole[0 + i] = s[i]
  BY <1>1
<1>4. Holds(whole, s, 0)
  BY <1>1, <1>2, <1>3 DEF Holds
<1>5. Holds(whole, t, Len(s))
  BY <1>1, <1>2 DEF Holds
<1> QED
  BY <1>1, <1>4, <1>5 DEF whole

LEMMA HoldsTrans ==
    ASSUME NEW whole, NEW part, NEW one, NEW n, NEW m,
           Holds(whole, part, n), Holds(part, one, m)
    PROVE  Holds(whole, one, n + m)
<1>1. n \in Nat /\ m \in Nat /\ Len(one) \in Nat /\ Len(part) \in Nat /\ Len(whole) \in Nat
  BY DEF Holds
<1>2. n + m \in Nat /\ (n + m) + Len(one) <= Len(whole)
  BY <1>1 DEF Holds
<1>3. ASSUME NEW i \in 1 .. Len(one)
      PROVE  whole[(n + m) + i] = one[i]
  <2>1. m + i \in 1 .. Len(part) /\ n + (m + i) = (n + m) + i
    BY <1>1 DEF Holds
  <2>2. whole[n + (m + i)] = part[m + i]
    BY <2>1 DEF Holds
  <2>3. part[m + i] = one[i]
    BY DEF Holds
  <2> QED
    BY <2>1, <2>2, <2>3
<1> QED
  BY <1>2, <1>3 DEF Holds

\* Where the routes of a controller are among all.
LEMMA Order ==
    /\ Routes \in Seq(RouteRows) /\ Len(Routes) = 28
    /\ Holds(Routes, PropertiesController, 0) /\ Holds(Routes, MediaController, 5)
    /\ Holds(Routes, RoomsController, 11) /\ Holds(Routes, PricingController, 16)
    /\ Holds(Routes, AvailabilityController, 19) /\ Holds(Routes, BookingsController, 23)
<1> DEFINE two   == PropertiesController \o MediaController
           three == two \o RoomsController
           four  == three \o PricingController
           five  == four \o AvailabilityController
<1>1. /\ two \in Seq(RouteRows) /\ Len(two) = 11
      /\ Holds(two, PropertiesController, 0) /\ Holds(two, MediaController, 5)
  <2>1. /\ two \in Seq(RouteRows) /\ Len(two) = Len(PropertiesController) + Len(MediaController)
        /\ Holds(two, PropertiesController, 0) /\ Holds(two, MediaController, Len(PropertiesController))
    BY Controllers, HoldsBoth, Zenon
  <2> HIDE DEF two
  <2> QED
    BY <2>1, Controllers
<1>2. /\ three \in Seq(RouteRows) /\ Len(three) = 16
      /\ Holds(three, two, 0) /\ Holds(three, RoomsController, 11)
  <2>1. /\ three \in Seq(RouteRows) /\ Len(three) = Len(two) + Len(RoomsController)
        /\ Holds(three, two, 0) /\ Holds(three, RoomsController, Len(two))
    BY <1>1, Controllers, HoldsBoth, Zenon
  <2> HIDE DEF three
  <2> QED
    BY <2>1, <1>1, Controllers
<1>3. /\ four \in Seq(RouteRows) /\ Len(four) = 19
      /\ Holds(four, three, 0) /\ Holds(four, PricingController, 16)
  <2>1. /\ four \in Seq(RouteRows) /\ Len(four) = Len(three) + Len(PricingController)
        /\ Holds(four, three, 0) /\ Holds(four, PricingController, Len(three))
    BY <1>2, Controllers, HoldsBoth, Zenon
  <2> HIDE DEF four
  <2> QED
    BY <2>1, <1>2, Controllers
<1>4. /\ five \in Seq(RouteRows) /\ Len(five) = 23
      /\ Holds(five, four, 0) /\ Holds(five, AvailabilityController, 19)
  <2>1. /\ five \in Seq(RouteRows) /\ Len(five) = Len(four) + Len(AvailabilityController)
        /\ Holds(five, four, 0) /\ Holds(five, AvailabilityController, Len(four))
    BY <1>3, Controllers, HoldsBoth, Zenon
  <2> HIDE DEF five
  <2> QED
    BY <2>1, <1>3, Controllers
<1>5. Routes = five \o BookingsController
  BY DEF Routes, five, four, three, two
<1> HIDE DEF two, three, four, five
<1>6. /\ Routes \in Seq(RouteRows) /\ Len(Routes) = 28
      /\ Holds(Routes, five, 0) /\ Holds(Routes, BookingsController, 23)
  <2>1. /\ Routes \in Seq(RouteRows) /\ Len(Routes) = Len(five) + Len(BookingsController)
        /\ Holds(Routes, five, 0) /\ Holds(Routes, BookingsController, Len(five))
    BY <1>4, <1>5, Controllers, HoldsBoth, Zenon
  <2> HIDE DEF five
  <2> QED
    BY <2>1, <1>4, Controllers
<1>7. Holds(Routes, four, 0) /\ Holds(Routes, AvailabilityController, 19)
  <2>1. Holds(Routes, four, 0 + 0) /\ Holds(Routes, AvailabilityController, 0 + 19)
    BY <1>4, <1>6, HoldsTrans
  <2> QED
    BY <2>1
<1>8. Holds(Routes, three, 0) /\ Holds(Routes, PricingController, 16)
  <2>1. Holds(Routes, three, 0 + 0) /\ Holds(Routes, PricingController, 0 + 16)
    BY <1>3, <1>7, HoldsTrans
  <2> QED
    BY <2>1
<1>9. Holds(Routes, two, 0) /\ Holds(Routes, RoomsController, 11)
  <2>1. Holds(Routes, two, 0 + 0) /\ Holds(Routes, RoomsController, 0 + 11)
    BY <1>2, <1>8, HoldsTrans
  <2> QED
    BY <2>1
<1>10. Holds(Routes, PropertiesController, 0) /\ Holds(Routes, MediaController, 5)
  <2>1. Holds(Routes, PropertiesController, 0 + 0) /\ Holds(Routes, MediaController, 0 + 5)
    BY <1>1, <1>9, HoldsTrans
  <2> QED
    BY <2>1
<1> QED
  BY <1>6, <1>7, <1>8, <1>9, <1>10
\* The routes, by name.
LEMMA Table ==
    /\ Routes[1] = Route("GET", <<"properties">>, "propertiesList")
    /\ Routes[2] = Route("POST", <<"properties">>, "propertiesCreate")
    /\ Routes[3] = Route("GET", Scoped(<<>>), "propertiesFindOne")
    /\ Routes[4] = Route("PATCH", Scoped(<<>>), "propertiesUpdate")
    /\ Routes[5] = Route("POST", Scoped(<<"submit">>), "propertiesSubmitForReview")
    /\ Routes[6] = Route("GET", Scoped(<<"media">>), "mediaList")
    /\ Routes[7] = Route("POST", Scoped(<<"media", "uploads">>), "mediaCreateUpload")
    /\ Routes[8] = Route("POST", Scoped(<<"media", Param, "complete">>), "mediaCompleteUpload")
    /\ Routes[9] = Route("PATCH", Scoped(<<"media", "order">>), "mediaReorder")
    /\ Routes[10] = Route("POST", Scoped(<<"media", Param, "cover">>), "mediaSetCover")
    /\ Routes[11] = Route("DELETE", Scoped(<<"media", Param>>), "mediaRemove")
    /\ Routes[12] = Route("GET", Scoped(<<"rooms">>), "roomsList")
    /\ Routes[13] = Route("POST", Scoped(<<"rooms">>), "roomsCreate")
    /\ Routes[14] = Route("PATCH", Scoped(<<"rooms", "order">>), "roomsReorder")
    /\ Routes[15] = Route("PATCH", Scoped(<<"rooms", Param>>), "roomsUpdate")
    /\ Routes[16] = Route("DELETE", Scoped(<<"rooms", Param>>), "roomsRemove")
    /\ Routes[17] = Route("GET", Scoped(<<"pricing">>), "pricingFind")
    /\ Routes[18] = Route("POST", Scoped(<<"pricing", "overrides">>), "pricingCreateOverride")
    /\ Routes[19] =
           Route("DELETE", Scoped(<<"pricing", "overrides", Param>>), "pricingRemoveOverride")
    /\ Routes[20] = Route("GET", Scoped(<<"availability">>), "availabilityFind")
    /\ Routes[21] = Route("GET", Scoped(<<"availability", "free-rooms">>), "availabilityFreeRooms")
    /\ Routes[22] = Route("POST", Scoped(<<"availability", "blocks">>), "availabilityCreateBlocks")
    /\ Routes[23] =
           Route("DELETE", Scoped(<<"availability", "blocks", Param>>), "availabilityRemoveBlock")
    /\ Routes[24] = Route("GET", Scoped(<<"bookings">>), "bookingsList")
    /\ Routes[25] = Route("GET", Scoped(<<"bookings", Param>>), "bookingsFind")
    /\ Routes[26] = Route("POST", Scoped(<<"bookings">>), "bookingsCreate")
    /\ Routes[27] = Route("PATCH", Scoped(<<"bookings", Param, "status">>), "bookingsChangeStatus")
    /\ Routes[28] = Route("PATCH", Scoped(<<"bookings", Param, "note">>), "bookingsUpdateNote")
<1>1. /\ Routes[1] = PropertiesController[1]
      /\ Routes[2] = PropertiesController[2]
      /\ Routes[3] = PropertiesController[3]
      /\ Routes[4] = PropertiesController[4]
      /\ Routes[5] = PropertiesController[5]
  <2>1. \A i \in 1 .. 5 : Routes[0 + i] = PropertiesController[i]
    BY Order, Controllers DEF Holds
  <2> QED
    BY <2>1
<1>2. /\ Routes[6] = MediaController[1]
      /\ Routes[7] = MediaController[2]
      /\ Routes[8] = MediaController[3]
      /\ Routes[9] = MediaController[4]
      /\ Routes[10] = MediaController[5]
      /\ Routes[11] = MediaController[6]
  <2>1. \A i \in 1 .. 6 : Routes[5 + i] = MediaController[i]
    BY Order, Controllers DEF Holds
  <2> QED
    BY <2>1
<1>3. /\ Routes[12] = RoomsController[1]
      /\ Routes[13] = RoomsController[2]
      /\ Routes[14] = RoomsController[3]
      /\ Routes[15] = RoomsController[4]
      /\ Routes[16] = RoomsController[5]
  <2>1. \A i \in 1 .. 5 : Routes[11 + i] = RoomsController[i]
    BY Order, Controllers DEF Holds
  <2> QED
    BY <2>1
<1>4. /\ Routes[17] = PricingController[1]
      /\ Routes[18] = PricingController[2]
      /\ Routes[19] = PricingController[3]
  <2>1. \A i \in 1 .. 3 : Routes[16 + i] = PricingController[i]
    BY Order, Controllers DEF Holds
  <2> QED
    BY <2>1
<1>5. /\ Routes[20] = AvailabilityController[1]
      /\ Routes[21] = AvailabilityController[2]
      /\ Routes[22] = AvailabilityController[3]
      /\ Routes[23] = AvailabilityController[4]
  <2>1. \A i \in 1 .. 4 : Routes[19 + i] = AvailabilityController[i]
    BY Order, Controllers DEF Holds
  <2> QED
    BY <2>1
<1>6. /\ Routes[24] = BookingsController[1]
      /\ Routes[25] = BookingsController[2]
      /\ Routes[26] = BookingsController[3]
      /\ Routes[27] = BookingsController[4]
      /\ Routes[28] = BookingsController[5]
  <2>1. \A i \in 1 .. 5 : Routes[23 + i] = BookingsController[i]
    BY Order, Controllers DEF Holds
  <2> QED
    BY <2>1
<1>7. /\ PropertiesController[1] = Route("GET", <<"properties">>, "propertiesList")
      /\ PropertiesController[2] = Route("POST", <<"properties">>, "propertiesCreate")
      /\ PropertiesController[3] = Route("GET", Scoped(<<>>), "propertiesFindOne")
      /\ PropertiesController[4] = Route("PATCH", Scoped(<<>>), "propertiesUpdate")
      /\ PropertiesController[5] = Route("POST", Scoped(<<"submit">>), "propertiesSubmitForReview")
  BY DEF PropertiesController
<1>8. /\ MediaController[1] = Route("GET", Scoped(<<"media">>), "mediaList")
      /\ MediaController[2] = Route("POST", Scoped(<<"media", "uploads">>), "mediaCreateUpload")
      /\ MediaController[3] =
             Route("POST", Scoped(<<"media", Param, "complete">>), "mediaCompleteUpload")
      /\ MediaController[4] = Route("PATCH", Scoped(<<"media", "order">>), "mediaReorder")
      /\ MediaController[5] = Route("POST", Scoped(<<"media", Param, "cover">>), "mediaSetCover")
      /\ MediaController[6] = Route("DELETE", Scoped(<<"media", Param>>), "mediaRemove")
  BY DEF MediaController
<1>9. /\ RoomsController[1] = Route("GET", Scoped(<<"rooms">>), "roomsList")
      /\ RoomsController[2] = Route("POST", Scoped(<<"rooms">>), "roomsCreate")
      /\ RoomsController[3] = Route("PATCH", Scoped(<<"rooms", "order">>), "roomsReorder")
      /\ RoomsController[4] = Route("PATCH", Scoped(<<"rooms", Param>>), "roomsUpdate")
      /\ RoomsController[5] = Route("DELETE", Scoped(<<"rooms", Param>>), "roomsRemove")
  BY DEF RoomsController
<1>10. /\ PricingController[1] = Route("GET", Scoped(<<"pricing">>), "pricingFind")
      /\ PricingController[2] =
             Route("POST", Scoped(<<"pricing", "overrides">>), "pricingCreateOverride")
      /\ PricingController[3] =
             Route("DELETE", Scoped(<<"pricing", "overrides", Param>>), "pricingRemoveOverride")
  BY DEF PricingController
<1>11. /\ AvailabilityController[1] = Route("GET", Scoped(<<"availability">>), "availabilityFind")
      /\ AvailabilityController[2] =
             Route("GET", Scoped(<<"availability", "free-rooms">>), "availabilityFreeRooms")
      /\ AvailabilityController[3] =
             Route("POST", Scoped(<<"availability", "blocks">>), "availabilityCreateBlocks")
      /\ AvailabilityController[4] =
             Route("DELETE", Scoped(<<"availability", "blocks", Param>>), "availabilityRemoveBlock")
  BY DEF AvailabilityController
<1>12. /\ BookingsController[1] = Route("GET", Scoped(<<"bookings">>), "bookingsList")
      /\ BookingsController[2] = Route("GET", Scoped(<<"bookings", Param>>), "bookingsFind")
      /\ BookingsController[3] = Route("POST", Scoped(<<"bookings">>), "bookingsCreate")
      /\ BookingsController[4] =
             Route("PATCH", Scoped(<<"bookings", Param, "status">>), "bookingsChangeStatus")
      /\ BookingsController[5] =
             Route("PATCH", Scoped(<<"bookings", Param, "note">>), "bookingsUpdateNote")
  BY DEF BookingsController
<1> QED
  BY <1>1, <1>2, <1>3, <1>4, <1>5, <1>6, <1>7, <1>8, <1>9, <1>10, <1>11, <1>12, Zenon

LEMMA UnderLen ==
    ASSUME NEW asked \in Paths
    PROVE  /\ Under(asked) \in Paths /\ Len(asked) \in Nat /\ Len(Under(asked)) = 2 + Len(asked)
<1>1. "properties" \in Segments /\ "p" \in Segments
  BY DEF Segments
<1> QED
  BY <1>1, Following DEF Under, PropertyPath, Paths

LEMMA NoneTaken ==
    ASSUME NEW route, NEW name, NEW verb, NEW asked \in Paths, NEW method, NEW handler,
           route = Route(method, <<"properties">>, handler)
    PROVE  ~Takes(route, Ask(name, verb, Under(asked)))
<1> DEFINE request == Ask(name, verb, Under(asked))
<1>1. Len(route.path) = 1 /\ request.path = Under(asked)
  BY DEF Route, Ask
<1>2. Takes(route, request) => Len(route.path) = Len(request.path)
  BY DEF Takes
<1> HIDE DEF request
<1>3. Len(request.path) = 2 + Len(asked) /\ Len(asked) \in Nat
  BY <1>1, UnderLen
<1>4. Len(route.path) # Len(request.path)
  <2> DEFINE given == Len(route.path)
             wanted == Len(request.path)
             more   == Len(asked)
  <2>1. given = 1 /\ wanted = 2 + more /\ more \in Nat
    BY <1>1, <1>3, Zenon
  <2> HIDE DEF given, wanted, more
  <2>2. given # wanted
    BY <2>1
  <2> QED
    BY <2>2 DEF given, wanted
<1>5. ~Takes(route, request)
  BY <1>2, <1>4, Zenon
<1> QED
  BY <1>5 DEF request

LEMMA TakesProperty ==
    ASSUME NEW method, NEW handler, NEW name, NEW verb, NEW asked \in Paths
    PROVE  Takes(Route(method, Scoped(<<>>), handler), Ask(name, verb, Under(asked)))
               <=> method = verb /\ Len(asked) = 0
<1> DEFINE segments == <<>>
<1>1. segments \in Paths
  BY DEF Paths
<1>2. Matches(segments, asked) <=> Len(asked) = 0
  BY Matching, Zenon
<1> HIDE DEF segments
<1>3. Takes(Route(method, Scoped(segments), handler), Ask(name, verb, Under(asked)))
          <=> method = verb /\ Matches(segments, asked)
  BY <1>1, ScopedTakes, Zenon
<1> QED
  BY <1>2, <1>3 DEF segments

LEMMA TakesOne ==
    ASSUME NEW method, NEW handler, NEW name, NEW verb, NEW asked \in Paths, NEW a \in Segments
    PROVE  Takes(Route(method, Scoped(<<a>>), handler), Ask(name, verb, Under(asked)))
               <=> method = verb /\ Len(asked) = 1 /\ a \in {Param, asked[1]}
<1> DEFINE segments == <<a>>
<1>1. segments \in Paths
  BY DEF Paths
<1>2. Matches(segments, asked) <=> Len(asked) = 1 /\ a \in {Param, asked[1]}
  BY Matching, Zenon
<1> HIDE DEF segments
<1>3. Takes(Route(method, Scoped(segments), handler), Ask(name, verb, Under(asked)))
          <=> method = verb /\ Matches(segments, asked)
  BY <1>1, ScopedTakes, Zenon
<1> QED
  BY <1>2, <1>3 DEF segments

LEMMA TakesTwo ==
    ASSUME NEW method, NEW handler, NEW name, NEW verb, NEW asked \in Paths,
           NEW a \in Segments, NEW b \in Segments
    PROVE  Takes(Route(method, Scoped(<<a, b>>), handler), Ask(name, verb, Under(asked)))
               <=> /\ method = verb /\ Len(asked) = 2
                   /\ a \in {Param, asked[1]} /\ b \in {Param, asked[2]}
<1> DEFINE segments == <<a, b>>
<1>1. segments \in Paths
  BY DEF Paths
<1>2. Matches(segments, asked) <=>
          /\ Len(asked) = 2 /\ a \in {Param, asked[1]}
          /\ b \in {Param, asked[2]}
  BY Matching, Zenon
<1> HIDE DEF segments
<1>3. Takes(Route(method, Scoped(segments), handler), Ask(name, verb, Under(asked)))
          <=> method = verb /\ Matches(segments, asked)
  BY <1>1, ScopedTakes, Zenon
<1> QED
  BY <1>2, <1>3 DEF segments

LEMMA TakesThree ==
    ASSUME NEW method, NEW handler, NEW name, NEW verb, NEW asked \in Paths,
           NEW a \in Segments, NEW b \in Segments, NEW c \in Segments
    PROVE  Takes(Route(method, Scoped(<<a, b, c>>), handler), Ask(name, verb, Under(asked)))
               <=> /\ method = verb /\ Len(asked) = 3
                   /\ a \in {Param, asked[1]} /\ b \in {Param, asked[2]} /\ c \in {Param, asked[3]}
<1> DEFINE segments == <<a, b, c>>
<1>1. segments \in Paths
  BY DEF Paths
<1>2. Matches(segments, asked) <=>
          /\ Len(asked) = 3 /\ a \in {Param, asked[1]}
          /\ b \in {Param, asked[2]} /\ c \in {Param, asked[3]}
  BY Matching, Zenon
<1> HIDE DEF segments
<1>3. Takes(Route(method, Scoped(segments), handler), Ask(name, verb, Under(asked)))
          <=> method = verb /\ Matches(segments, asked)
  BY <1>1, ScopedTakes, Zenon
<1> QED
  BY <1>2, <1>3 DEF segments

\* What each route takes of the requests about a property.
Takings(request, verb, asked) ==
    LET taken(k) == Takes(Routes[k], request)
    IN  /\ ~taken(1) /\ ~taken(2)
        /\ taken(3) <=> verb = "GET" /\ Len(asked) = 0
        /\ taken(4) <=> verb = "PATCH" /\ Len(asked) = 0
        /\ taken(5) <=> verb = "POST" /\ Len(asked) = 1 /\ asked[1] = "submit"
        /\ taken(6) <=> verb = "GET" /\ Len(asked) = 1 /\ asked[1] = "media"
        /\ taken(7) <=>
               /\ verb = "POST" /\ Len(asked) = 2
               /\ asked[1] = "media" /\ asked[2] = "uploads"
        /\ taken(8) <=>
               /\ verb = "POST" /\ Len(asked) = 3
               /\ asked[1] = "media" /\ asked[3] = "complete"
        /\ taken(9) <=> verb = "PATCH" /\ Len(asked) = 2 /\ asked[1] = "media" /\ asked[2] = "order"
        /\ taken(10) <=> verb = "POST" /\ Len(asked) = 3 /\ asked[1] = "media" /\ asked[3] = "cover"
        /\ taken(11) <=> verb = "DELETE" /\ Len(asked) = 2 /\ asked[1] = "media"
        /\ taken(12) <=> verb = "GET" /\ Len(asked) = 1 /\ asked[1] = "rooms"
        /\ taken(13) <=> verb = "POST" /\ Len(asked) = 1 /\ asked[1] = "rooms"
        /\ taken(14) <=>
               /\ verb = "PATCH" /\ Len(asked) = 2
               /\ asked[1] = "rooms" /\ asked[2] = "order"
        /\ taken(15) <=> verb = "PATCH" /\ Len(asked) = 2 /\ asked[1] = "rooms"
        /\ taken(16) <=> verb = "DELETE" /\ Len(asked) = 2 /\ asked[1] = "rooms"
        /\ taken(17) <=> verb = "GET" /\ Len(asked) = 1 /\ asked[1] = "pricing"
        /\ taken(18) <=>
               /\ verb = "POST" /\ Len(asked) = 2
               /\ asked[1] = "pricing" /\ asked[2] = "overrides"
        /\ taken(19) <=>
               /\ verb = "DELETE" /\ Len(asked) = 3
               /\ asked[1] = "pricing" /\ asked[2] = "overrides"
        /\ taken(20) <=> verb = "GET" /\ Len(asked) = 1 /\ asked[1] = "availability"
        /\ taken(21) <=>
               /\ verb = "GET" /\ Len(asked) = 2
               /\ asked[1] = "availability" /\ asked[2] = "free-rooms"
        /\ taken(22) <=>
               /\ verb = "POST" /\ Len(asked) = 2
               /\ asked[1] = "availability" /\ asked[2] = "blocks"
        /\ taken(23) <=>
               /\ verb = "DELETE" /\ Len(asked) = 3
               /\ asked[1] = "availability" /\ asked[2] = "blocks"
        /\ taken(24) <=> verb = "GET" /\ Len(asked) = 1 /\ asked[1] = "bookings"
        /\ taken(25) <=> verb = "GET" /\ Len(asked) = 2 /\ asked[1] = "bookings"
        /\ taken(26) <=> verb = "POST" /\ Len(asked) = 1 /\ asked[1] = "bookings"
        /\ taken(27) <=>
               /\ verb = "PATCH" /\ Len(asked) = 3
               /\ asked[1] = "bookings" /\ asked[3] = "status"
        /\ taken(28) <=>
               /\ verb = "PATCH" /\ Len(asked) = 3
               /\ asked[1] = "bookings" /\ asked[3] = "note"

LEMMA Taken ==
    ASSUME NEW name, NEW verb, NEW asked \in Paths
    PROVE  Takings(Ask(name, verb, Under(asked)), verb, asked)
<1> DEFINE taken(k) == Takes(Routes[k], Ask(name, verb, Under(asked)))
<1>1. {Param, "availability", "blocks", "bookings", "complete", "cover", "free-rooms",
       "media", "note", "order", "overrides", "pricing", "rooms", "status", "submit",
       "uploads"} \subseteq Segments
  BY DEF Segments
<1>2. ~taken(1) /\ ~taken(2)
  BY Table, NoneTaken, Zenon
<1>3. taken(3) <=> verb = "GET" /\ Len(asked) = 0
  <2>1. Routes[3] = Route("GET", Scoped(<<>>), "propertiesFindOne")
    BY Table, Zenon
  <2> QED
    BY <1>1, <2>1, TakesProperty DEF Param
<1>4. taken(4) <=> verb = "PATCH" /\ Len(asked) = 0
  <2>1. Routes[4] = Route("PATCH", Scoped(<<>>), "propertiesUpdate")
    BY Table, Zenon
  <2> QED
    BY <1>1, <2>1, TakesProperty DEF Param
<1>5. taken(5) <=> verb = "POST" /\ Len(asked) = 1 /\ asked[1] = "submit"
  <2>1. Routes[5] = Route("POST", Scoped(<<"submit">>), "propertiesSubmitForReview")
    BY Table, Zenon
  <2> QED
    BY <1>1, <2>1, TakesOne DEF Param
<1>6. taken(6) <=> verb = "GET" /\ Len(asked) = 1 /\ asked[1] = "media"
  <2>1. Routes[6] = Route("GET", Scoped(<<"media">>), "mediaList")
    BY Table, Zenon
  <2> QED
    BY <1>1, <2>1, TakesOne DEF Param
<1>7. taken(7) <=> verb = "POST" /\ Len(asked) = 2 /\ asked[1] = "media" /\ asked[2] = "uploads"
  <2>1. Routes[7] = Route("POST", Scoped(<<"media", "uploads">>), "mediaCreateUpload")
    BY Table, Zenon
  <2> QED
    BY <1>1, <2>1, TakesTwo DEF Param
<1>8. taken(8) <=> verb = "POST" /\ Len(asked) = 3 /\ asked[1] = "media" /\ asked[3] = "complete"
  <2>1. Routes[8] = Route("POST", Scoped(<<"media", Param, "complete">>), "mediaCompleteUpload")
    BY Table, Zenon
  <2> QED
    BY <1>1, <2>1, TakesThree DEF Param
<1>9. taken(9) <=> verb = "PATCH" /\ Len(asked) = 2 /\ asked[1] = "media" /\ asked[2] = "order"
  <2>1. Routes[9] = Route("PATCH", Scoped(<<"media", "order">>), "mediaReorder")
    BY Table, Zenon
  <2> QED
    BY <1>1, <2>1, TakesTwo DEF Param
<1>10. taken(10) <=> verb = "POST" /\ Len(asked) = 3 /\ asked[1] = "media" /\ asked[3] = "cover"
  <2>1. Routes[10] = Route("POST", Scoped(<<"media", Param, "cover">>), "mediaSetCover")
    BY Table, Zenon
  <2> QED
    BY <1>1, <2>1, TakesThree DEF Param
<1>11. taken(11) <=> verb = "DELETE" /\ Len(asked) = 2 /\ asked[1] = "media"
  <2>1. Routes[11] = Route("DELETE", Scoped(<<"media", Param>>), "mediaRemove")
    BY Table, Zenon
  <2> QED
    BY <1>1, <2>1, TakesTwo DEF Param
<1>12. taken(12) <=> verb = "GET" /\ Len(asked) = 1 /\ asked[1] = "rooms"
  <2>1. Routes[12] = Route("GET", Scoped(<<"rooms">>), "roomsList")
    BY Table, Zenon
  <2> QED
    BY <1>1, <2>1, TakesOne DEF Param
<1>13. taken(13) <=> verb = "POST" /\ Len(asked) = 1 /\ asked[1] = "rooms"
  <2>1. Routes[13] = Route("POST", Scoped(<<"rooms">>), "roomsCreate")
    BY Table, Zenon
  <2> QED
    BY <1>1, <2>1, TakesOne DEF Param
<1>14. taken(14) <=> verb = "PATCH" /\ Len(asked) = 2 /\ asked[1] = "rooms" /\ asked[2] = "order"
  <2>1. Routes[14] = Route("PATCH", Scoped(<<"rooms", "order">>), "roomsReorder")
    BY Table, Zenon
  <2> QED
    BY <1>1, <2>1, TakesTwo DEF Param
<1>15. taken(15) <=> verb = "PATCH" /\ Len(asked) = 2 /\ asked[1] = "rooms"
  <2>1. Routes[15] = Route("PATCH", Scoped(<<"rooms", Param>>), "roomsUpdate")
    BY Table, Zenon
  <2> QED
    BY <1>1, <2>1, TakesTwo DEF Param
<1>16. taken(16) <=> verb = "DELETE" /\ Len(asked) = 2 /\ asked[1] = "rooms"
  <2>1. Routes[16] = Route("DELETE", Scoped(<<"rooms", Param>>), "roomsRemove")
    BY Table, Zenon
  <2> QED
    BY <1>1, <2>1, TakesTwo DEF Param
<1>17. taken(17) <=> verb = "GET" /\ Len(asked) = 1 /\ asked[1] = "pricing"
  <2>1. Routes[17] = Route("GET", Scoped(<<"pricing">>), "pricingFind")
    BY Table, Zenon
  <2> QED
    BY <1>1, <2>1, TakesOne DEF Param
<1>18. taken(18) <=>
           /\ verb = "POST" /\ Len(asked) = 2
           /\ asked[1] = "pricing" /\ asked[2] = "overrides"
  <2>1. Routes[18] = Route("POST", Scoped(<<"pricing", "overrides">>), "pricingCreateOverride")
    BY Table, Zenon
  <2> QED
    BY <1>1, <2>1, TakesTwo DEF Param
<1>19. taken(19) <=>
           /\ verb = "DELETE" /\ Len(asked) = 3
           /\ asked[1] = "pricing" /\ asked[2] = "overrides"
  <2>1. Routes[19] = Route("DELETE", Scoped(<<"pricing", "overrides", Param>>), "pricingRemoveOverride")
    BY Table, Zenon
  <2> QED
    BY <1>1, <2>1, TakesThree DEF Param
<1>20. taken(20) <=> verb = "GET" /\ Len(asked) = 1 /\ asked[1] = "availability"
  <2>1. Routes[20] = Route("GET", Scoped(<<"availability">>), "availabilityFind")
    BY Table, Zenon
  <2> QED
    BY <1>1, <2>1, TakesOne DEF Param
<1>21. taken(21) <=>
           /\ verb = "GET" /\ Len(asked) = 2
           /\ asked[1] = "availability" /\ asked[2] = "free-rooms"
  <2>1. Routes[21] = Route("GET", Scoped(<<"availability", "free-rooms">>), "availabilityFreeRooms")
    BY Table, Zenon
  <2> QED
    BY <1>1, <2>1, TakesTwo DEF Param
<1>22. taken(22) <=>
           /\ verb = "POST" /\ Len(asked) = 2
           /\ asked[1] = "availability" /\ asked[2] = "blocks"
  <2>1. Routes[22] = Route("POST", Scoped(<<"availability", "blocks">>), "availabilityCreateBlocks")
    BY Table, Zenon
  <2> QED
    BY <1>1, <2>1, TakesTwo DEF Param
<1>23. taken(23) <=>
           /\ verb = "DELETE" /\ Len(asked) = 3
           /\ asked[1] = "availability" /\ asked[2] = "blocks"
  <2>1. Routes[23] = Route("DELETE", Scoped(<<"availability", "blocks", Param>>), "availabilityRemoveBlock")
    BY Table, Zenon
  <2> QED
    BY <1>1, <2>1, TakesThree DEF Param
<1>24. taken(24) <=> verb = "GET" /\ Len(asked) = 1 /\ asked[1] = "bookings"
  <2>1. Routes[24] = Route("GET", Scoped(<<"bookings">>), "bookingsList")
    BY Table, Zenon
  <2> QED
    BY <1>1, <2>1, TakesOne DEF Param
<1>25. taken(25) <=> verb = "GET" /\ Len(asked) = 2 /\ asked[1] = "bookings"
  <2>1. Routes[25] = Route("GET", Scoped(<<"bookings", Param>>), "bookingsFind")
    BY Table, Zenon
  <2> QED
    BY <1>1, <2>1, TakesTwo DEF Param
<1>26. taken(26) <=> verb = "POST" /\ Len(asked) = 1 /\ asked[1] = "bookings"
  <2>1. Routes[26] = Route("POST", Scoped(<<"bookings">>), "bookingsCreate")
    BY Table, Zenon
  <2> QED
    BY <1>1, <2>1, TakesOne DEF Param
<1>27. taken(27) <=>
           /\ verb = "PATCH" /\ Len(asked) = 3
           /\ asked[1] = "bookings" /\ asked[3] = "status"
  <2>1. Routes[27] = Route("PATCH", Scoped(<<"bookings", Param, "status">>), "bookingsChangeStatus")
    BY Table, Zenon
  <2> QED
    BY <1>1, <2>1, TakesThree DEF Param
<1>28. taken(28) <=> verb = "PATCH" /\ Len(asked) = 3 /\ asked[1] = "bookings" /\ asked[3] = "note"
  <2>1. Routes[28] = Route("PATCH", Scoped(<<"bookings", Param, "note">>), "bookingsUpdateNote")
    BY Table, Zenon
  <2> QED
    BY <1>1, <2>1, TakesThree DEF Param
<1> QED
  BY <1>2, <1>3, <1>4, <1>5, <1>6, <1>7, <1>8, <1>9, <1>10, <1>11, <1>12, <1>13, <1>14, <1>15,
     <1>16, <1>17, <1>18, <1>19, <1>20, <1>21, <1>22, <1>23, <1>24, <1>25, <1>26, <1>27,
     <1>28 DEF Takings

\* The handler is the one of the first route that takes the request.
LEMMA Reached ==
    ASSUME NEW request, NEW k \in 1 .. 28, Takes(Routes[k], request),
           \A j \in 1 .. 28 : Takes(Routes[j], request) => k <= j
    PROVE  Handler(request) = Routes[k].handler
<1> DEFINE taking == {i \in DOMAIN Routes : Takes(Routes[i], request)}
<1>1. DOMAIN Routes = 1 .. 28
  BY Order
<1>2. k \in taking /\ \A j \in taking : k <= j
  BY <1>1
<1>3. \A i \in taking : (\A j \in taking : i <= j) => i = k
  BY <1>1, <1>2
<1>4. (CHOOSE i \in taking : \A j \in taking : i <= j) = k
  BY <1>2, <1>3
<1> QED
  BY <1>4 DEF Handler

\* The requests of the generated client that change something.
Mutations == {PropertiesCreate, PropertiesUpdate, PropertiesSubmitForReview, RoomsCreate,
              RoomsReorder, RoomsUpdate, RoomsRemove, PricingCreateOverride, PricingRemoveOverride,
              MediaCreateUpload, MediaCompleteUpload, MediaReorder, MediaSetCover, MediaRemove,
              BookingsCreate, BookingsChangeStatus, BookingsUpdateNote, AvailabilityCreateBlocks,
              AvailabilityRemoveBlock}

\* The generated client (packages/api-client) writes a method and a path per operation, and the
\* controllers of apps/api declare routes whose order decides: PATCH rooms/order also fits
\* rooms/:roomId.  Every mutation of the client reaches the handler it is generated from.
THEOREM Dispatched ==
    ASSUME NEW request \in Mutations
    PROVE  Handler(request) = request.name
<1>1. Handler(PropertiesCreate) = PropertiesCreate.name
  <2> DEFINE path == <<"properties">>
  <2>1. Len(path) = 1 /\ DOMAIN path = {1}
    OBVIOUS
  <2>2. /\ PropertiesCreate = Ask("propertiesCreate", "POST", path)
        /\ Routes[1] = Route("GET", path, "propertiesList") /\ Routes[2] =
               Route("POST", path, "propertiesCreate")
    BY Table DEF PropertiesCreate
  <2> HIDE DEF path
  <2>3. /\ PropertiesCreate.method = "POST" /\ PropertiesCreate.path = path
        /\ Routes[1].method = "GET" /\ Routes[2].method = "POST" /\ Routes[2].path = path
    BY <2>2 DEF Route, Ask
  <2>4. Takes(Routes[2], PropertiesCreate) /\ ~Takes(Routes[1], PropertiesCreate)
    <3>1. \A i \in DOMAIN path : path[i] \in {Param, path[i]}
      OBVIOUS
    <3> QED
      BY <2>3, <3>1 DEF Takes
  <2>5. Handler(PropertiesCreate) = Routes[2].handler
    BY <2>4, Reached
  <2> QED
    BY <2>2, <2>5 DEF Ask, Route
<1>2. Handler(PropertiesUpdate) = PropertiesUpdate.name
  <2> DEFINE asked == <<>>
  <2>1. /\ asked \in Paths /\ Len(asked) = 0
    BY DEF Paths, Segments, Param
  <2>2. PropertiesUpdate = Ask("propertiesUpdate", "PATCH", Under(asked))
    BY DEF PropertiesUpdate, Under, PropertyPath
  <2> HIDE DEF asked
  <2>3. Takings(PropertiesUpdate, "PATCH", asked)
    BY <2>1, <2>2, Taken
  <2>4. /\ Takes(Routes[4], PropertiesUpdate)
        /\ \A j \in 1 .. 3 : ~Takes(Routes[j], PropertiesUpdate)
    BY <2>1, <2>3 DEF Takings
  <2>5. Handler(PropertiesUpdate) = Routes[4].handler
    BY <2>4, Reached
  <2> QED
    BY <2>2, <2>5, Table DEF Ask, Route
<1>3. Handler(PropertiesSubmitForReview) = PropertiesSubmitForReview.name
  <2> DEFINE asked == <<"submit">>
  <2>1. /\ asked \in Paths /\ Len(asked) = 1
        /\ asked[1] = "submit"
    BY DEF Paths, Segments, Param
  <2>2. PropertiesSubmitForReview = Ask("propertiesSubmitForReview", "POST", Under(asked))
    BY DEF PropertiesSubmitForReview
  <2> HIDE DEF asked
  <2>3. Takings(PropertiesSubmitForReview, "POST", asked)
    BY <2>1, <2>2, Taken
  <2>4. /\ Takes(Routes[5], PropertiesSubmitForReview)
        /\ \A j \in 1 .. 4 : ~Takes(Routes[j], PropertiesSubmitForReview)
    BY <2>1, <2>3 DEF Takings
  <2>5. Handler(PropertiesSubmitForReview) = Routes[5].handler
    BY <2>4, Reached
  <2> QED
    BY <2>2, <2>5, Table DEF Ask, Route
<1>4. Handler(RoomsCreate) = RoomsCreate.name
  <2> DEFINE asked == <<"rooms">>
  <2>1. /\ asked \in Paths /\ Len(asked) = 1
        /\ asked[1] = "rooms"
    BY DEF Paths, Segments, Param
  <2>2. RoomsCreate = Ask("roomsCreate", "POST", Under(asked))
    BY DEF RoomsCreate
  <2> HIDE DEF asked
  <2>3. Takings(RoomsCreate, "POST", asked)
    BY <2>1, <2>2, Taken
  <2>4. /\ Takes(Routes[13], RoomsCreate)
        /\ \A j \in 1 .. 12 : ~Takes(Routes[j], RoomsCreate)
    BY <2>1, <2>3 DEF Takings
  <2>5. Handler(RoomsCreate) = Routes[13].handler
    BY <2>4, Reached
  <2> QED
    BY <2>2, <2>5, Table DEF Ask, Route
<1>5. Handler(RoomsReorder) = RoomsReorder.name
  <2> DEFINE asked == <<"rooms", "order">>
  <2>1. /\ asked \in Paths /\ Len(asked) = 2
        /\ asked[1] = "rooms"
        /\ asked[2] = "order"
    BY DEF Paths, Segments, Param
  <2>2. RoomsReorder = Ask("roomsReorder", "PATCH", Under(asked))
    BY DEF RoomsReorder
  <2> HIDE DEF asked
  <2>3. Takings(RoomsReorder, "PATCH", asked)
    BY <2>1, <2>2, Taken
  <2>4. /\ Takes(Routes[14], RoomsReorder)
        /\ \A j \in 1 .. 13 : ~Takes(Routes[j], RoomsReorder)
    BY <2>1, <2>3 DEF Takings
  <2>5. Handler(RoomsReorder) = Routes[14].handler
    BY <2>4, Reached
  <2> QED
    BY <2>2, <2>5, Table DEF Ask, Route
<1>6. Handler(RoomsUpdate) = RoomsUpdate.name
  <2> DEFINE asked == <<"rooms", "r">>
  <2>1. /\ asked \in Paths /\ Len(asked) = 2
        /\ asked[1] = "rooms"
        /\ asked[2] = "r"
    BY DEF Paths, Segments, Param
  <2>2. RoomsUpdate = Ask("roomsUpdate", "PATCH", Under(asked))
    BY DEF RoomsUpdate
  <2> HIDE DEF asked
  <2>3. Takings(RoomsUpdate, "PATCH", asked)
    BY <2>1, <2>2, Taken
  <2>4. /\ Takes(Routes[15], RoomsUpdate)
        /\ \A j \in 1 .. 14 : ~Takes(Routes[j], RoomsUpdate)
    BY <2>1, <2>3 DEF Takings
  <2>5. Handler(RoomsUpdate) = Routes[15].handler
    BY <2>4, Reached
  <2> QED
    BY <2>2, <2>5, Table DEF Ask, Route
<1>7. Handler(RoomsRemove) = RoomsRemove.name
  <2> DEFINE asked == <<"rooms", "r">>
  <2>1. /\ asked \in Paths /\ Len(asked) = 2
        /\ asked[1] = "rooms"
        /\ asked[2] = "r"
    BY DEF Paths, Segments, Param
  <2>2. RoomsRemove = Ask("roomsRemove", "DELETE", Under(asked))
    BY DEF RoomsRemove
  <2> HIDE DEF asked
  <2>3. Takings(RoomsRemove, "DELETE", asked)
    BY <2>1, <2>2, Taken
  <2>4. /\ Takes(Routes[16], RoomsRemove)
        /\ \A j \in 1 .. 15 : ~Takes(Routes[j], RoomsRemove)
    BY <2>1, <2>3 DEF Takings
  <2>5. Handler(RoomsRemove) = Routes[16].handler
    BY <2>4, Reached
  <2> QED
    BY <2>2, <2>5, Table DEF Ask, Route
<1>8. Handler(PricingCreateOverride) = PricingCreateOverride.name
  <2> DEFINE asked == <<"pricing", "overrides">>
  <2>1. /\ asked \in Paths /\ Len(asked) = 2
        /\ asked[1] = "pricing"
        /\ asked[2] = "overrides"
    BY DEF Paths, Segments, Param
  <2>2. PricingCreateOverride = Ask("pricingCreateOverride", "POST", Under(asked))
    BY DEF PricingCreateOverride
  <2> HIDE DEF asked
  <2>3. Takings(PricingCreateOverride, "POST", asked)
    BY <2>1, <2>2, Taken
  <2>4. /\ Takes(Routes[18], PricingCreateOverride)
        /\ \A j \in 1 .. 17 : ~Takes(Routes[j], PricingCreateOverride)
    BY <2>1, <2>3 DEF Takings
  <2>5. Handler(PricingCreateOverride) = Routes[18].handler
    BY <2>4, Reached
  <2> QED
    BY <2>2, <2>5, Table DEF Ask, Route
<1>9. Handler(PricingRemoveOverride) = PricingRemoveOverride.name
  <2> DEFINE asked == <<"pricing", "overrides", "o">>
  <2>1. /\ asked \in Paths /\ Len(asked) = 3
        /\ asked[1] = "pricing"
        /\ asked[2] = "overrides"
        /\ asked[3] = "o"
    BY DEF Paths, Segments, Param
  <2>2. PricingRemoveOverride = Ask("pricingRemoveOverride", "DELETE", Under(asked))
    BY DEF PricingRemoveOverride
  <2> HIDE DEF asked
  <2>3. Takings(PricingRemoveOverride, "DELETE", asked)
    BY <2>1, <2>2, Taken
  <2>4. /\ Takes(Routes[19], PricingRemoveOverride)
        /\ \A j \in 1 .. 18 : ~Takes(Routes[j], PricingRemoveOverride)
    BY <2>1, <2>3 DEF Takings
  <2>5. Handler(PricingRemoveOverride) = Routes[19].handler
    BY <2>4, Reached
  <2> QED
    BY <2>2, <2>5, Table DEF Ask, Route
<1>10. Handler(MediaCreateUpload) = MediaCreateUpload.name
  <2> DEFINE asked == <<"media", "uploads">>
  <2>1. /\ asked \in Paths /\ Len(asked) = 2
        /\ asked[1] = "media"
        /\ asked[2] = "uploads"
    BY DEF Paths, Segments, Param
  <2>2. MediaCreateUpload = Ask("mediaCreateUpload", "POST", Under(asked))
    BY DEF MediaCreateUpload
  <2> HIDE DEF asked
  <2>3. Takings(MediaCreateUpload, "POST", asked)
    BY <2>1, <2>2, Taken
  <2>4. /\ Takes(Routes[7], MediaCreateUpload)
        /\ \A j \in 1 .. 6 : ~Takes(Routes[j], MediaCreateUpload)
    BY <2>1, <2>3 DEF Takings
  <2>5. Handler(MediaCreateUpload) = Routes[7].handler
    BY <2>4, Reached
  <2> QED
    BY <2>2, <2>5, Table DEF Ask, Route
<1>11. Handler(MediaCompleteUpload) = MediaCompleteUpload.name
  <2> DEFINE asked == <<"media", "m", "complete">>
  <2>1. /\ asked \in Paths /\ Len(asked) = 3
        /\ asked[1] = "media"
        /\ asked[2] = "m"
        /\ asked[3] = "complete"
    BY DEF Paths, Segments, Param
  <2>2. MediaCompleteUpload = Ask("mediaCompleteUpload", "POST", Under(asked))
    BY DEF MediaCompleteUpload
  <2> HIDE DEF asked
  <2>3. Takings(MediaCompleteUpload, "POST", asked)
    BY <2>1, <2>2, Taken
  <2>4. /\ Takes(Routes[8], MediaCompleteUpload)
        /\ \A j \in 1 .. 7 : ~Takes(Routes[j], MediaCompleteUpload)
    BY <2>1, <2>3 DEF Takings
  <2>5. Handler(MediaCompleteUpload) = Routes[8].handler
    BY <2>4, Reached
  <2> QED
    BY <2>2, <2>5, Table DEF Ask, Route
<1>12. Handler(MediaReorder) = MediaReorder.name
  <2> DEFINE asked == <<"media", "order">>
  <2>1. /\ asked \in Paths /\ Len(asked) = 2
        /\ asked[1] = "media"
        /\ asked[2] = "order"
    BY DEF Paths, Segments, Param
  <2>2. MediaReorder = Ask("mediaReorder", "PATCH", Under(asked))
    BY DEF MediaReorder
  <2> HIDE DEF asked
  <2>3. Takings(MediaReorder, "PATCH", asked)
    BY <2>1, <2>2, Taken
  <2>4. /\ Takes(Routes[9], MediaReorder)
        /\ \A j \in 1 .. 8 : ~Takes(Routes[j], MediaReorder)
    BY <2>1, <2>3 DEF Takings
  <2>5. Handler(MediaReorder) = Routes[9].handler
    BY <2>4, Reached
  <2> QED
    BY <2>2, <2>5, Table DEF Ask, Route
<1>13. Handler(MediaSetCover) = MediaSetCover.name
  <2> DEFINE asked == <<"media", "m", "cover">>
  <2>1. /\ asked \in Paths /\ Len(asked) = 3
        /\ asked[1] = "media"
        /\ asked[2] = "m"
        /\ asked[3] = "cover"
    BY DEF Paths, Segments, Param
  <2>2. MediaSetCover = Ask("mediaSetCover", "POST", Under(asked))
    BY DEF MediaSetCover
  <2> HIDE DEF asked
  <2>3. Takings(MediaSetCover, "POST", asked)
    BY <2>1, <2>2, Taken
  <2>4. /\ Takes(Routes[10], MediaSetCover)
        /\ \A j \in 1 .. 9 : ~Takes(Routes[j], MediaSetCover)
    BY <2>1, <2>3 DEF Takings
  <2>5. Handler(MediaSetCover) = Routes[10].handler
    BY <2>4, Reached
  <2> QED
    BY <2>2, <2>5, Table DEF Ask, Route
<1>14. Handler(MediaRemove) = MediaRemove.name
  <2> DEFINE asked == <<"media", "m">>
  <2>1. /\ asked \in Paths /\ Len(asked) = 2
        /\ asked[1] = "media"
        /\ asked[2] = "m"
    BY DEF Paths, Segments, Param
  <2>2. MediaRemove = Ask("mediaRemove", "DELETE", Under(asked))
    BY DEF MediaRemove
  <2> HIDE DEF asked
  <2>3. Takings(MediaRemove, "DELETE", asked)
    BY <2>1, <2>2, Taken
  <2>4. /\ Takes(Routes[11], MediaRemove)
        /\ \A j \in 1 .. 10 : ~Takes(Routes[j], MediaRemove)
    BY <2>1, <2>3 DEF Takings
  <2>5. Handler(MediaRemove) = Routes[11].handler
    BY <2>4, Reached
  <2> QED
    BY <2>2, <2>5, Table DEF Ask, Route
<1>15. Handler(BookingsCreate) = BookingsCreate.name
  <2> DEFINE asked == <<"bookings">>
  <2>1. /\ asked \in Paths /\ Len(asked) = 1
        /\ asked[1] = "bookings"
    BY DEF Paths, Segments, Param
  <2>2. BookingsCreate = Ask("bookingsCreate", "POST", Under(asked))
    BY DEF BookingsCreate
  <2> HIDE DEF asked
  <2>3. Takings(BookingsCreate, "POST", asked)
    BY <2>1, <2>2, Taken
  <2>4. /\ Takes(Routes[26], BookingsCreate)
        /\ \A j \in 1 .. 25 : ~Takes(Routes[j], BookingsCreate)
    BY <2>1, <2>3 DEF Takings
  <2>5. Handler(BookingsCreate) = Routes[26].handler
    BY <2>4, Reached
  <2> QED
    BY <2>2, <2>5, Table DEF Ask, Route
<1>16. Handler(BookingsChangeStatus) = BookingsChangeStatus.name
  <2> DEFINE asked == <<"bookings", "b", "status">>
  <2>1. /\ asked \in Paths /\ Len(asked) = 3
        /\ asked[1] = "bookings"
        /\ asked[2] = "b"
        /\ asked[3] = "status"
    BY DEF Paths, Segments, Param
  <2>2. BookingsChangeStatus = Ask("bookingsChangeStatus", "PATCH", Under(asked))
    BY DEF BookingsChangeStatus
  <2> HIDE DEF asked
  <2>3. Takings(BookingsChangeStatus, "PATCH", asked)
    BY <2>1, <2>2, Taken
  <2>4. /\ Takes(Routes[27], BookingsChangeStatus)
        /\ \A j \in 1 .. 26 : ~Takes(Routes[j], BookingsChangeStatus)
    BY <2>1, <2>3 DEF Takings
  <2>5. Handler(BookingsChangeStatus) = Routes[27].handler
    BY <2>4, Reached
  <2> QED
    BY <2>2, <2>5, Table DEF Ask, Route
<1>17. Handler(BookingsUpdateNote) = BookingsUpdateNote.name
  <2> DEFINE asked == <<"bookings", "b", "note">>
  <2>1. /\ asked \in Paths /\ Len(asked) = 3
        /\ asked[1] = "bookings"
        /\ asked[2] = "b"
        /\ asked[3] = "note"
    BY DEF Paths, Segments, Param
  <2>2. BookingsUpdateNote = Ask("bookingsUpdateNote", "PATCH", Under(asked))
    BY DEF BookingsUpdateNote
  <2> HIDE DEF asked
  <2>3. Takings(BookingsUpdateNote, "PATCH", asked)
    BY <2>1, <2>2, Taken
  <2>4. /\ Takes(Routes[28], BookingsUpdateNote)
        /\ \A j \in 1 .. 27 : ~Takes(Routes[j], BookingsUpdateNote)
    BY <2>1, <2>3 DEF Takings
  <2>5. Handler(BookingsUpdateNote) = Routes[28].handler
    BY <2>4, Reached
  <2> QED
    BY <2>2, <2>5, Table DEF Ask, Route
<1>18. Handler(AvailabilityCreateBlocks) = AvailabilityCreateBlocks.name
  <2> DEFINE asked == <<"availability", "blocks">>
  <2>1. /\ asked \in Paths /\ Len(asked) = 2
        /\ asked[1] = "availability"
        /\ asked[2] = "blocks"
    BY DEF Paths, Segments, Param
  <2>2. AvailabilityCreateBlocks = Ask("availabilityCreateBlocks", "POST", Under(asked))
    BY DEF AvailabilityCreateBlocks
  <2> HIDE DEF asked
  <2>3. Takings(AvailabilityCreateBlocks, "POST", asked)
    BY <2>1, <2>2, Taken
  <2>4. /\ Takes(Routes[22], AvailabilityCreateBlocks)
        /\ \A j \in 1 .. 21 : ~Takes(Routes[j], AvailabilityCreateBlocks)
    BY <2>1, <2>3 DEF Takings
  <2>5. Handler(AvailabilityCreateBlocks) = Routes[22].handler
    BY <2>4, Reached
  <2> QED
    BY <2>2, <2>5, Table DEF Ask, Route
<1>19. Handler(AvailabilityRemoveBlock) = AvailabilityRemoveBlock.name
  <2> DEFINE asked == <<"availability", "blocks", "s">>
  <2>1. /\ asked \in Paths /\ Len(asked) = 3
        /\ asked[1] = "availability"
        /\ asked[2] = "blocks"
        /\ asked[3] = "s"
    BY DEF Paths, Segments, Param
  <2>2. AvailabilityRemoveBlock = Ask("availabilityRemoveBlock", "DELETE", Under(asked))
    BY DEF AvailabilityRemoveBlock
  <2> HIDE DEF asked
  <2>3. Takings(AvailabilityRemoveBlock, "DELETE", asked)
    BY <2>1, <2>2, Taken
  <2>4. /\ Takes(Routes[23], AvailabilityRemoveBlock)
        /\ \A j \in 1 .. 22 : ~Takes(Routes[j], AvailabilityRemoveBlock)
    BY <2>1, <2>3 DEF Takings
  <2>5. Handler(AvailabilityRemoveBlock) = Routes[23].handler
    BY <2>4, Reached
  <2> QED
    BY <2>2, <2>5, Table DEF Ask, Route
<1> QED
  BY <1>1, <1>2, <1>3, <1>4, <1>5, <1>6, <1>7, <1>8, <1>9, <1>10, <1>11, <1>12, <1>13, <1>14,
     <1>15, <1>16, <1>17, <1>18, <1>19, Zenon DEF Mutations

-----------------------------------------------------------------------------
(* Buttons.                                                                *)

\* What a button is, whatever it sends.
ButtonRecords == [sends : Seq(Mutations), writes : Resources, sets : SUBSET Queries,
                  refreshes : Seq(SUBSET Queries), always : SUBSET Queries,
                  pushes : SUBSET Screens, turns : SUBSET Screens]

LEMMA ButtonType ==
    ASSUME NEW sends \in Seq(Mutations), NEW writes \in Resources, NEW sets \in SUBSET Queries,
           NEW refreshes \in Seq(SUBSET Queries)
    PROVE  /\ Button(sends, writes, sets, refreshes) \in ButtonRecords
           /\ Button(sends, writes, sets, refreshes).sends = sends
           /\ Button(sends, writes, sets, refreshes).writes = writes
  BY DEF Button, ButtonRecords

LEMMA ButtonKept ==
    ASSUME NEW button \in ButtonRecords, NEW screens \in SUBSET Screens, NEW refresh \in SUBSET Queries
    PROVE  /\ Pushes(button, screens) \in ButtonRecords
           /\ Turns(button, screens) \in ButtonRecords
           /\ Shows(button, refresh) \in ButtonRecords
           /\ \A b \in {Pushes(button, screens), Turns(button, screens), Shows(button, refresh)} :
                  b.sends = button.sends /\ b.writes = button.writes
  BY DEF Pushes, Turns, Shows, ButtonRecords

LEMMA StaleType == \A request : Stale(request) \in SUBSET Queries
  BY DEF Stale

LEMMA Groups ==
    /\ <<>> \in Seq(SUBSET Queries)
    /\ \A group \in SUBSET Queries : <<group>> \in Seq(SUBSET Queries)
    /\ \A groups, more \in Seq(SUBSET Queries) : groups \o more \in Seq(SUBSET Queries)
  OBVIOUS

LEMMA OneRequest == \A request \in Mutations : <<request>> \in Seq(Mutations) /\ Len(<<request>>) = 1
  OBVIOUS

LEMMA FilesType == Files \in Seq(Mutations) /\ Len(Files) = 2 * MaxFiles
<1>1. MediaCreateUpload \in Mutations /\ MediaCompleteUpload \in Mutations
  BY DEF Mutations
<1>2. 2 * MaxFiles \in Nat
  BY FilesAssumption
<1> QED
  BY <1>1, <1>2 DEF Files

LEMMA Names ==
    /\ Queries = {"property", "rooms", "photos", "roomPhotos", "pricing", "availability",
                  "freeRooms", "bookings", "booking"}
    /\ Screens = {"bookings", "booking", "newBooking", "calendar", "selection", "stay", "quote",
                  "rooms", "room", "newRoom", "setup", "step", "photosStep", "review",
                  "newProperty", "today", "other"}
    /\ DOMAIN ButtonOf = {"status", "note", "book", "rate", "season", "block", "unblock",
                  "reorderRooms", "removeRoom", "saveRoom", "createRoom", "saveStep", "submit",
                  "createProperty"} \cup Grid \cup RoomGrid
  BY DEF Queries, QueryOf, Screens, ScreenOf, ButtonOf, Grid, RoomGrid

\* A button whose press sends something, all of it changing the same resource.
Sends(button, resource) ==
    button \in ButtonRecords /\ Len(button.sends) > 0 /\ button.writes = resource

\* A button that sends one request sends something.
LEMMA Plain ==
    ASSUME NEW request \in Mutations, NEW resource \in Resources, NEW sets \in SUBSET Queries,
           NEW refreshes \in Seq(SUBSET Queries)
    PROVE  Sends(Button(<<request>>, resource, sets, refreshes), resource)
<1> DEFINE sends == <<request>>
           button == Button(sends, resource, sets, refreshes)
<1>1. sends \in Seq(Mutations) /\ Len(sends) = 1
  BY OneRequest
<1> HIDE DEF sends
<1>2. button \in ButtonRecords /\ button.sends = sends /\ button.writes = resource
  BY <1>1, ButtonType
<1> HIDE DEF button
<1>3. Len(button.sends) = 1
  BY <1>1, <1>2
<1>4. Sends(button, resource)
  BY <1>2, <1>3 DEF Sends
<1> QED
  BY <1>4 DEF button, sends

LEMMA Onwards ==
    ASSUME NEW button, NEW resource, Sends(button, resource),
           NEW screens \in SUBSET Screens, NEW refresh \in SUBSET Queries
    PROVE  /\ Sends(Pushes(button, screens), resource)
           /\ Sends(Turns(button, screens), resource)
           /\ Sends(Shows(button, refresh), resource)
  BY ButtonKept DEF Sends

\* The buttons outside the galleries, one by one.
LEMMA Singles ==
    /\ Sends(ChangeStatus, "bookings")
    /\ Sends(UpdateNote, "notes")
    /\ Sends(TakeBooking, "bookings")
    /\ Sends(SetRate, "seasons")
    /\ Sends(LiftSeason, "seasons")
    /\ Sends(BlockDates, "blocks")
    /\ Sends(RemoveBlock, "blocks")
    /\ Sends(ReorderRooms, "rooms")
    /\ Sends(RemoveRoom, "rooms")
    /\ Sends(SaveRoom, "rooms")
    /\ Sends(CreateRoom, "rooms")
    /\ Sends(SaveStep, "property")
    /\ Sends(Submit, "property")
    /\ Sends(CreateProperty, "properties")
<1>1. /\ {"properties", "property", "rooms", "seasons", "bookings", "notes",
          "blocks"} \subseteq Resources
      /\ {"booking", "pricing", "rooms", "property"} \subseteq Queries
      /\ {"booking", "calendar", "rooms", "room", "step", "photosStep", "review",
          "other"} \subseteq Screens
  BY Names DEF Resources
<1>2. \A request \in Mutations, resource \in Resources, sets \in SUBSET Queries, refresh \in SUBSET Queries :
          /\ Sends(Button(<<request>>, resource, sets, <<>>), resource)
          /\ Sends(Button(<<request>>, resource, sets, <<refresh>>), resource)
  BY Plain, Groups
<1>3. \A request : Stale(request) \in SUBSET Queries
  BY StaleType
<1>4. Sends(ChangeStatus, "bookings")
  <2>1. BookingsChangeStatus \in Mutations
    BY DEF Mutations
  <2>2. Sends(Button(<<BookingsChangeStatus>>, "bookings", {"booking"},
                                                            <<Stale(BookingsList(<<>>))>>),
                                                            "bookings")
    BY <1>1, <1>2, <1>3, <2>1
  <2> QED
    BY <1>1, <1>3, <2>2, Onwards DEF ChangeStatus
<1>5. Sends(UpdateNote, "notes")
  <2>1. BookingsUpdateNote \in Mutations
    BY DEF Mutations
  <2>2. Sends(Button(<<BookingsUpdateNote>>, "notes", {"booking"},
                                                       <<Stale(BookingsList(<<>>))>>), "notes")
    BY <1>1, <1>2, <1>3, <2>1
  <2> QED
    BY <1>1, <1>3, <2>2, Onwards DEF UpdateNote
<1>6. Sends(TakeBooking, "bookings")
  <2>1. BookingsCreate \in Mutations
    BY DEF Mutations
  <2>2. Sends(Button(<<BookingsCreate>>, "bookings", {}, <<>>), "bookings")
    BY <1>1, <1>2, <1>3, <2>1
  <2> QED
    BY <1>1, <1>3, <2>2, Onwards DEF TakeBooking
<1>7. Sends(SetRate, "seasons")
  <2>1. PricingCreateOverride \in Mutations
    BY DEF Mutations
  <2>2. Sends(Button(<<PricingCreateOverride>>, "seasons", {"pricing"}, <<>>), "seasons")
    BY <1>1, <1>2, <1>3, <2>1
  <2> QED
    BY <1>1, <1>3, <2>2, Onwards DEF SetRate
<1>8. Sends(LiftSeason, "seasons")
  <2>1. PricingRemoveOverride \in Mutations
    BY DEF Mutations
  <2>2. Sends(Button(<<PricingRemoveOverride>>, "seasons", {"pricing"}, <<>>), "seasons")
    BY <1>1, <1>2, <1>3, <2>1
  <2> QED
    BY <1>1, <1>3, <2>2, Onwards DEF LiftSeason
<1>9. Sends(BlockDates, "blocks")
  <2>1. AvailabilityCreateBlocks \in Mutations
    BY DEF Mutations
  <2>2. Sends(Button(<<AvailabilityCreateBlocks>>, "blocks", {}, <<>>), "blocks")
    BY <1>1, <1>2, <1>3, <2>1
  <2> QED
    BY <1>1, <1>3, <2>2, Onwards DEF BlockDates
<1>10. Sends(RemoveBlock, "blocks")
  <2>1. AvailabilityRemoveBlock \in Mutations
    BY DEF Mutations
  <2>2. Sends(Button(<<AvailabilityRemoveBlock>>, "blocks", {}, <<>>), "blocks")
    BY <1>1, <1>2, <1>3, <2>1
  <2> QED
    BY <1>1, <1>3, <2>2, Onwards DEF RemoveBlock
<1>11. Sends(ReorderRooms, "rooms")
  <2>1. RoomsReorder \in Mutations
    BY DEF Mutations
  <2>2. Sends(Button(<<RoomsReorder>>, "rooms", {"rooms"}, <<Stale(PropertiesFindOne)>>), "rooms")
    BY <1>1, <1>2, <1>3, <2>1
  <2> QED
    BY <1>1, <1>3, <2>2, Onwards DEF ReorderRooms
<1>12. Sends(RemoveRoom, "rooms")
  <2>1. RoomsRemove \in Mutations
    BY DEF Mutations
  <2>2. Sends(Button(<<RoomsRemove>>, "rooms", {"rooms"}, <<Stale(PropertiesFindOne)>>), "rooms")
    BY <1>1, <1>2, <1>3, <2>1
  <2> QED
    BY <1>1, <1>3, <2>2, Onwards DEF RemoveRoom
<1>13. Sends(SaveRoom, "rooms")
  <2>1. RoomsUpdate \in Mutations
    BY DEF Mutations
  <2>2. Sends(Button(<<RoomsUpdate>>, "rooms", {}, <<Stale(RoomsList) \cup Stale(PropertiesFindOne)>>), "rooms")
    BY <1>1, <1>2, <1>3, <2>1
  <2> QED
    BY <1>1, <1>3, <2>2, Onwards DEF SaveRoom
<1>14. Sends(CreateRoom, "rooms")
  <2>1. RoomsCreate \in Mutations
    BY DEF Mutations
  <2>2. Sends(Button(<<RoomsCreate>>, "rooms", {}, <<Stale(RoomsList) \cup Stale(PropertiesFindOne)>>), "rooms")
    BY <1>1, <1>2, <1>3, <2>1
  <2> QED
    BY <1>1, <1>3, <2>2, Onwards DEF CreateRoom
<1>15. Sends(SaveStep, "property")
  <2>1. PropertiesUpdate \in Mutations
    BY DEF Mutations
  <2>2. Sends(Button(<<PropertiesUpdate>>, "property", {"property"}, <<Stale(PropertiesList)>>),
                                                        "property")
    BY <1>1, <1>2, <1>3, <2>1
  <2> QED
    BY <1>1, <1>3, <2>2, Onwards DEF SaveStep
<1>16. Sends(Submit, "property")
  <2>1. PropertiesSubmitForReview \in Mutations
    BY DEF Mutations
  <2>2. Sends(Button(<<PropertiesSubmitForReview>>, "property", {"property"},
                                                                 <<Stale(PropertiesList)>>),
                                                                 "property")
    BY <1>1, <1>2, <1>3, <2>1
  <2> QED
    BY <1>1, <1>3, <2>2, Onwards DEF Submit
<1>17. Sends(CreateProperty, "properties")
  <2>1. PropertiesCreate \in Mutations
    BY DEF Mutations
  <2>2. Sends(Button(<<PropertiesCreate>>, "properties", {}, <<Stale(PropertiesList)>>), "properties")
    BY <1>1, <1>2, <1>3, <2>1
  <2> QED
    BY <1>1, <1>3, <2>2, Onwards DEF CreateProperty
<1> QED
  BY <1>4, <1>5, <1>6, <1>7, <1>8, <1>9, <1>10, <1>11, <1>12, <1>13, <1>14, <1>15, <1>16, <1>17

\* The buttons of a gallery, the one of the property and the one of a room.
LEMMA Grids ==
    ASSUME NEW owner \in {"photos", "roomPhotos"}
    PROVE  /\ Sends(Upload(owner), owner) /\ Sends(ReorderPhotos(owner), owner)
           /\ Sends(SetCover(owner), owner) /\ Sends(RemovePhoto(owner), owner)
<1>1. owner \in Resources /\ {owner} \in SUBSET Queries /\ {} \in SUBSET Queries
  BY Names DEF Resources
<1>2. Checklist(owner) \in Seq(SUBSET Queries)
  BY StaleType, Groups DEF Checklist
<1>3. {MediaReorder, MediaSetCover, MediaRemove} \subseteq Mutations
  BY DEF Mutations
<1>4. Sends(ReorderPhotos(owner), owner)
  BY <1>1, <1>2, <1>3, Plain DEF ReorderPhotos
<1>5. Sends(SetCover(owner), owner)
  BY <1>1, <1>2, <1>3, Plain DEF SetCover
<1>6. Sends(RemovePhoto(owner), owner)
  BY <1>1, <1>2, <1>3, Plain DEF RemovePhoto
<1>7. Sends(Upload(owner), owner)
  <2> DEFINE refreshes == <<Stale(Photos(owner))>> \o Checklist(owner)
  <2>1. refreshes \in Seq(SUBSET Queries)
    <3>1. <<Stale(Photos(owner))>> \in Seq(SUBSET Queries)
      BY StaleType, Groups
    <3> QED
      BY <1>2, <3>1, Groups, Zenon
  <2>2. Upload(owner) = Button(Files, owner, {}, refreshes)
    BY DEF Upload
  <2> HIDE DEF refreshes
  <2>3. Upload(owner) \in ButtonRecords /\ Upload(owner).sends = Files /\ Upload(owner).writes = owner
    BY <1>1, <2>1, <2>2, FilesType, ButtonType
  <2>4. Len(Files) > 0
    BY FilesType, FilesAssumption
  <2> QED
    BY <2>3, <2>4 DEF Sends
<1> QED
  BY <1>4, <1>5, <1>6, <1>7

\* Every button sends at least one request, and the buttons of a list change the same.
LEMMA Buttons ==
    /\ \A b \in DOMAIN ButtonOf : Sends(ButtonOf[b], ButtonOf[b].writes)
    /\ \A b \in Grid : ButtonOf[b].writes = "photos"
    /\ \A b \in RoomGrid : ButtonOf[b].writes = "roomPhotos"
    /\ \A b \in RoomRows : ButtonOf[b].writes = "rooms"
<1>1. /\ ButtonOf["status"] = ChangeStatus /\ ButtonOf["note"] = UpdateNote
      /\ ButtonOf["book"] = TakeBooking /\ ButtonOf["rate"] = SetRate
      /\ ButtonOf["season"] = LiftSeason /\ ButtonOf["block"] = BlockDates
      /\ ButtonOf["unblock"] = RemoveBlock /\ ButtonOf["reorderRooms"] = ReorderRooms
      /\ ButtonOf["removeRoom"] = RemoveRoom /\ ButtonOf["saveRoom"] = SaveRoom
      /\ ButtonOf["createRoom"] = CreateRoom /\ ButtonOf["saveStep"] = SaveStep
      /\ ButtonOf["submit"] = Submit /\ ButtonOf["createProperty"] = CreateProperty
  BY DEF ButtonOf
<1>2. /\ ButtonOf["upload"] = Upload("photos") /\ ButtonOf["reorder"] = ReorderPhotos("photos")
      /\ ButtonOf["cover"] = SetCover("photos") /\ ButtonOf["remove"] = RemovePhoto("photos")
      /\ ButtonOf["roomUpload"] = Upload("roomPhotos")
      /\ ButtonOf["roomReorder"] = ReorderPhotos("roomPhotos")
      /\ ButtonOf["roomCover"] = SetCover("roomPhotos")
      /\ ButtonOf["roomRemove"] = RemovePhoto("roomPhotos")
  BY DEF ButtonOf
<1>3. \A b \in Grid : Sends(ButtonOf[b], "photos")
  BY <1>2, Grids DEF Grid
<1>4. \A b \in RoomGrid : Sends(ButtonOf[b], "roomPhotos")
  BY <1>2, Grids DEF RoomGrid
<1>5. \A b \in RoomRows : Sends(ButtonOf[b], "rooms")
  BY <1>1, Singles DEF RoomRows
<1>6. \A b \in DOMAIN ButtonOf \ (Grid \cup RoomGrid) : \E resource : Sends(ButtonOf[b], resource)
  BY <1>1, Singles, Names
<1>7. \A button, resource :
             Sends(button, resource) => Sends(button, button.writes) /\ button.writes = resource
  BY DEF Sends
<1>8. \A b \in DOMAIN ButtonOf : Sends(ButtonOf[b], ButtonOf[b].writes)
  BY <1>3, <1>4, <1>6, <1>7
<1> QED
  BY <1>3, <1>4, <1>5, <1>7, <1>8

-----------------------------------------------------------------------------
(* Presses.                                                                *)

\* Where a request can be, and the lists whose buttons wait for one another (isBusy).
Stages == {"asked", "answered", "refused", "settling", "failing", "done", "failed"}
Lists  == {Grid, RoomGrid, RoomRows}

\* What was done for a press so far is the beginning of what its button sends.
Follows(r) ==
    /\ Len(r.did) = r.step /\ r.step <= Len(ButtonOf[r.button].sends)
    /\ \A n \in 1 .. r.step : r.did[n] = Handler(ButtonOf[r.button].sends[n])
    /\ r.stage = "asked" => r.step < Len(ButtonOf[r.button].sends)
    /\ r.loose = TRUE => /\ r.step < Len(ButtonOf[r.button].sends)
                         /\ r.stage \in {"refused", "failing", "failed"}

\* A request has seen no change that was not made yet.
IsPast(r) == r.at <= server[ButtonOf[r.button].writes]

\* Two presses on one list, the host still there: the earlier is over, and saw less.
InOrder(r, s) ==
    (\E list \in Lists : {r.button, s.button} \subseteq list) /\ r.near = "button" /\ s.near = "button"
    => IsOver(r) /\ (r.stage = "done" /\ s.stage = "answered" => r.at < s.at)

\* Everything the device remembers of a press.
Requests == [button : DOMAIN ButtonOf, stage : Stages, near : {"button", "page", "gone"},
             did : Seq({request.name : request \in Mutations}), step : Nat, loose : BOOLEAN, at : Nat,
             answer : SUBSET [Resources -> Nat], rest : Seq(SUBSET Queries),
             waits : SUBSET Queries, overtaken : SUBSET Queries]

\* What a press did follows its button, saw only changes that were made, and came in turn.
PressInv ==
    /\ server \in [Resources -> Nat] /\ pressed \in Seq(Requests)
    /\ \A i \in DOMAIN pressed : Follows(pressed[i]) /\ IsPast(pressed[i])
    /\ \A i, j \in DOMAIN pressed : i < j => InOrder(pressed[i], pressed[j])

\* Only what surrounds a request changes.
Kept(r, s) ==
    /\ s.button = r.button /\ s.stage = r.stage /\ s.did = r.did /\ s.step = r.step
    /\ s.loose = r.loose /\ s.at = r.at /\ (s.near = "button" => r.near = "button")

\* A request goes on: one that is over stays over, and an answer has seen every change.
Goes(r, s) ==
    /\ s.button = r.button /\ (s.near = "button" => r.near = "button")
    /\ IsOver(r) => s.stage = r.stage
    /\ s.stage = "done" => r.stage \in {"done", "settling"}
    /\ r.stage = "done" => s.at = r.at
    /\ s.stage = "answered" => \/ r.stage = "answered" /\ s.at = r.at
                               \/ s.at > server[ButtonOf[r.button].writes]

LEMMA SendsType ==
    ASSUME NEW b \in DOMAIN ButtonOf
    PROVE  /\ ButtonOf[b].sends \in Seq(Mutations) /\ Len(ButtonOf[b].sends) \in Nat
           /\ Len(ButtonOf[b].sends) > 0
           /\ ButtonOf[b].writes \in Resources /\ ButtonOf[b].sets \in SUBSET Queries
           /\ ButtonOf[b].refreshes \in Seq(SUBSET Queries) /\ ButtonOf[b].always \in SUBSET Queries
  BY Buttons DEF Sends, ButtonRecords

LEMMA KeptGoes ==
    ASSUME NEW r \in Requests, NEW s, Kept(r, s)
    PROVE  Goes(r, s)
  BY DEF Kept, Goes, IsOver

LEMMA OrderKept ==
    ASSUME PressInv, NEW i \in DOMAIN pressed, NEW j \in DOMAIN pressed, i < j,
           NEW r \in Requests, NEW s \in Requests, Goes(pressed[i], r), Goes(pressed[j], s)
    PROVE  InOrder(r, s)
<1> SUFFICES ASSUME NEW list \in Lists, {r.button, s.button} \subseteq list,
                    r.near = "button", s.near = "button"
             PROVE  IsOver(r) /\ (r.stage = "done" /\ s.stage = "answered" => r.at < s.at)
  BY DEF InOrder
<1> DEFINE a == pressed[i]
           b == pressed[j]
<1>1. a \in Requests /\ b \in Requests /\ InOrder(a, b) /\ IsPast(a)
      /\ Goes(a, r) /\ Goes(b, s) /\ server \in [Resources -> Nat]
  BY DEF PressInv
<1> HIDE DEF a, b
<1>2. r.button = a.button /\ s.button = b.button /\ a.near = "button" /\ b.near = "button"
  BY <1>1 DEF Goes
<1>3. IsOver(a) /\ (a.stage = "done" /\ b.stage = "answered" => a.at < b.at)
  BY <1>1, <1>2 DEF InOrder
<1>4. r.stage = a.stage /\ IsOver(r)
  BY <1>1, <1>3 DEF Goes, IsOver
<1>5. ButtonOf[a.button].writes = ButtonOf[b.button].writes /\ ButtonOf[a.button].writes \in Resources
  BY <1>1, <1>2, Buttons, SendsType DEF Lists, Requests
<1>6. ASSUME r.stage = "done", s.stage = "answered"
      PROVE  r.at < s.at
  <2>1. r.at = a.at /\ a.stage = "done"
    BY <1>1, <1>4, <1>6 DEF Goes
  <2>2. CASE b.stage = "answered" /\ s.at = b.at
    BY <1>3, <2>1, <2>2
  <2>3. CASE s.at > server[ButtonOf[b.button].writes]
    <3>1. a.at <= server[ButtonOf[b.button].writes]
      BY <1>1, <1>5 DEF IsPast
    <3>2. a.at \in Nat /\ s.at \in Nat /\ server[ButtonOf[b.button].writes] \in Nat
      BY <1>1, <1>5 DEF Requests
    <3> QED
      BY <2>1, <2>3, <3>1, <3>2
  <2> QED
    BY <1>1, <1>6, <2>2, <2>3 DEF Goes
<1> QED
  BY <1>4, <1>6

LEMMA KeptFollows ==
    ASSUME NEW r \in Requests, NEW s, Follows(r), Kept(r, s)
    PROVE  Follows(s)
  BY DEF Kept, Follows

\* A step in which every request goes on, and follows what its button sends.
LEMMA Steps ==
    ASSUME PressInv, server' \in [Resources -> Nat], pressed' \in Seq(Requests),
           \A resource \in Resources : server[resource] <= server'[resource],
           DOMAIN pressed' = DOMAIN pressed,
           \A i \in DOMAIN pressed : Goes(pressed[i], pressed'[i]) /\ Follows(pressed'[i]),
           \A i \in DOMAIN pressed : pressed'[i].at = pressed[i].at \/ IsPast(pressed[i])'
    PROVE  PressInv'
<1>1. \A i \in DOMAIN pressed' : Follows(pressed[i])' /\ IsPast(pressed[i])'
  <2> SUFFICES ASSUME NEW i \in DOMAIN pressed PROVE Follows(pressed[i])' /\ IsPast(pressed[i])'
    OBVIOUS
  <2>1. Follows(pressed[i])'
    BY DEF Follows
  <2>2. CASE pressed'[i].at = pressed[i].at
    <3> DEFINE r == pressed[i]
               s == pressed'[i]
    <3>1. r \in Requests /\ s \in Requests /\ r.button = s.button /\ r.at = s.at /\ IsPast(r)
      BY <2>2 DEF PressInv, Goes
    <3> HIDE DEF r, s
    <3>2. ButtonOf[r.button].writes \in Resources
      BY <3>1, SendsType DEF Requests
    <3>3. /\ server[ButtonOf[r.button].writes] \in Nat /\ server'[ButtonOf[r.button].writes] \in Nat
          /\ server[ButtonOf[r.button].writes] <= server'[ButtonOf[r.button].writes]
      BY <3>2 DEF PressInv
    <3>4. s.at \in Nat /\ s.at <= server[ButtonOf[r.button].writes]
      BY <3>1 DEF IsPast, Requests
    <3>5. s.at <= server'[ButtonOf[s.button].writes]
      BY <3>1, <3>3, <3>4
    <3> QED
      BY <3>5 DEF IsPast, s
  <2> QED
    BY <2>1, <2>2
<1>2. \A i, j \in DOMAIN pressed' : i < j => InOrder(pressed[i], pressed[j])'
  <2> SUFFICES ASSUME NEW i \in DOMAIN pressed, NEW j \in DOMAIN pressed, i < j
               PROVE  InOrder(pressed'[i], pressed'[j])
    BY DEF InOrder, IsOver
  <2>1. pressed'[i] \in Requests /\ pressed'[j] \in Requests
    OBVIOUS
  <2> QED
    BY <2>1, OrderKept
<1> QED
  BY <1>1, <1>2 DEF PressInv

LEMMA Calm ==
    ASSUME PressInv, server' \in [Resources -> Nat],
           \A resource \in Resources : server[resource] <= server'[resource],
           pressed' \in Seq(Requests), DOMAIN pressed' = DOMAIN pressed,
           \A i \in DOMAIN pressed : Kept(pressed[i], pressed'[i])
    PROVE  PressInv'
<1>1. \A i \in DOMAIN pressed : pressed[i] \in Requests /\ Follows(pressed[i])
  BY DEF PressInv
<1>2. \A i \in DOMAIN pressed : Goes(pressed[i], pressed'[i]) /\ Follows(pressed'[i])
  BY <1>1, KeptGoes, KeptFollows
<1>3. \A i \in DOMAIN pressed : pressed'[i].at = pressed[i].at
  BY DEF Kept
<1> QED
  BY <1>2, <1>3, Steps

\* Nothing about the requests changes.
LEMMA Same ==
    ASSUME PressInv, UNCHANGED pressed, server' \in [Resources -> Nat],
           \A resource \in Resources : server[resource] <= server'[resource]
    PROVE  PressInv'
  BY Calm DEF Kept, PressInv

LEMMA StillServer ==
    ASSUME PressInv, UNCHANGED server
    PROVE  /\ server' \in [Resources -> Nat]
           /\ \A resource \in Resources : server[resource] <= server'[resource]
  BY DEF PressInv

\* A screen is left: near and waits of every request may change.
LEMMA LeftKept ==
    ASSUME NEW requests \in Seq(Requests), NEW s
    PROVE  /\ Left(requests, s) \in Seq(Requests) /\ DOMAIN Left(requests, s) = DOMAIN requests
           /\ \A i \in DOMAIN requests : Kept(requests[i], Left(requests, s)[i])
<1> DEFINE left(r) == [r EXCEPT !.near = IF PageOf(s) # PageOf(screen) THEN "gone"
                                        ELSE IF @ = "button" /\ r.button # "saveStep" THEN "page" ELSE @,
                               !.waits = StillAwaited(@, s)]
<1>1. ASSUME NEW r \in Requests
      PROVE  left(r) \in Requests /\ Kept(r, left(r))
  <2>1. StillAwaited(r.waits, s) \in SUBSET Queries
    BY DEF StillAwaited, Requests
  <2> QED
    BY <2>1 DEF Requests, Kept
<1>2. Left(requests, s) = [i \in DOMAIN requests |-> left(requests[i])]
  BY DEF Left
<1> HIDE DEF left
<1>3. \A i \in DOMAIN requests : requests[i] \in Requests
  OBVIOUS
<1> QED
  BY <1>1, <1>2, <1>3

LEMMA Mapped ==
    ASSUME NEW S, NEW f \in Seq(S), NEW g, g = [i \in DOMAIN f |-> g[i]], \A i \in DOMAIN f : g[i] \in S
    PROVE  g \in Seq(S) /\ DOMAIN g = DOMAIN f
  OBVIOUS

\* A read that requests wait for is over, or given up.
LEMMA EndedKept ==
    ASSUME PressInv, NEW qs, NEW new, new = [i \in DOMAIN pressed |-> [pressed[i] EXCEPT !.waits = @ \ qs]]
    PROVE  /\ new \in Seq(Requests) /\ DOMAIN new = DOMAIN pressed
           /\ \A i \in DOMAIN pressed : Kept(pressed[i], new[i])
<1> DEFINE ended(r) == [r EXCEPT !.waits = @ \ qs]
<1>1. ASSUME NEW r \in Requests
      PROVE  ended(r) \in Requests /\ Kept(r, ended(r))
  BY DEF Requests, Kept
<1>2. new = [i \in DOMAIN pressed |-> ended(pressed[i])]
  OBVIOUS
<1> HIDE DEF ended
<1>3. pressed \in Seq(Requests) /\ \A i \in DOMAIN pressed : pressed[i] \in Requests
  BY DEF PressInv
<1>4. \A i \in DOMAIN pressed : new[i] \in Requests /\ Kept(pressed[i], new[i])
  BY <1>1, <1>2, <1>3
<1>5. new = [i \in DOMAIN pressed |-> new[i]] /\ \A i \in DOMAIN pressed : new[i] \in Requests
  BY <1>2, <1>4
<1>6. new \in Seq(Requests) /\ DOMAIN new = DOMAIN pressed
  BY <1>3, <1>5, Mapped
<1> QED
  BY <1>4, <1>6

LEMMA InitPress == ASSUME Init PROVE PressInv
<1>1. server \in [Resources -> Nat]
  <2>1. server = [resource \in Resources |-> 0]
    BY DEF Init
  <2> QED
    BY <2>1
<1>2. pressed = <<>>
  BY DEF Init
<1>3. pressed \in Seq(Requests) /\ DOMAIN pressed = {}
  BY <1>2
<1> QED
  BY <1>1, <1>3 DEF PressInv

LEMMA ElsewherePress == ASSUME PressInv, Elsewhere PROVE PressInv'
<1>1. PICK resource : server' = [server EXCEPT ![resource] = @ + 1] /\ UNCHANGED pressed
  BY DEF Elsewhere
<1>2. /\ server' \in [Resources -> Nat]
      /\ \A r \in Resources : server[r] <= server'[r]
  <2>1. server \in [Resources -> Nat]
    BY DEF PressInv
  <2>2. \A r \in Resources : server'[r] = IF r = resource THEN server[r] + 1 ELSE server[r]
    BY <1>1, <2>1
  <2>3. \A r \in Resources : server'[r] \in Nat /\ server[r] <= server'[r]
    BY <2>1, <2>2
  <2>4. server' = [r \in Resources |-> server'[r]]
    BY <1>1, <2>1
  <2> QED
    BY <2>3, <2>4
<1> QED
  BY <1>1, <1>2, Same

LEMMA ScreensPress ==
    ASSUME PressInv, NEW s, Arrive \/ Open(s) \/ Turn(s)
    PROVE  PressInv'
<1>1. CASE Open(s)
  BY <1>1, StillServer, Same DEF Open
<1>2. ASSUME NEW to, NEW c, Show(to, c, pressed), UNCHANGED server
      PROVE  PressInv'
  <2>1. pressed' = Left(pressed, to) /\ pressed \in Seq(Requests)
    BY <1>2 DEF Show, PressInv
  <2> QED
    BY <1>2, <2>1, LeftKept, StillServer, Calm
<1>3. CASE Arrive
  BY <1>2, <1>3 DEF Arrive
<1>4. CASE Turn(s)
  BY <1>2, <1>4 DEF Turn
<1> QED
  BY <1>1, <1>3, <1>4

LEMMA FetchesPress ==
    ASSUME PressInv, NEW q, Refetch(q) \/ Fetches(q)
    PROVE  PressInv'
<1>1. CASE Refetch(q) \/ FetchRead(q)
  BY <1>1, StillServer, Same DEF Refetch, FetchRead
<1>2. CASE FetchLands(q) \/ FetchFails(q)
  <2>1. Ended(q) /\ UNCHANGED server
    BY <1>2 DEF FetchLands, FetchFails
  <2> DEFINE new == pressed'
  <2>2. new = [i \in DOMAIN pressed |-> [pressed[i] EXCEPT !.waits = @ \ {q}]]
    BY <2>1 DEF Ended
  <2> HIDE DEF new
  <2>3. /\ new \in Seq(Requests) /\ DOMAIN new = DOMAIN pressed
        /\ \A i \in DOMAIN pressed : Kept(pressed[i], new[i])
    BY <2>2, EndedKept
  <2> QED
    BY <2>1, <2>3, StillServer, Calm DEF new
<1> QED
  BY <1>1, <1>2 DEF Fetches

LEMMA Appended ==
    ASSUME NEW S, NEW s \in Seq(S), NEW e \in S
    PROVE  /\ Append(s, e) \in Seq(S) /\ Len(s) \in Nat
           /\ DOMAIN s = 1 .. Len(s) /\ DOMAIN Append(s, e) = 1 .. (Len(s) + 1)
           /\ \A i \in 1 .. Len(s) : Append(s, e)[i] = s[i]
           /\ Append(s, e)[Len(s) + 1] = e
  OBVIOUS

LEMMA AskedType ==
    ASSUME NEW b \in DOMAIN ButtonOf
    PROVE  Asked(b) \in Requests /\ Follows(Asked(b)) /\ Asked(b).at = 0 /\ Asked(b).button = b
           /\ Asked(b).stage = "asked"
<1> DEFINE r == Asked(b)
<1>1. /\ r.button = b /\ r.stage = "asked" /\ r.near = "button" /\ r.did = <<>> /\ r.step = 0
      /\ r.loose = FALSE /\ r.at = 0
  BY DEF Asked
<1>2. Follows(r)
  <2>1. Len(r.did) = 0 /\ 0 < Len(ButtonOf[b].sends) /\ Len(ButtonOf[b].sends) \in Nat
    BY <1>1, SendsType
  <2> HIDE DEF r
  <2> QED
    BY <1>1, <2>1 DEF Follows
<1>3. r \in Requests
  BY DEF Asked, Requests, Stages
<1> QED
  BY <1>1, <1>2, <1>3

\* A press: its button is not waiting, so what the list sent before is over.
LEMMA PressPress ==
    ASSUME PressInv, NEW b \in DOMAIN ButtonOf, Press(b)
    PROVE  PressInv'
<1> DEFINE old == [i \in DOMAIN pressed |-> [pressed[i] EXCEPT !.waits = @ \ ButtonOf[b].always]]
           n   == Len(pressed)
<1>1. pressed' = Append(old, Asked(b)) /\ ~Disabled(b) /\ UNCHANGED server
  BY DEF Press
<1>2. /\ old \in Seq(Requests) /\ DOMAIN old = DOMAIN pressed
      /\ \A i \in DOMAIN pressed : Kept(pressed[i], old[i])
  BY EndedKept
<1> HIDE DEF old
<1>3. n \in Nat /\ DOMAIN pressed = 1 .. n /\ Len(old) = n
  BY <1>2 DEF PressInv
<1> HIDE DEF n
<1>4. Asked(b) \in Requests /\ Follows(Asked(b)) /\ Asked(b).at = 0 /\ Asked(b).button = b
      /\ Asked(b).stage = "asked"
  BY AskedType
<1>5. /\ pressed' \in Seq(Requests) /\ DOMAIN pressed' = 1 .. (n + 1)
      /\ \A i \in 1 .. n : pressed'[i] = old[i]
      /\ pressed'[n + 1] = Asked(b)
  BY <1>1, <1>2, <1>3, <1>4, Appended
<1>6. \A i \in 1 .. n : pressed[i] \in Requests /\ old[i] \in Requests
                        /\ Follows(old[i]) /\ IsPast(old[i]) /\ Goes(pressed[i], old[i])
  <2> SUFFICES ASSUME NEW i \in 1 .. n
               PROVE  pressed[i] \in Requests /\ old[i] \in Requests
                      /\ Follows(old[i]) /\ IsPast(old[i]) /\ Goes(pressed[i], old[i])
    OBVIOUS
  <2>1. pressed[i] \in Requests /\ old[i] \in Requests /\ Kept(pressed[i], old[i])
        /\ Follows(pressed[i]) /\ IsPast(pressed[i])
    BY <1>2, <1>3 DEF PressInv
  <2>2. IsPast(old[i])
    BY <2>1 DEF Kept, IsPast
  <2> QED
    BY <2>1, <2>2, KeptGoes, KeptFollows
<1>7. IsPast(Asked(b))
  <2>1. server[ButtonOf[b].writes] \in Nat
    BY SendsType DEF PressInv
  <2> QED
    BY <1>4, <2>1 DEF IsPast
<1>8. \A i \in DOMAIN pressed' : Follows(pressed[i])' /\ IsPast(pressed[i])'
  <2> SUFFICES ASSUME NEW i \in 1 .. (n + 1)
               PROVE  Follows(pressed'[i]) /\ IsPast(pressed'[i])
    BY <1>1, <1>5 DEF Follows, IsPast
  <2>1. i \in 1 .. n \/ i = n + 1
    BY <1>3
  <2> QED
    BY <1>4, <1>5, <1>6, <1>7, <2>1
<1>9. \A i \in 1 .. n : InOrder(old[i], Asked(b))
  <2> SUFFICES ASSUME NEW i \in 1 .. n, NEW list \in Lists, {old[i].button, b} \subseteq list,
                      old[i].near = "button"
               PROVE  IsOver(old[i])
    BY <1>4 DEF InOrder
  <2>1. pressed[i].near = "button" /\ pressed[i].button = old[i].button
        /\ pressed[i].stage = old[i].stage /\ i \in DOMAIN pressed
    BY <1>2, <1>3 DEF Kept
  <2>2. pressed[i].button \in Group(b)
    BY <2>1 DEF Group, Lists
  <2>3. IsOver(pressed[i])
    BY <1>1, <2>1, <2>2 DEF Disabled
  <2> QED
    BY <2>1, <2>3 DEF IsOver
<1>10. \A i, j \in DOMAIN pressed' : i < j => InOrder(pressed[i], pressed[j])'
  <2> SUFFICES ASSUME NEW i \in 1 .. (n + 1), NEW j \in 1 .. (n + 1), i < j
               PROVE  InOrder(pressed'[i], pressed'[j])
    BY <1>5 DEF InOrder, IsOver
  <2>1. i \in 1 .. n /\ (j \in 1 .. n \/ j = n + 1)
    BY <1>3
  <2>2. CASE j = n + 1
    BY <1>5, <1>9, <2>1, <2>2
  <2>3. CASE j \in 1 .. n
    <3>1. InOrder(old[i], old[j])
      BY <1>3, <1>6, <2>1, <2>3, OrderKept
    <3> QED
      BY <1>5, <2>1, <2>3, <3>1
  <2> QED
    BY <2>1, <2>2, <2>3
<1> QED
  BY <1>1, <1>5, <1>8, <1>10 DEF PressInv

\* One request goes on, and the others are kept.
LEMMA OneGoes ==
    ASSUME PressInv, server' \in [Resources -> Nat],
           \A resource \in Resources : server[resource] <= server'[resource],
           NEW i \in DOMAIN pressed, pressed' \in Seq(Requests), DOMAIN pressed' = DOMAIN pressed,
           \A j \in DOMAIN pressed \ {i} : Kept(pressed[j], pressed'[j]),
           Goes(pressed[i], pressed'[i]), Follows(pressed'[i]),
           pressed'[i].at = pressed[i].at \/ IsPast(pressed[i])'
    PROVE  PressInv'
<1>1. \A j \in DOMAIN pressed : pressed[j] \in Requests /\ Follows(pressed[j])
  BY DEF PressInv
<1>2. \A j \in DOMAIN pressed : Goes(pressed[j], pressed'[j]) /\ Follows(pressed'[j])
  BY <1>1, KeptGoes, KeptFollows
<1>3. \A j \in DOMAIN pressed : pressed'[j].at = pressed[j].at \/ IsPast(pressed[j])'
  BY DEF Kept
<1> QED
  BY <1>2, <1>3, Steps

\* The same, when only one request is written.
LEMMA OneWritten ==
    ASSUME PressInv, NEW i \in DOMAIN pressed, NEW s, s \in Requests,
           NEW new, new = [pressed EXCEPT ![i] = s]
    PROVE  /\ new \in Seq(Requests) /\ DOMAIN new = DOMAIN pressed /\ new[i] = s
           /\ \A j \in DOMAIN pressed \ {i} : Kept(pressed[j], new[j])
  BY DEF PressInv, Kept

\* One request changes its stage, its answer or what it waits for.
LEMMA StagePress ==
    ASSUME PressInv, UNCHANGED server, NEW i \in DOMAIN pressed, NEW s, s \in Requests,
           pressed' = [pressed EXCEPT ![i] = s],
           Goes(pressed[i], s), Follows(s), s.at = pressed[i].at
    PROVE  PressInv'
<1> DEFINE new == pressed'
<1>1. new = [pressed EXCEPT ![i] = s]
  OBVIOUS
<1> HIDE DEF new
<1>2. /\ new \in Seq(Requests) /\ DOMAIN new = DOMAIN pressed /\ new[i] = s
      /\ \A j \in DOMAIN pressed \ {i} : Kept(pressed[j], new[j])
  BY <1>1, OneWritten
<1> QED
  BY <1>2, StillServer, OneGoes DEF new

\* The API turns a request away: nothing is done.
LEMMA TurnedAwayPress ==
    ASSUME PressInv, NEW i \in DOMAIN pressed, pressed[i].stage = "asked", TurnedAway(i)
    PROVE  PressInv'
<1> DEFINE r == pressed[i]
           s == [r EXCEPT !.stage = "refused"]
<1>1. r \in Requests /\ Follows(r)
  BY DEF PressInv
<1>2. pressed' = [pressed EXCEPT ![i] = s] /\ UNCHANGED server
  BY DEF TurnedAway
<1>3. r.stage = "asked"
  OBVIOUS
<1> HIDE DEF r
<1>4. /\ s \in Requests /\ s.stage = "refused" /\ s.button = r.button /\ s.near = r.near
      /\ s.did = r.did /\ s.step = r.step /\ s.loose = r.loose /\ s.at = r.at
  BY <1>1 DEF Requests, Stages
<1> HIDE DEF s
<1>5. Goes(r, s)
  BY <1>3, <1>4 DEF Goes, IsOver
<1>6. Follows(s)
  BY <1>1, <1>3, <1>4 DEF Follows
<1> QED
  BY <1>2, <1>4, <1>5, <1>6, StagePress DEF r

\* A request or its answer is lost: at most the request is still to come.
LEMMA LosePress ==
    ASSUME PressInv, NEW i \in DOMAIN pressed, Lose(i)
    PROVE  PressInv'
<1> DEFINE r == pressed[i]
           asked == (r.stage = "asked")
           a == [r EXCEPT !.stage = "refused"]
           b == [a EXCEPT !.loose = asked]
           s == [b EXCEPT !.answer = {}]
<1>1. r \in Requests /\ Follows(r)
  BY DEF PressInv
<1>2. pressed' = [pressed EXCEPT ![i] = s] /\ UNCHANGED server
  BY DEF Lose, GivenUp, PressInv
<1>3. r.stage \in {"asked", "answered"}
  BY DEF Lose
<1>4. asked \in BOOLEAN /\ (asked = TRUE => r.stage = "asked")
  OBVIOUS
<1> HIDE DEF r, asked
<1>5. /\ a \in Requests /\ a.stage = "refused" /\ a.button = r.button /\ a.near = r.near
      /\ a.did = r.did /\ a.step = r.step /\ a.at = r.at
  BY <1>1 DEF Requests, Stages
<1> HIDE DEF a
<1>6. /\ b \in Requests /\ b.stage = "refused" /\ b.button = r.button /\ b.near = r.near
      /\ b.did = r.did /\ b.step = r.step /\ b.at = r.at /\ b.loose = asked
  BY <1>4, <1>5 DEF Requests
<1> HIDE DEF b
<1>7. /\ s \in Requests /\ s.stage = "refused" /\ s.button = r.button /\ s.near = r.near
      /\ s.did = r.did /\ s.step = r.step /\ s.at = r.at /\ s.loose = asked
  BY <1>6 DEF Requests
<1> HIDE DEF s
<1>8. Goes(r, s)
  BY <1>3, <1>7 DEF Goes, IsOver
<1>9. Follows(s)
  BY <1>1, <1>4, <1>7 DEF Follows
<1> QED
  BY <1>2, <1>7, <1>8, <1>9, StagePress DEF r

\* Another answer is overtaken.
LEMMA OvertakenKept ==
    ASSUME NEW r \in Requests, NEW qs \in SUBSET Queries
    PROVE  RequestOvertaken(r, qs) \in Requests /\ Kept(r, RequestOvertaken(r, qs))
  BY DEF RequestOvertaken, Requests, Kept

LEMMA GroupsType ==
    ASSUME NEW groups \in Seq(SUBSET Queries), groups # <<>>
    PROVE  Head(groups) \in SUBSET Queries /\ Tail(groups) \in Seq(SUBSET Queries)
  OBVIOUS

\* onSuccess, onError and onSettled write the cache and make queries read again.
LEMMA CallbacksPress ==
    ASSUME PressInv, NEW i \in DOMAIN pressed, NEW sets \in SUBSET Queries,
           NEW groups \in Seq(SUBSET Queries), NEW stage \in {"settling", "failing"},
           Callbacks(i, sets, groups, stage),
           stage = "settling" => pressed[i].stage = "answered",
           stage = "failing" => pressed[i].stage = "refused"
    PROVE  PressInv'
<1> DEFINE first == IF groups = <<>> THEN {} ELSE Head(groups)
           rest  == IF groups = <<>> THEN <<>> ELSE Tail(groups)
           waits == first \cap Shown
           r == pressed[i]
           s == [r EXCEPT !.stage = stage, !.waits = waits, !.answer = {}, !.overtaken = {}, !.rest = rest]
           new == pressed'
<1>1. first \in SUBSET Queries /\ rest \in Seq(SUBSET Queries)
  BY GroupsType
<1>2. /\ new = [j \in DOMAIN pressed |->
                    IF j = i THEN s ELSE RequestOvertaken(pressed[j], sets \cup first)]
      /\ UNCHANGED server
  BY DEF Callbacks
<1>3. r \in Requests /\ Follows(r) /\ (r.stage = "answered" \/ (r.stage = "refused" /\ stage = "failing"))
      /\ pressed \in Seq(Requests) /\ \A j \in DOMAIN pressed : pressed[j] \in Requests
  BY DEF PressInv
<1> HIDE DEF rest
<1>4. waits \in SUBSET Queries /\ sets \cup first \in SUBSET Queries
  BY <1>1
<1> HIDE DEF r, first, waits
<1>5. /\ s \in Requests /\ s.stage = stage /\ s.button = r.button /\ s.near = r.near
      /\ s.did = r.did /\ s.step = r.step /\ s.loose = r.loose /\ s.at = r.at
  BY <1>1, <1>3, <1>4 DEF Requests, Stages
<1> HIDE DEF s, new
<1>6. Goes(r, s)
  BY <1>3, <1>5 DEF Goes, IsOver
<1>7. Follows(s)
  BY <1>3, <1>5 DEF Follows
<1>8. \A j \in DOMAIN pressed \ {i} : new[j] \in Requests /\ Kept(pressed[j], new[j])
  BY <1>2, <1>3, <1>4, OvertakenKept
<1>9. new[i] = s
  BY <1>2
<1>10. new = [j \in DOMAIN pressed |-> new[j]] /\ \A j \in DOMAIN pressed : new[j] \in Requests
  BY <1>2, <1>5, <1>8, <1>9
<1>11. new \in Seq(Requests) /\ DOMAIN new = DOMAIN pressed
  BY <1>3, <1>10, Mapped
<1>12. /\ Goes(pressed[i], pressed'[i]) /\ Follows(pressed'[i]) /\ pressed'[i].at = pressed[i].at
       /\ pressed' \in Seq(Requests) /\ DOMAIN pressed' = DOMAIN pressed
       /\ \A j \in DOMAIN pressed \ {i} : Kept(pressed[j], pressed'[j])
  BY <1>5, <1>6, <1>7, <1>8, <1>9, <1>11 DEF new, r
<1> QED
  BY <1>2, <1>12, StillServer, OneGoes

LEMMA OnSuccessPress ==
    ASSUME PressInv, NEW i \in DOMAIN pressed, OnSuccess(i) \/ OnError(i)
    PROVE  PressInv'
<1> DEFINE b == pressed[i].button
           groups == ButtonOf[b].refreshes \o Always(b)
<1>1. b \in DOMAIN ButtonOf
  <2>1. pressed[i] \in Requests
    BY DEF PressInv
  <2> QED
    BY <2>1 DEF Requests
<1> HIDE DEF b
<1>2. ButtonOf[b].sets \in SUBSET Queries /\ ButtonOf[b].refreshes \in Seq(SUBSET Queries)
      /\ {} \in SUBSET Queries
  BY <1>1, SendsType
<1>3. Always(b) \in Seq(SUBSET Queries)
  BY <1>1, SendsType, Groups DEF Always
<1>4. groups \in Seq(SUBSET Queries)
  BY <1>2, <1>3, Groups, Zenon
<1>5. CASE OnSuccess(i)
  <2>1. pressed[i].stage = "answered" /\ Callbacks(i, ButtonOf[b].sets, groups, "settling")
    BY <1>5 DEF OnSuccess, b
  <2> HIDE DEF groups
  <2> QED
    BY <1>2, <1>4, <2>1, CallbacksPress
<1>6. CASE OnError(i)
  <2>1. pressed[i].stage = "refused" /\ Callbacks(i, {}, Always(b), "failing")
    BY <1>6 DEF OnError, b
  <2> HIDE DEF groups
  <2> QED
    BY <1>2, <1>3, <2>1, CallbacksPress
<1> QED
  BY <1>5, <1>6

LEMMA NextGroupPress ==
    ASSUME PressInv, NEW i \in DOMAIN pressed, NextGroup(i)
    PROVE  PressInv'
<1> DEFINE r     == pressed[i]
           first == Head(r.rest)
           waits == first \cap Shown
           s     == [r EXCEPT !.waits = waits, !.rest = Tail(@)]
           new   == pressed'
<1>1. r \in Requests /\ Follows(r)
      /\ pressed \in Seq(Requests) /\ \A j \in DOMAIN pressed : pressed[j] \in Requests
  BY DEF PressInv
<1>2. /\ new = [j \in DOMAIN pressed |-> IF j = i THEN s ELSE RequestOvertaken(pressed[j], first)]
      /\ UNCHANGED server /\ r.rest # <<>>
  BY DEF NextGroup
<1> HIDE DEF r
<1>3. first \in SUBSET Queries /\ Tail(r.rest) \in Seq(SUBSET Queries)
  BY <1>1, <1>2, GroupsType DEF Requests
<1>4. waits \in SUBSET Queries
  BY <1>3
<1> HIDE DEF first, waits
<1>5. s \in Requests /\ Kept(r, s)
  BY <1>1, <1>3, <1>4 DEF Requests, Kept
<1> HIDE DEF s, new
<1>6. \A j \in DOMAIN pressed \ {i} : new[j] \in Requests /\ Kept(pressed[j], new[j])
  BY <1>1, <1>2, <1>3, OvertakenKept
<1>7. new[i] = s
  BY <1>2
<1>8. new = [j \in DOMAIN pressed |-> new[j]] /\ \A j \in DOMAIN pressed : new[j] \in Requests
  BY <1>2, <1>5, <1>6, <1>7
<1>9. new \in Seq(Requests) /\ DOMAIN new = DOMAIN pressed
  BY <1>1, <1>8, Mapped
<1>10. /\ pressed' \in Seq(Requests) /\ DOMAIN pressed' = DOMAIN pressed
       /\ \A j \in DOMAIN pressed : Kept(pressed[j], pressed'[j])
  BY <1>5, <1>6, <1>7, <1>9 DEF new, r
<1> QED
  BY <1>2, <1>10, StillServer, Calm

LEMMA SettlePress ==
    ASSUME PressInv, NEW i \in DOMAIN pressed, Settle(i)
    PROVE  PressInv'
<1> DEFINE r     == pressed[i]
           last  == IF r.stage = "settling" THEN "done" ELSE "failed"
           s     == [r EXCEPT !.stage = last]
           ended == [pressed EXCEPT ![i] = s]
<1>1. r \in Requests /\ Follows(r) /\ r.stage \in {"settling",
                                                   "failing"} /\ pressed \in Seq(Requests)
  BY DEF PressInv, Settle
<1>2. /\ pressed' = ended \/ \E to : pressed' = Left(ended, to)
      /\ UNCHANGED server
  BY DEF Settle, Show
<1>3. last \in {"done", "failed"} /\ (last = "done" => r.stage = "settling")
      /\ (last = "failed" => r.stage = "failing")
  BY <1>1
<1> HIDE DEF r, last
<1>4. /\ s \in Requests /\ s.stage = last /\ s.button = r.button /\ s.near = r.near
      /\ s.did = r.did /\ s.step = r.step /\ s.loose = r.loose /\ s.at = r.at
  BY <1>1, <1>3 DEF Requests, Stages
<1> HIDE DEF s
<1>5. Follows(s)
  BY <1>1, <1>3, <1>4 DEF Follows
<1>6. Goes(r, s)
  BY <1>1, <1>3, <1>4 DEF Goes, IsOver
<1>7. /\ ended \in Seq(Requests) /\ DOMAIN ended = DOMAIN pressed /\ ended[i] = s
      /\ \A j \in DOMAIN pressed \ {i} : ended[j] = pressed[j]
  BY <1>1, <1>4
<1> HIDE DEF ended
<1>8. CASE pressed' = ended
  <2>1. \A j \in DOMAIN pressed \ {i} : Kept(pressed[j], pressed'[j])
    BY <1>7, <1>8 DEF Kept
  <2> QED
    BY <1>2, <1>4, <1>5, <1>6, <1>7, <1>8, <2>1, StillServer, OneGoes DEF r
<1>9. ASSUME NEW to, pressed' = Left(ended, to)
      PROVE  PressInv'
  <2> DEFINE new == pressed'
  <2>1. /\ new \in Seq(Requests) /\ DOMAIN new = DOMAIN ended
        /\ \A j \in DOMAIN ended : Kept(ended[j], new[j])
    BY <1>7, <1>9, LeftKept
  <2> HIDE DEF new
  <2>2. Kept(s, new[i]) /\ \A j \in DOMAIN pressed \ {i} : Kept(pressed[j], new[j])
    BY <1>7, <2>1
  <2>3. Goes(r, new[i])
    BY <1>6, <2>2 DEF Goes, Kept
  <2>4. Follows(new[i]) /\ new[i].at = r.at
    BY <1>4, <1>5, <2>2, KeptFollows DEF Kept
  <2> QED
    BY <1>2, <1>7, <2>1, <2>2, <2>3, <2>4, StillServer, OneGoes DEF r, new
<1> QED
  BY <1>2, <1>8, <1>9

\* One field of one request after another.
LEMMA Twice ==
    ASSUME NEW f, NEW i \in DOMAIN f, NEW x, NEW field, NEW v, NEW p, p = [f EXCEPT ![i] = x]
    PROVE  [p EXCEPT ![i][field] = v] = [f EXCEPT ![i] = [x EXCEPT ![field] = v]]
<1> DEFINE one == [p EXCEPT ![i][field] = v]
           all == [f EXCEPT ![i] = [x EXCEPT ![field] = v]]
<1>1. DOMAIN one = DOMAIN f /\ DOMAIN all = DOMAIN f
  OBVIOUS
<1>2. p[i] = x /\ one[i] = [p[i] EXCEPT ![field] = v] /\ all[i] = [x EXCEPT ![field] = v]
  OBVIOUS
<1>3. \A j \in DOMAIN f \ {i} : one[j] = all[j]
  OBVIOUS
<1>4. one = [j \in DOMAIN f |-> one[j]] /\ all = [j \in DOMAIN f |-> all[j]]
  OBVIOUS
<1> HIDE DEF one, all
<1>5. \A j \in DOMAIN f : one[j] = all[j]
  BY <1>2, <1>3
<1>6. one = all
  BY <1>4, <1>5
<1> QED
  BY <1>6 DEF one, all

\* What the handler of the next request of a press leaves: in time, or after its caller gave up.
LEMMA HandledRequest ==
    ASSUME PressInv, NEW i \in DOMAIN pressed, Handled(i),
           pressed[i].stage = "asked" \/ pressed[i].loose
    PROVE  LET r == pressed[i]
               s == pressed'[i]
               sends    == ButtonOf[r.button].sends
               resource == ButtonOf[r.button].writes
           IN  /\ server' \in [Resources -> Nat] /\ server'[resource] = server[resource] + 1
               /\ \A other \in Resources : server[other] <= server'[other]
               /\ pressed' \in Seq(Requests) /\ DOMAIN pressed' = DOMAIN pressed
               /\ \A j \in DOMAIN pressed \ {i} : pressed'[j] = pressed[j]
               /\ s.button = r.button /\ s.near = r.near /\ s.step = r.step + 1 /\ s.loose = FALSE
               /\ s.at = server'[resource] /\ s.answer = {server'}
               /\ s.stage = IF r.stage = "asked" /\ r.step + 1 = Len(sends) THEN "answered" ELSE r.stage
               /\ Len(s.did) = r.step + 1 /\ s.did[r.step + 1] = Handler(sends[r.step + 1])
               /\ \A n \in 1 .. r.step : s.did[n] = r.did[n]
<1> DEFINE r        == pressed[i]
           sends    == ButtonOf[r.button].sends
           resource == ButtonOf[r.button].writes
           request  == sends[r.step + 1]
           did      == Append(r.did, Handler(request))
           at       == server'[resource]
           stage    == IF r.stage = "asked" /\ r.step + 1 = Len(sends) THEN "answered" ELSE r.stage
           new      == pressed'
           s        == new[i]
<1>1. r \in Requests /\ Follows(r) /\ pressed \in Seq(Requests) /\ server \in [Resources -> Nat]
  BY DEF PressInv
<1>2. /\ sends \in Seq(Mutations) /\ Len(sends) \in Nat /\ Len(sends) > 0 /\ resource \in Resources
  BY <1>1, SendsType DEF Requests
<1>3. server' = [server EXCEPT ![resource] = server[resource] + 1]
  BY DEF Handled
<1>4. /\ server' \in [Resources -> Nat] /\ at = server[resource] + 1
      /\ \A other \in Resources : server[other] <= server'[other]
  <2>1. \A other \in Resources :
               server'[other] = IF other = resource THEN server[other] + 1 ELSE server[other]
    BY <1>1, <1>2, <1>3
  <2>2. \A other \in Resources : server'[other] \in Nat /\ server[other] <= server'[other]
    BY <1>1, <2>1
  <2>3. server' = [other \in Resources |-> server'[other]]
    BY <1>1, <1>3
  <2> QED
    BY <1>2, <2>1, <2>2, <2>3
<1>5. stage \in Stages
  BY <1>1 DEF Requests, Stages
<1>6. /\ did \in Seq({q.name : q \in Mutations}) /\ Len(did) = r.step + 1
      /\ \A n \in 1 .. r.step : did[n] = r.did[n]
      /\ did[r.step + 1] = Handler(request)
  <2>1. r.step \in Nat /\ r.step + 1 \in 1 .. Len(sends)
    BY <1>1, <1>2 DEF Requests, Follows
  <2>2. request \in Mutations
    BY <1>2, <2>1
  <2> HIDE DEF request
  <2>3. Handler(request) \in {q.name : q \in Mutations}
    BY <2>2, Dispatched
  <2>4. r.did \in Seq({q.name : q \in Mutations}) /\ Len(r.did) = r.step
    BY <1>1 DEF Requests, Follows
  <2> DEFINE names == {q.name : q \in Mutations}
             done == Handler(request)
  <2>5. done \in names /\ r.did \in Seq(names)
    BY <2>3, <2>4
  <2> HIDE DEF names, done, r
  <2>6. /\ Append(r.did, done) \in Seq(names) /\ Len(Append(r.did, done)) = Len(r.did) + 1
        /\ \A n \in 1 .. Len(r.did) : Append(r.did, done)[n] = r.did[n]
        /\ Append(r.did, done)[Len(r.did) + 1] = done
    BY <2>5
  <2> QED
    BY <2>4, <2>6 DEF names, done
<1> DEFINE r1 == [r EXCEPT !.did = did]
           r2 == [r1 EXCEPT !.step = r.step + 1]
           r3 == [r2 EXCEPT !.loose = FALSE]
           r4 == [r3 EXCEPT !.at = at]
           r5 == [r4 EXCEPT !.answer = {server'}]
           r6 == [r5 EXCEPT !.stage = stage]
<1>7. new = [pressed EXCEPT ![i] = r6]
  <2> DEFINE p1 == [pressed EXCEPT ![i].did = did]
             p2 == [p1 EXCEPT ![i].step = r.step + 1]
             p3 == [p2 EXCEPT ![i].loose = FALSE]
             p4 == [p3 EXCEPT ![i].at = at]
             p5 == [p4 EXCEPT ![i].answer = {server'}]
             p6 == [p5 EXCEPT ![i].stage = stage]
  <2>1. new = p6
    BY DEF Handled
  <2>2. pressed = [pressed EXCEPT ![i] = r]
    BY <1>1
  <2> HIDE DEF r, did, at, stage, new
  <2>3. p1 = [pressed EXCEPT ![i] = r1]
    BY <2>2, Twice, Zenon
  <2> HIDE DEF p1, r1
  <2>4. p2 = [pressed EXCEPT ![i] = r2]
    BY <2>3, Twice, Zenon
  <2> HIDE DEF p2, r2
  <2>5. p3 = [pressed EXCEPT ![i] = r3]
    BY <2>4, Twice, Zenon
  <2> HIDE DEF p3, r3
  <2>6. p4 = [pressed EXCEPT ![i] = r4]
    BY <2>5, Twice, Zenon
  <2> HIDE DEF p4, r4
  <2>7. p5 = [pressed EXCEPT ![i] = r5]
    BY <2>6, Twice, Zenon
  <2> HIDE DEF p5, r5
  <2>8. p6 = [pressed EXCEPT ![i] = r6]
    BY <2>7, Twice, Zenon
  <2> QED
    BY <2>1, <2>8
<1>8. at \in Nat /\ r.step + 1 \in Nat /\ {server'} \in SUBSET [Resources -> Nat]
  BY <1>1, <1>2, <1>4 DEF Requests
<1> DEFINE more == r.step + 1
           no   == FALSE
           answer == {server'}
<1>9. more \in Nat /\ no \in BOOLEAN /\ answer \in SUBSET [Resources -> Nat]
  BY <1>8
<1> HIDE DEF did, at, stage, new, more, no, answer
<1> DEFINE IsLike(p) == p \in Requests /\ p.button = r.button /\ p.near = r.near
<1> HIDE DEF r
<1>10. IsLike(r1) /\ r1.did = did /\ r1.stage = r.stage
  BY <1>1, <1>6 DEF Requests
<1> HIDE DEF r1
<1>11. IsLike(r2) /\ r2.did = did /\ r2.stage = r.stage /\ r2.step = more
  BY <1>9, <1>10 DEF Requests, more
<1> HIDE DEF r2
<1>12. IsLike(r3) /\ r3.did = did /\ r3.stage = r.stage /\ r3.step = more /\ r3.loose = no
  BY <1>9, <1>11 DEF Requests, no
<1> HIDE DEF r3
<1>13. IsLike(r4) /\ r4.did = did /\ r4.step = more /\ r4.loose = no /\ r4.at = at
  BY <1>8, <1>12 DEF Requests
<1> HIDE DEF r4
<1>14. IsLike(r5) /\ r5.did = did /\ r5.step = more /\ r5.loose = no /\ r5.at = at
       /\ r5.answer = answer
  BY <1>9, <1>13 DEF Requests, answer
<1> HIDE DEF r5
<1>15. IsLike(r6) /\ r6.did = did /\ r6.step = more /\ r6.loose = no /\ r6.at = at
       /\ r6.answer = answer /\ r6.stage = stage
  BY <1>5, <1>14 DEF Requests
<1> HIDE DEF r6
<1>16. s = r6 /\ s.did = did /\ s.step = r.step + 1 /\ s.loose = FALSE /\ s.at = at /\ s.stage = stage
       /\ s.button = r.button /\ s.near = r.near /\ s.answer = {server'}
  BY <1>1, <1>7, <1>15 DEF more, no, answer
<1>17. /\ new \in Seq(Requests) /\ DOMAIN new = DOMAIN pressed
       /\ \A j \in DOMAIN pressed \ {i} : new[j] = pressed[j]
  <2>1. r6 \in Requests
    BY <1>15
  <2> HIDE DEF IsLike
  <2> QED
    BY <1>1, <1>7, <2>1
<1> QED
  BY <1>4, <1>6, <1>16, <1>17 DEF r, new, at, stage, request

\* A press that is handled goes on as its button says.
LEMMA HandledPress ==
    ASSUME PressInv, NEW i \in DOMAIN pressed, Handled(i),
           pressed[i].stage = "asked" \/ pressed[i].loose
    PROVE  PressInv'
<1> DEFINE r        == pressed[i]
           sends    == ButtonOf[r.button].sends
           resource == ButtonOf[r.button].writes
           at       == server'[resource]
           stage    == IF r.stage = "asked" /\ r.step + 1 = Len(sends) THEN "answered" ELSE r.stage
           new      == pressed'
           s        == new[i]
           did      == s.did
<1>1. r \in Requests /\ Follows(r) /\ server \in [Resources -> Nat]
  BY DEF PressInv
<1>2. sends \in Seq(Mutations) /\ Len(sends) \in Nat /\ Len(sends) > 0 /\ resource \in Resources
  BY <1>1, SendsType DEF Requests
<1>3. /\ server' \in [Resources -> Nat] /\ at = server[resource] + 1
      /\ \A other \in Resources : server[other] <= server'[other]
      /\ new \in Seq(Requests) /\ DOMAIN new = DOMAIN pressed
      /\ \A j \in DOMAIN pressed \ {i} : new[j] = pressed[j]
      /\ s.button = r.button /\ s.near = r.near /\ s.step = r.step + 1 /\ s.loose = FALSE
      /\ s.at = at /\ s.stage = stage
      /\ Len(did) = r.step + 1 /\ did[r.step + 1] = Handler(sends[r.step + 1])
      /\ \A n \in 1 .. r.step : did[n] = r.did[n]
  BY HandledRequest
<1> HIDE DEF r, at, stage, new, did
<1>4. /\ r.step \in Nat /\ r.step < Len(sends) /\ r.stage \notin {"done", "answered"}
      /\ \A n \in 1 .. r.step : r.did[n] = Handler(sends[n])
  <2>1. r.stage = "asked" \/ r.loose = TRUE
    BY DEF r
  <2> QED
    BY <1>1, <2>1 DEF Follows, Requests
<1>5. Follows(s)
  <2> DEFINE next == r.step + 1
             list == sends
             before == r.step
  <2>1. before \in Nat /\ next = before + 1 /\ before < Len(list) /\ Len(list) \in Nat
    BY <1>4, <1>2
  <2>2. Len(did) = next /\ did[next] = Handler(list[next])
    BY <1>3
  <2>3. \A n \in 1 .. before : did[n] = r.did[n] /\ r.did[n] = Handler(list[n])
    BY <1>3, <1>4
  <2>4. /\ Len(did) = next /\ did[next] = Handler(list[next])
        /\ \A n \in 1 .. before : did[n] = Handler(list[n])
    <3> HIDE DEF list, next, before
    <3> QED
      BY <2>2, <2>3
  <2>5. s.stage = "asked" => next < Len(list)
    BY <1>2, <1>3, <1>4 DEF stage
  <2>6. s.did = did /\ s.step = next /\ s.loose = FALSE /\ ButtonOf[s.button].sends = list
    BY <1>3 DEF did
  <2> HIDE DEF next, list, before, s
  <2>7. \A n \in 1 .. next : did[n] = Handler(list[n])
    <3> SUFFICES ASSUME NEW n \in 1 .. next
                 PROVE  did[n] = Handler(list[n])
      OBVIOUS
    <3>1. n \in 1 .. before \/ n = next
      BY <2>1
    <3> QED
      BY <2>4, <3>1
  <2>8. next <= Len(list)
    BY <2>1
  <2> QED
    BY <2>4, <2>5, <2>6, <2>7, <2>8 DEF Follows
<1>6. Goes(r, s)
  <2>1. at > server[resource]
    <3>1. server[resource] \in Nat
      BY <1>1, <1>2
    <3> QED
      BY <1>3, <3>1
  <2>2. stage = r.stage \/ (r.stage = "asked" /\ stage = "answered")
    BY DEF stage
  <2>3. s.button = r.button /\ s.near = r.near /\ s.stage = stage /\ s.at = at
    BY <1>3
  <2> HIDE DEF s
  <2> QED
    BY <1>4, <2>1, <2>2, <2>3 DEF Goes, IsOver
<1>7. IsPast(pressed[i])'
  <2>1. s.at = server'[ButtonOf[s.button].writes]
    BY <1>3 DEF at
  <2>2. server'[resource] \in Nat
    BY <1>2, <1>3
  <2> QED
    BY <1>3, <2>1, <2>2 DEF IsPast, new, at
<1>8. \A j \in DOMAIN pressed \ {i} : Kept(pressed[j], new[j])
  BY <1>3 DEF Kept
<1> QED
  BY <1>3, <1>5, <1>6, <1>7, <1>8, OneGoes DEF new, r

LEMMA StepPress ==
    ASSUME PressInv, NEW i \in DOMAIN pressed, Step(i) \/ ServeLate(i)
    PROVE  PressInv'
<1>1. CASE Serve(i)
  BY <1>1, HandledPress, TurnedAwayPress DEF Serve
<1>2. CASE ServeLate(i)
  BY <1>2, HandledPress DEF ServeLate
<1>3. CASE Lose(i)
  BY <1>3, LosePress
<1>4. CASE OnSuccess(i) \/ OnError(i)
  BY <1>4, OnSuccessPress
<1>5. CASE NextGroup(i)
  BY <1>5, NextGroupPress
<1>6. CASE Settle(i)
  BY <1>6, SettlePress
<1> QED
  BY <1>1, <1>2, <1>3, <1>4, <1>5, <1>6 DEF Step

\* The inductive invariant of the presses holds whatever the host presses, leaves or loses, however
\* many photos a press uploads, and whatever the other devices change meanwhile.
THEOREM PressInvariance == Spec => []PressInv
<1>1. Init => PressInv
  BY InitPress
<1>2. PressInv /\ [Next]_vars => PressInv'
  <2> SUFFICES ASSUME PressInv, [Next]_vars PROVE PressInv'
    OBVIOUS
  <2>1. ASSUME NEW s \in Screens, Open(s) \/ Turn(s) PROVE PressInv'
    BY <2>1, ScreensPress
  <2>2. CASE Arrive
    BY <2>2, ScreensPress
  <2>3. CASE Elsewhere
    BY <2>3, ElsewherePress
  <2>4. ASSUME NEW q \in Queries, Refetch(q) \/ Fetches(q) PROVE PressInv'
    BY <2>4, FetchesPress
  <2>5. ASSUME NEW b \in DOMAIN ButtonOf, Press(b) PROVE PressInv'
    BY <2>5, PressPress
  <2>6. ASSUME NEW i \in DOMAIN pressed, Step(i) \/ ServeLate(i) PROVE PressInv'
    BY <2>6, StepPress
  <2>7. CASE UNCHANGED vars
    BY <2>7, StillServer, Same DEF vars
  <2> QED
    BY <2>1, <2>2, <2>3, <2>4, <2>5, <2>6, <2>7 DEF Next
<1> QED
  BY <1>1, <1>2, PTL DEF Spec

\* A press of a button (useMutation, never retried: query-client.ts) makes the changes its mutation
\* function asks for, in its order, each once and by its own handler of the API, and no other.
THEOREM PressesDoWhatTheyAreFor == Spec => []OnePressOneChange
<1>1. PressInv => OnePressOneChange
  <2> SUFFICES ASSUME PressInv, NEW i \in DOMAIN pressed
               PROVE  LET sends == ButtonOf[pressed[i].button].sends
                      IN  /\ Len(pressed[i].did) <= Len(sends)
                          /\ \A n \in DOMAIN pressed[i].did : pressed[i].did[n] = sends[n].name
    BY DEF OnePressOneChange
  <2> DEFINE r == pressed[i]
             sends == ButtonOf[r.button].sends
  <2>1. r \in Requests /\ Follows(r)
    BY DEF PressInv
  <2> HIDE DEF r
  <2>2. sends \in Seq(Mutations) /\ r.step \in Nat /\ DOMAIN r.did = 1 .. r.step
    BY <2>1, SendsType DEF Requests, Follows
  <2>3. ASSUME NEW n \in DOMAIN r.did
        PROVE  r.did[n] = sends[n].name
    <3>1. n \in 1 .. r.step /\ n \in 1 .. Len(sends) /\ r.did[n] = Handler(sends[n])
      BY <2>1, <2>2 DEF Follows
    <3>2. sends[n] \in Mutations
      BY <2>2, <3>1
    <3> QED
      BY <3>1, <3>2, Dispatched
  <2>4. Len(r.did) <= Len(sends)
    BY <2>1 DEF Follows
  <2> QED
    BY <2>3, <2>4 DEF r
<1> QED
  BY <1>1, PressInvariance, PTL

\* The rows of a list and the photos of a gallery are disabled while one of them is saved (isBusy),
\* so an answer written for them is never one that a later change of theirs has outdated.
THEOREM AnswersComeInOrder == Spec => AnswersKeepTheirOrder
<1> DEFINE Ordered == \A i, j \in DOMAIN pressed :
               /\ i # j /\ \E list \in {Grid, RoomGrid, RoomRows} :
                      {pressed[i].button, pressed[j].button} \subseteq list
               /\ pressed[i].near = "button" /\ pressed[j].near = "button"
               /\ pressed[i].stage = "answered" /\ pressed'[i].stage = "settling"
               /\ pressed[j].stage \in {"settling", "done"}
               => pressed[j].at < pressed[i].at
<1>1. ASSUME PressInv PROVE Ordered
  <2> SUFFICES ASSUME NEW i \in DOMAIN pressed, NEW j \in DOMAIN pressed, i # j,
                      NEW list \in Lists, {pressed[i].button, pressed[j].button} \subseteq list,
                      pressed[i].near = "button", pressed[j].near = "button",
                      pressed[i].stage = "answered", pressed[j].stage \in {"settling", "done"}
               PROVE  pressed[j].at < pressed[i].at
    BY DEF Lists
  <2>1. i \in Int /\ j \in Int
    BY <1>1 DEF PressInv
  <2>2. ~IsOver(pressed[i])
    BY DEF IsOver
  <2>3. j < i
    <3>1. CASE i < j
      BY <1>1, <2>2, <3>1 DEF PressInv, InOrder
    <3> QED
      BY <2>1, <3>1
  <2>4. IsOver(pressed[j]) /\ (pressed[j].stage = "done" => pressed[j].at < pressed[i].at)
    BY <1>1, <2>3 DEF PressInv, InOrder
  <2> QED
    BY <2>4 DEF IsOver
<1>2. PressInv /\ [Next]_vars => [Ordered]_vars
  BY <1>1
<1> QED
  BY <1>2, PressInvariance, PTL DEF Spec, AnswersKeepTheirOrder

-----------------------------------------------------------------------------
(* What the cache knows.                                                   *)

\* The queries that a press of a button is to reach.
Told(b) == {q \in Queries : ButtonOf[b].writes \in QueryOf[q].reads /\ <<b, q>> \notin Untold}

\* The groups of a request that are still to be read again, and whether it has reached a query.
ToCome(r)     == UNION {r.rest[n] : n \in DOMAIN r.rest}
HasTold(r, q) == r.stage \in {"settling", "done"} /\ q \in Told(r.button) /\ q \notin ToCome(r)

\* A query that a request shows before it is sent is read again when it ends.
Redrawn(r, q) == r.stage \in {"asked", "answered", "refused"} /\ q \in ButtonOf[r.button].always

\* What has seen n changes of a resource, or is not what the screen ends with.
Knows(e, w, n)          == e.held = TRUE => e.seen[w] >= n \/ e.invalid = TRUE \/ e.overtaken = TRUE
FetchKnows(f, w, n)     == f.stage = "read" => f.seen[w] >= n \/ f.overtaken = TRUE
PageKnows(p, q, w, n)   == p.brought[w] >= n \/ q \in p.overtaken
AnswerKnows(r, q, w, n) ==
    r.stage = "answered" => (\A answer \in r.answer : answer[w] >= n) \/ q \in r.overtaken

\* Nothing the device holds or waits for takes a query back behind n changes of a resource.
Around(q, w, n) ==
    /\ Knows(cache[q], w, n) \/ \E k \in DOMAIN pressed : Redrawn(pressed[k], q)
    /\ FetchKnows(fetch[q], w, n)
    /\ \A arriving \in page : PageKnows(arriving, q, w, n)
    /\ \A k \in DOMAIN pressed : AnswerKnows(pressed[k], q, w, n)

\* What is cached, read, and on its way.
Seens   == UNION {[reads -> Nat] : reads \in SUBSET Resources}
Entries == {Absent} \cup [held : {TRUE}, seen : Seens, invalid : BOOLEAN, overtaken : BOOLEAN]
FetchStates == {NoFetch} \cup [stage : {"sent"}, overtaken : BOOLEAN]
               \cup [stage : {"read"}, overtaken : BOOLEAN, seen : Seens]
Pages   == [to : Screens, brought : [Resources -> Nat], overtaken : SUBSET Queries]

DeviceType ==
    /\ cache \in [Queries -> Entries] /\ fetch \in [Queries -> FetchStates] /\ page \in SUBSET Pages
    /\ \A q \in Queries : UnderWay(fetch[q]) => q \in Shown

\* An answer has seen the change it is of, and a request is done when nothing is to come.
AnswersSeeTheirChange ==
    \A i \in DOMAIN pressed :
        /\ pressed[i].stage = "answered" =>
               /\ pressed[i].answer # {}
               /\ \A answer \in pressed[i].answer :
                      answer[ButtonOf[pressed[i].button].writes] = pressed[i].at
        /\ pressed[i].stage = "done" => pressed[i].rest = <<>>

ChangesAreKnown ==
    \A i \in DOMAIN pressed, q \in Queries :
        HasTold(pressed[i], q) => Around(q, ButtonOf[pressed[i].button].writes, pressed[i].at)

TellInv == DeviceType /\ AnswersSeeTheirChange /\ ChangesAreKnown

-----------------------------------------------------------------------------
(* The queries a button reaches.                                           *)

LEMMA Begins ==
    ASSUME NEW S, NEW key \in Seq(S), NEW other \in Seq(S)
    PROVE  /\ Covers(key, key)
           /\ Len(key) = 1 /\ Len(other) > 0 /\ key[1] = other[1] => Covers(key, other)
  BY DEF Covers, IsPrefix

LEMMA KeyOf == ASSUME NEW path, NEW params PROVE Read(path, params).key = <<path>> \o params
  BY DEF Read

\* A key without parameters begins the one with them.
LEMMA KeysCover ==
    ASSUME NEW path, NEW word
    PROVE  /\ Covers(Read(path, <<>>).key, Read(path, <<>>).key)
           /\ Covers(Read(path, <<>>).key, Read(path, <<word>>).key)
           /\ Covers(Read(path, <<word>>).key, Read(path, <<word>>).key)
<1> DEFINE S    == {path, word}
           base == <<path>>
           none == <<>>
           one  == <<word>>
<1>1. /\ base \in Seq(S) /\ none \in Seq(S) /\ one \in Seq(S)
      /\ Len(base) = 1 /\ Len(none) = 0 /\ Len(one) = 1
  OBVIOUS
<1>2. Read(path, <<>>).key = base \o none /\ Read(path, <<word>>).key = base \o one
  BY KeyOf, Zenon
<1> HIDE DEF base, none, one, S
<1>3. /\ base \o none \in Seq(S) /\ Len(base \o none) = Len(base) + Len(none)
      /\ \A i \in 1 .. Len(base) : (base \o none)[i] = base[i]
  BY <1>1, Joined
<1>4. /\ base \o one \in Seq(S) /\ Len(base \o one) = Len(base) + Len(one)
      /\ \A i \in 1 .. Len(base) : (base \o one)[i] = base[i]
  BY <1>1, Joined
<1>5. /\ Len(base \o none) = 1 /\ Len(base \o one) > 0
      /\ (base \o none)[1] = (base \o one)[1]
  BY <1>1, <1>3, <1>4
<1> QED
  BY <1>2, <1>3, <1>4, <1>5, Begins

\* The queries that read again are those whose key the invalidated one begins.
LEMMA StaleQueries ==
    /\ "bookings" \in Stale(BookingsList(<<>>))
    /\ "availability" \in Stale(AvailabilityFind(<<>>))
    /\ "property" \in Stale(PropertiesFindOne)
    /\ "rooms" \in Stale(RoomsList)
    /\ "photos" \in Stale(Photos("photos"))
    /\ "roomPhotos" \in Stale(Photos("roomPhotos"))
<1>2. /\ QueryOf["bookings"].key = BookingsList(<<"all">>).key
      /\ QueryOf["availability"].key = AvailabilityFind(<<"month">>).key
      /\ QueryOf["property"].key = PropertiesFindOne.key
      /\ QueryOf["rooms"].key = RoomsList.key
      /\ QueryOf["photos"].key = MediaList(<<>>).key
      /\ QueryOf["roomPhotos"].key = MediaList(<<"room">>).key
  BY DEF QueryOf, Query, BookingsQuery, AvailabilityQuery, PropertyQuery, RoomsQuery, PhotosQuery,
         RoomPhotosQuery
<1>3. Photos("photos") = MediaList(<<>>) /\ Photos("roomPhotos") = MediaList(<<"room">>)
  BY DEF Photos
<1>4. \A request : \A q \in Queries : Covers(request.key, QueryOf[q].key) => q \in Stale(request)
  BY DEF Stale
<1>5. {"bookings", "availability", "property", "rooms", "photos", "roomPhotos"} \subseteq Queries
  BY Names
<1>6. \A path, word :
          /\ Covers(Read(path, <<>>).key, Read(path, <<>>).key)
          /\ Covers(Read(path, <<>>).key, Read(path, <<word>>).key)
          /\ Covers(Read(path, <<word>>).key, Read(path, <<word>>).key)
  BY KeysCover
<1>7. /\ Covers(BookingsList(<<>>).key, BookingsList(<<"all">>).key)
      /\ Covers(AvailabilityFind(<<>>).key, AvailabilityFind(<<"month">>).key)
      /\ Covers(PropertiesFindOne.key, PropertiesFindOne.key)
      /\ Covers(RoomsList.key, RoomsList.key)
      /\ Covers(MediaList(<<>>).key, MediaList(<<>>).key)
      /\ Covers(MediaList(<<"room">>).key, MediaList(<<"room">>).key)
  BY <1>6, Zenon DEF BookingsList, AvailabilityFind, PropertiesFindOne, RoomsList, MediaList
<1> QED
  BY <1>2, <1>3, <1>4, <1>5, <1>7, Zenon

\* A change is written into the queries that depend on it or these are read again, but for
\* the screens that are left to staleTime; a button that shows its change first does nothing else.
Reaches(button, qs) ==
    /\ \A q \in qs : \/ q \in button.sets \/ q \in button.always
                     \/ \E n \in DOMAIN button.refreshes : q \in button.refreshes[n]
    /\ button.always # {} => button.refreshes = <<>>

LEMMA ReadersOf ==
    /\ \A q \in Queries : "bookings" \in QueryOf[q].reads =>
           q \in {"availability", "freeRooms", "bookings", "booking"}
    /\ \A q \in Queries : "notes" \in QueryOf[q].reads => q = "booking"
    /\ \A q \in Queries : "seasons" \in QueryOf[q].reads => q = "pricing"
    /\ \A q \in Queries : "blocks" \in QueryOf[q].reads => q \in {"availability", "freeRooms"}
    /\ \A q \in Queries : "rooms" \in QueryOf[q].reads =>
           q \in {"property", "rooms", "pricing", "freeRooms", "bookings", "booking"}
    /\ \A q \in Queries : "property" \in QueryOf[q].reads => q \in {"property", "pricing"}
    /\ \A q \in Queries : "properties" \notin QueryOf[q].reads
    /\ \A q \in Queries : "photos" \in QueryOf[q].reads => q \in {"property", "photos"}
    /\ \A q \in Queries : "roomPhotos" \in QueryOf[q].reads => q \in {"rooms", "roomPhotos"}
    /\ \A q \in Queries : QueryOf[q].reads \in SUBSET Resources
<1>1. /\ QueryOf["property"].reads = {"property", "rooms", "photos"}
      /\ QueryOf["rooms"].reads = {"rooms", "roomPhotos"}
      /\ QueryOf["photos"].reads = {"photos"}
      /\ QueryOf["roomPhotos"].reads = {"roomPhotos"}
      /\ QueryOf["pricing"].reads = {"rooms", "seasons", "property"}
      /\ QueryOf["availability"].reads = {"bookings", "blocks"}
      /\ QueryOf["freeRooms"].reads = {"rooms", "bookings", "blocks"}
      /\ QueryOf["bookings"].reads = {"bookings", "rooms"}
      /\ QueryOf["booking"].reads = {"bookings", "notes", "rooms"}
  BY DEF QueryOf, Query, PropertyQuery, RoomsQuery, PhotosQuery, RoomPhotosQuery, PricingQuery,
         AvailabilityQuery, FreeRoomsQuery, BookingsQuery, BookingQuery
<1> QED
  BY <1>1, Names DEF Resources
\* What a button writes, sets and has read again.
Does(button, writes, sets, refreshes, always) ==
    /\ button.writes = writes /\ button.sets = sets
    /\ button.refreshes = refreshes /\ button.always = always

LEMMA ButtonDoes ==
    ASSUME NEW sends, NEW writes, NEW sets, NEW refreshes, NEW always, NEW screens
    PROVE  /\ Does(Button(sends, writes, sets, refreshes), writes, sets, refreshes, {})
           /\ Does(Pushes(Button(sends, writes, sets, refreshes), screens), writes, sets, refreshes, {})
           /\ Does(Turns(Button(sends, writes, sets, refreshes), screens), writes, sets, refreshes, {})
           /\ Does(Turns(Shows(Button(sends, writes, sets, refreshes), always), screens),
                   writes, sets, refreshes, always)
  BY DEF Does, Button, Pushes, Turns, Shows

LEMMA DoesReach ==
    ASSUME NEW button, NEW writes, NEW sets, NEW group, NEW always, NEW qs
    PROVE  /\ Does(button, writes, sets, <<>>, always) /\ qs \subseteq sets \cup always => Reaches(button, qs)
           /\ Does(button, writes, sets, <<group>>, {}) /\ qs \subseteq sets \cup group => Reaches(button, qs)
  BY DEF Does, Reaches

LEMMA SingleButtons ==
    /\ Does(ChangeStatus, "bookings", {"booking"}, <<Stale(BookingsList(<<>>))>>, {})
    /\ Does(UpdateNote, "notes", {"booking"}, <<Stale(BookingsList(<<>>))>>, {})
    /\ Does(TakeBooking, "bookings", {}, <<>>, {})
    /\ Does(SetRate, "seasons", {"pricing"}, <<>>, {})
    /\ Does(LiftSeason, "seasons", {"pricing"}, <<>>, {})
    /\ Does(BlockDates, "blocks", {}, <<>>, Stale(AvailabilityFind(<<>>)))
    /\ Does(RemoveBlock, "blocks", {}, <<>>, Stale(AvailabilityFind(<<>>)))
    /\ Does(ReorderRooms, "rooms", {"rooms"}, <<Stale(PropertiesFindOne)>>, {})
    /\ Does(RemoveRoom, "rooms", {"rooms"}, <<Stale(PropertiesFindOne)>>, {})
    /\ Does(SaveRoom, "rooms", {}, <<Stale(RoomsList) \cup Stale(PropertiesFindOne)>>, {})
    /\ Does(CreateRoom, "rooms", {}, <<Stale(RoomsList) \cup Stale(PropertiesFindOne)>>, {})
    /\ Does(SaveStep, "property", {"property"}, <<Stale(PropertiesList)>>, {})
    /\ Does(Submit, "property", {"property"}, <<Stale(PropertiesList)>>, {})
    /\ Does(CreateProperty, "properties", {}, <<Stale(PropertiesList)>>, {})
  BY ButtonDoes, Zenon DEF ChangeStatus, UpdateNote, TakeBooking, SetRate, LiftSeason,
     BlockDates, RemoveBlock, ReorderRooms, RemoveRoom, SaveRoom, CreateRoom, SaveStep, Submit,
     CreateProperty

LEMMA GridButtons ==
    ASSUME NEW owner
    PROVE  /\ Does(Upload(owner), owner, {}, <<Stale(Photos(owner))>> \o Checklist(owner), {})
           /\ Does(ReorderPhotos(owner), owner, {owner}, Checklist(owner), {})
           /\ Does(SetCover(owner), owner, {owner}, Checklist(owner), {})
           /\ Does(RemovePhoto(owner), owner, {owner}, Checklist(owner), {})
  BY ButtonDoes, Zenon DEF Upload, ReorderPhotos, SetCover, RemovePhoto

LEMMA ButtonsByName ==
    /\ ButtonOf["status"] = ChangeStatus
    /\ ButtonOf["note"] = UpdateNote
    /\ ButtonOf["book"] = TakeBooking
    /\ ButtonOf["rate"] = SetRate
    /\ ButtonOf["season"] = LiftSeason
    /\ ButtonOf["block"] = BlockDates
    /\ ButtonOf["unblock"] = RemoveBlock
    /\ ButtonOf["reorderRooms"] = ReorderRooms
    /\ ButtonOf["removeRoom"] = RemoveRoom
    /\ ButtonOf["saveRoom"] = SaveRoom
    /\ ButtonOf["createRoom"] = CreateRoom
    /\ ButtonOf["saveStep"] = SaveStep
    /\ ButtonOf["submit"] = Submit
    /\ ButtonOf["createProperty"] = CreateProperty
    /\ ButtonOf["upload"] = Upload("photos")
    /\ ButtonOf["reorder"] = ReorderPhotos("photos")
    /\ ButtonOf["cover"] = SetCover("photos")
    /\ ButtonOf["remove"] = RemovePhoto("photos")
    /\ ButtonOf["roomUpload"] = Upload("roomPhotos")
    /\ ButtonOf["roomReorder"] = ReorderPhotos("roomPhotos")
    /\ ButtonOf["roomCover"] = SetCover("roomPhotos")
    /\ ButtonOf["roomRemove"] = RemovePhoto("roomPhotos")
  BY DEF ButtonOf

\* What a press of each button is to reach.
LEMMA ToldBy ==
    /\ Told("status") \subseteq {"bookings", "booking"}
    /\ Told("note") \subseteq {"booking"}
    /\ Told("book") \subseteq {}
    /\ Told("rate") \subseteq {"pricing"}
    /\ Told("season") \subseteq {"pricing"}
    /\ Told("block") \subseteq {"availability"}
    /\ Told("unblock") \subseteq {"availability"}
    /\ Told("reorderRooms") \subseteq {"property", "rooms"}
    /\ Told("removeRoom") \subseteq {"property", "rooms"}
    /\ Told("saveRoom") \subseteq {"property", "rooms"}
    /\ Told("createRoom") \subseteq {"property", "rooms"}
    /\ Told("saveStep") \subseteq {"property"}
    /\ Told("submit") \subseteq {"property"}
    /\ Told("createProperty") \subseteq {}
    /\ \A b \in Grid : Told(b) \subseteq {"property", "photos"}
    /\ \A b \in RoomGrid : Told(b) \subseteq {"roomPhotos"}
<1>1. /\ ButtonOf["status"].writes = "bookings"
      /\ ButtonOf["note"].writes = "notes"
      /\ ButtonOf["book"].writes = "bookings"
      /\ ButtonOf["rate"].writes = "seasons"
      /\ ButtonOf["season"].writes = "seasons"
      /\ ButtonOf["block"].writes = "blocks"
      /\ ButtonOf["unblock"].writes = "blocks"
      /\ ButtonOf["reorderRooms"].writes = "rooms"
      /\ ButtonOf["removeRoom"].writes = "rooms"
      /\ ButtonOf["saveRoom"].writes = "rooms"
      /\ ButtonOf["createRoom"].writes = "rooms"
      /\ ButtonOf["saveStep"].writes = "property"
      /\ ButtonOf["submit"].writes = "property"
      /\ ButtonOf["createProperty"].writes = "properties"
  BY ButtonsByName, SingleButtons DEF Does
<1> DEFINE untold(b, q) == <<b, q>> \in Untold
           reads(w, q)  == w \in QueryOf[q].reads
<1>2. \A b, q : q \in Told(b) => q \in Queries /\ reads(ButtonOf[b].writes, q) /\ ~untold(b, q)
  BY DEF Told
<1>3. /\ \A q \in {"booking", "bookings", "availability", "freeRooms"} : untold("book", q)
      /\ \A q \in {"availability", "freeRooms"} : untold("status", q)
      /\ untold("block", "freeRooms") /\ untold("unblock", "freeRooms")
      /\ \A b \in {"reorderRooms", "removeRoom", "saveRoom", "createRoom"},
            q \in {"pricing", "freeRooms", "bookings", "booking"} : untold(b, q)
      /\ untold("saveStep", "pricing") /\ untold("submit", "pricing")
      /\ \A b \in RoomGrid : untold(b, "rooms")
  BY DEF Untold
<1>4. /\ \A q \in Queries : reads("bookings", q) => q \in {"availability", "freeRooms", "bookings", "booking"}
      /\ \A q \in Queries : reads("notes", q) => q = "booking"
      /\ \A q \in Queries : reads("seasons", q) => q = "pricing"
      /\ \A q \in Queries : reads("blocks", q) => q \in {"availability", "freeRooms"}
      /\ \A q \in Queries : reads("rooms", q) =>
             q \in {"property", "rooms", "pricing", "freeRooms", "bookings", "booking"}
      /\ \A q \in Queries : reads("property", q) => q \in {"property", "pricing"}
      /\ \A q \in Queries : ~reads("properties", q)
      /\ \A q \in Queries : reads("photos", q) => q \in {"property", "photos"}
      /\ \A q \in Queries : reads("roomPhotos", q) => q \in {"rooms", "roomPhotos"}
  BY ReadersOf
<1> HIDE DEF untold, reads
<1>5. /\ \A b \in Grid : Told(b) \subseteq {"property", "photos"}
      /\ \A b \in RoomGrid : Told(b) \subseteq {"roomPhotos"}
  BY <1>2, <1>3, <1>4, Buttons
<1>6. Told("status") \subseteq {"bookings", "booking"}
  BY <1>1, <1>2, <1>3, <1>4
<1>7. Told("note") \subseteq {"booking"}
  BY <1>1, <1>2, <1>3, <1>4
<1>8. Told("book") \subseteq {}
  BY <1>1, <1>2, <1>3, <1>4
<1>9. Told("rate") \subseteq {"pricing"}
  BY <1>1, <1>2, <1>3, <1>4
<1>10. Told("season") \subseteq {"pricing"}
  BY <1>1, <1>2, <1>3, <1>4
<1>11. Told("block") \subseteq {"availability"}
  BY <1>1, <1>2, <1>3, <1>4
<1>12. Told("unblock") \subseteq {"availability"}
  BY <1>1, <1>2, <1>3, <1>4
<1>13. Told("reorderRooms") \subseteq {"property", "rooms"}
  BY <1>1, <1>2, <1>3, <1>4
<1>14. Told("removeRoom") \subseteq {"property", "rooms"}
  BY <1>1, <1>2, <1>3, <1>4
<1>15. Told("saveRoom") \subseteq {"property", "rooms"}
  BY <1>1, <1>2, <1>3, <1>4
<1>16. Told("createRoom") \subseteq {"property", "rooms"}
  BY <1>1, <1>2, <1>3, <1>4
<1>17. Told("saveStep") \subseteq {"property"}
  BY <1>1, <1>2, <1>3, <1>4
<1>18. Told("submit") \subseteq {"property"}
  BY <1>1, <1>2, <1>3, <1>4
<1>19. Told("createProperty") \subseteq {}
  BY <1>1, <1>2, <1>3, <1>4
<1> QED
  BY <1>5, <1>6, <1>7, <1>8, <1>9, <1>10, <1>11, <1>12, <1>13, <1>14, <1>15, <1>16, <1>17,
     <1>18, <1>19

\* What the galleries read again besides themselves, and after an upload.
LEMMA GalleryReaches ==
    ASSUME NEW owner \in {"photos", "roomPhotos"}, NEW button, NEW group, NEW qs,
           qs \subseteq {owner} \cup {q \in {"property"} : owner = "photos"}
    PROVE  /\ Does(button, owner, {owner}, Checklist(owner), {}) => Reaches(button, qs)
           /\ Does(button, owner, {}, <<group>> \o Checklist(owner), {}) /\ owner \in group
              => Reaches(button, qs)
<1> DEFINE list == Checklist(owner)
           read == <<group>>
           both == read \o list
           checks == Stale(PropertiesFindOne)
           S == {group, checks}
<1>1. /\ owner = "photos" => Len(list) = 1 /\ list[1] = checks
      /\ list \in Seq(S) /\ Len(list) \in Nat
  <2>1. owner = "photos" => list = <<checks>>
    BY DEF Checklist
  <2>2. owner = "roomPhotos" => list = <<>>
    BY DEF Checklist
  <2> HIDE DEF list, checks
  <2>3. <<checks>> \in Seq(S) /\ Len(<<checks>>) = 1 /\ <<checks>>[1] = checks
    OBVIOUS
  <2>4. <<>> \in Seq(S) /\ Len(<<>>) = 0
    OBVIOUS
  <2>5. CASE owner = "photos"
    BY <2>1, <2>3, <2>5
  <2>6. CASE owner = "roomPhotos"
    BY <2>2, <2>4, <2>6
  <2> QED
    BY <2>5, <2>6
<1>2. read \in Seq(S) /\ Len(read) = 1 /\ read[1] = group
  OBVIOUS
<1>3. "property" \in checks
  BY StaleQueries
<1> HIDE DEF list, read, checks, S
<1>4. /\ both \in Seq(S) /\ Len(both) = Len(read) + Len(list)
      /\ \A i \in 1 .. Len(read) : both[i] = read[i]
      /\ \A i \in 1 .. Len(list) : both[Len(read) + i] = list[i]
  <2>1. read \in Seq(S) /\ list \in Seq(S)
    BY <1>1, <1>2
  <2> QED
    BY <2>1, Joined
<1> HIDE DEF both
<1>5. /\ 1 \in DOMAIN both /\ both[1] = group
      /\ owner = "photos" => 2 \in DOMAIN both /\ both[2] = checks
  BY <1>1, <1>2, <1>4
<1>6. owner = "photos" => 1 \in DOMAIN list /\ list[1] = checks
  BY <1>1
<1>7. Does(button, owner, {owner}, list, {}) => Reaches(button, qs)
  BY <1>3, <1>6 DEF Does, Reaches
<1>8. Does(button, owner, {}, both, {}) /\ owner \in group => Reaches(button, qs)
  BY <1>3, <1>5 DEF Does, Reaches
<1> QED
  BY <1>7, <1>8 DEF both, read, list

LEMMA ButtonReaches == \A b \in DOMAIN ButtonOf : Reaches(ButtonOf[b], Told(b))
<1>1. Reaches(ChangeStatus, Told("status"))
  BY SingleButtons, ToldBy, StaleQueries, DoesReach
<1>2. Reaches(UpdateNote, Told("note"))
  BY SingleButtons, ToldBy, StaleQueries, DoesReach
<1>3. Reaches(TakeBooking, Told("book"))
  BY SingleButtons, ToldBy, StaleQueries, Zenon DEF Does, Reaches
<1>4. Reaches(SetRate, Told("rate"))
  BY SingleButtons, ToldBy, StaleQueries, Zenon DEF Does, Reaches
<1>5. Reaches(LiftSeason, Told("season"))
  BY SingleButtons, ToldBy, StaleQueries, Zenon DEF Does, Reaches
<1>6. Reaches(BlockDates, Told("block"))
  BY SingleButtons, ToldBy, StaleQueries, Zenon DEF Does, Reaches
<1>7. Reaches(RemoveBlock, Told("unblock"))
  BY SingleButtons, ToldBy, StaleQueries, Zenon DEF Does, Reaches
<1>8. Reaches(ReorderRooms, Told("reorderRooms"))
  BY SingleButtons, ToldBy, StaleQueries, DoesReach
<1>9. Reaches(RemoveRoom, Told("removeRoom"))
  BY SingleButtons, ToldBy, StaleQueries, DoesReach
<1>10. Reaches(SaveRoom, Told("saveRoom"))
  BY SingleButtons, ToldBy, StaleQueries, DoesReach
<1>11. Reaches(CreateRoom, Told("createRoom"))
  BY SingleButtons, ToldBy, StaleQueries, DoesReach
<1>12. Reaches(SaveStep, Told("saveStep"))
  BY SingleButtons, ToldBy, StaleQueries, DoesReach
<1>13. Reaches(Submit, Told("submit"))
  BY SingleButtons, ToldBy, StaleQueries, DoesReach
<1>14. Reaches(CreateProperty, Told("createProperty"))
  BY SingleButtons, ToldBy, StaleQueries, DoesReach
<1>15. ASSUME NEW owner \in {"photos", "roomPhotos"}, NEW qs,
               qs \subseteq {owner} \cup {q \in {"property"} : owner = "photos"}
        PROVE  /\ Reaches(Upload(owner), qs) /\ Reaches(ReorderPhotos(owner), qs)
               /\ Reaches(SetCover(owner), qs) /\ Reaches(RemovePhoto(owner), qs)
  <2>1. owner \in Stale(Photos(owner))
    BY StaleQueries
  <2> QED
    BY <1>15, <2>1, GridButtons, GalleryReaches, Zenon
<1>16. \A b \in Grid : Told(b) \subseteq {"photos"} \cup {q \in {"property"} : "photos" = "photos"}
  BY ToldBy
<1>17. \A b \in RoomGrid : Told(b) \subseteq {"roomPhotos"} \cup {q \in {"property"} : "roomPhotos" = "photos"}
  BY ToldBy
<1>18. \A b \in Grid : Reaches(ButtonOf[b], Told(b))
  BY <1>15, <1>16, ButtonsByName DEF Grid
<1>19. \A b \in RoomGrid : Reaches(ButtonOf[b], Told(b))
  BY <1>15, <1>17, ButtonsByName DEF RoomGrid
<1> QED
  BY <1>1, <1>2, <1>3, <1>4, <1>5, <1>6, <1>7, <1>8, <1>9, <1>10, <1>11, <1>12, <1>13, <1>14,
     <1>18, <1>19, ButtonsByName, Names

-----------------------------------------------------------------------------
(* What answers, reads and pages know.                                     *)

LEMMA SeenKnows ==
    ASSUME NEW q \in Queries, NEW state \in [Resources -> Nat]
    PROVE  /\ Seen(q, state) \in Seens
           /\ \A w \in QueryOf[q].reads : Seen(q, state)[w] = state[w]
<1> DEFINE reads == QueryOf[q].reads
           seen  == Seen(q, state)
<1>1. reads \in SUBSET Resources
  BY ReadersOf
<1>2. seen = [resource \in reads |-> state[resource]]
  BY DEF Seen
<1> HIDE DEF reads, seen
<1>3. seen \in [reads -> Nat]
  BY <1>1, <1>2
<1>4. seen \in Seens
  BY <1>1, <1>3, Zenon DEF Seens
<1> QED
  BY <1>2, <1>4 DEF reads, seen

LEMMA EntryKnows ==
    ASSUME NEW seen \in Seens, NEW overtaken \in BOOLEAN
    PROVE  /\ Entry(seen, overtaken) \in Entries
           /\ \A w, n : seen[w] >= n \/ overtaken = TRUE => Knows(Entry(seen, overtaken), w, n)
<1> DEFINE no == FALSE
           yes == TRUE
           e == [held |-> yes, seen |-> seen, invalid |-> no, overtaken |-> overtaken]
<1>1. no \in BOOLEAN /\ yes \in {TRUE}
  OBVIOUS
<1>2. Entry(seen, overtaken) = e
  BY DEF Entry
<1> HIDE DEF no, yes
<1>3. e \in Entries
  BY <1>1 DEF Entries
<1>4. \A w, n : seen[w] >= n \/ overtaken = TRUE => Knows(e, w, n)
  BY DEF Knows
<1> QED
  BY <1>2, <1>3, <1>4

LEMMA AbsentKnows == Absent \in Entries /\ ~Absent.held /\ \A w, n : Knows(Absent, w, n)
<1> DEFINE no == FALSE
<1>1. Absent = [held |-> no]
  BY DEF Absent
<1>2. ~no
  OBVIOUS
<1> HIDE DEF no
<1>3. ~Absent.held /\ Absent.held # TRUE
  BY <1>1, <1>2
<1> QED
  BY <1>3 DEF Entries, Knows

\* Marking an entry keeps it, and it knows everything in that it is read again.
LEMMA MarkKnows ==
    ASSUME NEW e \in Entries
    PROVE  LET marked == IF e.held THEN [e EXCEPT !.invalid = TRUE] ELSE e
           IN  /\ marked \in Entries /\ \A w, n : Knows(marked, w, n)
               /\ marked.held = e.held
<1>1. CASE e = Absent
  BY <1>1, AbsentKnows
<1>2. CASE e \in [held : {TRUE}, seen : Seens, invalid : BOOLEAN, overtaken : BOOLEAN]
  <2> DEFINE yes == TRUE
             marked == [e EXCEPT !.invalid = yes]
  <2>1. yes \in BOOLEAN /\ yes = TRUE
    OBVIOUS
  <2> HIDE DEF yes
  <2>2. marked \in [held : {TRUE}, seen : Seens, invalid : BOOLEAN, overtaken : BOOLEAN]
        /\ marked.invalid = yes /\ marked.held = e.held /\ e.held = TRUE
    BY <1>2, <2>1
  <2> HIDE DEF marked
  <2>3. marked \in Entries /\ \A w, n : Knows(marked, w, n)
    BY <2>1, <2>2 DEF Entries, Knows
  <2> QED
    BY <2>2, <2>3 DEF marked, yes
<1> QED
  BY <1>1, <1>2 DEF Entries

LEMMA FetchesKnow ==
    /\ NoFetch \in FetchStates /\ ~UnderWay(NoFetch) /\ \A w, n : FetchKnows(NoFetch, w, n)
    /\ Sent \in FetchStates /\ \A w, n : FetchKnows(Sent, w, n)
    /\ \A f \in FetchStates : UnderWay(f) =>
           /\ [f EXCEPT !.overtaken = TRUE] \in FetchStates
           /\ \A w, n : FetchKnows([f EXCEPT !.overtaken = TRUE], w, n)
           /\ UnderWay([f EXCEPT !.overtaken = TRUE])
    /\ \A f \in FetchStates : ~UnderWay(f) => \A w, n : FetchKnows(f, w, n)
<1>1. NoFetch \in FetchStates /\ ~UnderWay(NoFetch) /\ \A w, n : FetchKnows(NoFetch, w, n)
  BY DEF NoFetch, FetchStates, UnderWay, FetchKnows
<1>2. Sent \in FetchStates /\ \A w, n : FetchKnows(Sent, w, n)
  <2> DEFINE no == FALSE
  <2>1. no \in BOOLEAN /\ Sent = [stage |-> "sent", overtaken |-> no]
    BY DEF Sent
  <2> HIDE DEF no
  <2> QED
    BY <2>1 DEF FetchStates, FetchKnows
<1>3. ASSUME NEW f \in FetchStates, UnderWay(f)
      PROVE  /\ [f EXCEPT !.overtaken = TRUE] \in FetchStates
             /\ \A w, n : FetchKnows([f EXCEPT !.overtaken = TRUE], w, n)
             /\ UnderWay([f EXCEPT !.overtaken = TRUE])
  <2> DEFINE yes == TRUE
             g == [f EXCEPT !.overtaken = yes]
  <2>1. yes \in BOOLEAN /\ yes = TRUE
    OBVIOUS
  <2> HIDE DEF yes
  <2>2. f # NoFetch
    BY <1>3 DEF UnderWay, NoFetch
  <2>3. g \in FetchStates /\ g.overtaken = yes /\ g.stage = f.stage
    BY <2>1, <2>2 DEF FetchStates
  <2> HIDE DEF g
  <2>4. (\A w, n : FetchKnows(g, w, n)) /\ UnderWay(g)
    BY <1>3, <2>1, <2>3 DEF FetchKnows, UnderWay
  <2> QED
    BY <2>3, <2>4 DEF g, yes
<1>4. \A f \in FetchStates : ~UnderWay(f) => \A w, n : FetchKnows(f, w, n)
  BY DEF UnderWay, FetchKnows
<1> QED
  BY <1>1, <1>2, <1>3, <1>4

-----------------------------------------------------------------------------
(* Steps in which requests go on.                                          *)

\* An answer that came has seen its change, and what is done has nothing to come.
Sees(r) ==
    /\ r.stage = "answered" =>
           r.answer # {} /\ \A answer \in r.answer : answer[ButtonOf[r.button].writes] = r.at
    /\ r.stage = "done" => r.rest = <<>>

\* A request reaches no other query than before, and what it is about to bring is no older.
GoesOn(r, s) ==
    /\ \A q : HasTold(s, q) => HasTold(r, q) /\ s.button = r.button /\ s.at = r.at
    /\ \A q : Redrawn(r, q) => Redrawn(s, q)
    /\ \A q : \A w \in Resources, n \in Nat :
           n <= server[w] /\ AnswerKnows(r, q, w, n) => AnswerKnows(s, q, w, n)
    /\ Sees(r) => Sees(s)

\* What surrounds a request changes, or its answer is overtaken.
Alike(r, s) ==
    /\ s.button = r.button /\ s.stage = r.stage /\ s.at = r.at /\ s.rest = r.rest
    /\ s.answer = r.answer /\ r.overtaken \subseteq s.overtaken

LEMMA AlikeGoesOn == ASSUME NEW r, NEW s, Alike(r, s) PROVE GoesOn(r, s)
<1>1. Sees(r) => Sees(s)
  BY DEF Alike, Sees
<1>2. \A q : HasTold(s, q) => HasTold(r, q) /\ s.button = r.button /\ s.at = r.at
  BY DEF Alike, HasTold, ToCome
<1>3. \A q : Redrawn(r, q) => Redrawn(s, q)
  BY DEF Alike, Redrawn
<1>4. \A q, w, n : AnswerKnows(r, q, w, n) => AnswerKnows(s, q, w, n)
  BY DEF Alike, AnswerKnows
<1> QED
  BY <1>1, <1>2, <1>3, <1>4 DEF GoesOn

\* What a query knew before a step, it knows after it.
Remembers == \A q \in Queries : \A w \in QueryOf[q].reads, n \in Nat :
                 n <= server[w] /\ Around(q, w, n) => Around(q, w, n)'

\* Every query that a request has reached keeps knowing its change.
LEMMA TellStep ==
    ASSUME PressInv, TellInv, Remembers, DeviceType', AnswersSeeTheirChange',
           \A i \in DOMAIN pressed', q \in Queries : HasTold(pressed'[i], q) =>
               \/ /\ i \in DOMAIN pressed /\ HasTold(pressed[i], q)
                  /\ pressed'[i].button = pressed[i].button /\ pressed'[i].at = pressed[i].at
               \/ Around(q, ButtonOf[pressed[i].button].writes, pressed[i].at)'
    PROVE  TellInv'
<1> SUFFICES ASSUME NEW i \in DOMAIN pressed', NEW q \in Queries, HasTold(pressed'[i], q)
             PROVE  Around(q, ButtonOf[pressed[i].button].writes, pressed[i].at)'
  BY DEF TellInv, ChangesAreKnown, HasTold, ToCome
<1>1. CASE /\ i \in DOMAIN pressed /\ HasTold(pressed[i], q)
           /\ pressed'[i].button = pressed[i].button /\ pressed'[i].at = pressed[i].at
  <2> DEFINE r == pressed[i]
             w == ButtonOf[r.button].writes
             n == r.at
  <2>1. Around(q, w, n)
    BY <1>1 DEF TellInv, ChangesAreKnown
  <2>2. w \in QueryOf[q].reads
    BY <1>1 DEF HasTold, Told
  <2>3. n \in Nat /\ n <= server[w]
    <3>1. r \in Requests /\ IsPast(r)
      BY <1>1 DEF PressInv
    <3> HIDE DEF r
    <3> QED
      BY <3>1 DEF IsPast, Requests
  <2>4. w = ButtonOf[pressed'[i].button].writes /\ n = pressed'[i].at
    BY <1>1
  <2>5. PICK resource \in QueryOf[q].reads, changes \in Nat : resource = w /\ changes = n
    BY <2>2, <2>3
  <2> HIDE DEF w, n
  <2>6. Around(q, resource, changes)'
    BY <2>1, <2>3, <2>5 DEF Remembers
  <2> QED
    BY <2>4, <2>5, <2>6 DEF Around
<1> QED
  BY <1>1

\* The part of a step that is not about requests.
DeviceRemembers ==
    \A q \in Queries : \A w \in QueryOf[q].reads, n \in Nat :
        n <= server[w] /\ Around(q, w, n) =>
            /\ Knows(cache[q], w, n) => Knows(cache'[q], w, n)
            /\ FetchKnows(fetch'[q], w, n)
            /\ \A arriving \in page' : PageKnows(arriving, q, w, n)

LEMMA AllGoOn ==
    ASSUME PressInv, TellInv, DOMAIN pressed' = DOMAIN pressed,
           \A i \in DOMAIN pressed : GoesOn(pressed[i], pressed'[i]),
           DeviceType', DeviceRemembers
    PROVE  TellInv'
<1>1. Remembers
  <2> SUFFICES ASSUME NEW q \in Queries, NEW w \in QueryOf[q].reads, NEW n \in Nat,
                      n <= server[w], Around(q, w, n)
               PROVE  Around(q, w, n)'
    BY DEF Remembers
  <2>1. /\ Knows(cache[q], w, n) => Knows(cache'[q], w, n)
        /\ FetchKnows(fetch'[q], w, n)
        /\ \A arriving \in page' : PageKnows(arriving, q, w, n)
    BY DEF DeviceRemembers
  <2>2. Knows(cache'[q], w, n) \/ \E k \in DOMAIN pressed' : Redrawn(pressed'[k], q)
    <3>1. CASE Knows(cache[q], w, n)
      BY <2>1, <3>1
    <3>2. ASSUME NEW k \in DOMAIN pressed, Redrawn(pressed[k], q)
          PROVE  Redrawn(pressed'[k], q)
      BY <3>2 DEF GoesOn
    <3> QED
      BY <3>1, <3>2 DEF Around
  <2>3. ASSUME NEW k \in DOMAIN pressed'
        PROVE  AnswerKnows(pressed'[k], q, w, n)
    <3>1. GoesOn(pressed[k], pressed'[k]) /\ AnswerKnows(pressed[k], q, w, n)
      BY <2>3 DEF Around
    <3>2. w \in Resources
      BY ReadersOf
    <3> QED
      BY <3>1, <3>2 DEF GoesOn
  <2> QED
    BY <2>1, <2>2, <2>3 DEF Around, Redrawn, AnswerKnows, Knows, FetchKnows, PageKnows
<1>2. AnswersSeeTheirChange'
  <2>1. \A i \in DOMAIN pressed : Sees(pressed[i])
    BY DEF TellInv, AnswersSeeTheirChange, Sees
  <2>2. \A i \in DOMAIN pressed' : Sees(pressed'[i])
    BY <2>1 DEF GoesOn
  <2> QED
    BY <2>2 DEF AnswersSeeTheirChange, Sees
<1>3. \A i \in DOMAIN pressed', q \in Queries : HasTold(pressed'[i], q) =>
          /\ i \in DOMAIN pressed /\ HasTold(pressed[i], q)
          /\ pressed'[i].button = pressed[i].button /\ pressed'[i].at = pressed[i].at
  BY DEF GoesOn
<1> QED
  BY <1>1, <1>2, <1>3, TellStep

-----------------------------------------------------------------------------
(* Screens and queries.                                                    *)

LEMMA Unmoved ==
    ASSUME UNCHANGED pressed
    PROVE  DOMAIN pressed' = DOMAIN pressed /\ \A i \in DOMAIN pressed : GoesOn(pressed[i], pressed'[i])
<1>1. \A i \in DOMAIN pressed : Alike(pressed[i], pressed'[i])
  BY DEF Alike
<1> QED
  BY <1>1, AlikeGoesOn

\* A change elsewhere, or nothing at all.
LEMMA StillTell ==
    ASSUME PressInv, TellInv, UNCHANGED <<screen, page, cache, fetch, pressed>>
    PROVE  TellInv'
<1>1. DeviceType'
  BY DEF TellInv, DeviceType, Shown
<1>2. DeviceRemembers
  BY DEF DeviceRemembers, Around
<1> QED
  BY <1>1, <1>2, Unmoved, AllGoOn

LEMMA LeftAlike ==
    ASSUME NEW requests \in Seq(Requests), NEW s
    PROVE  /\ DOMAIN Left(requests, s) = DOMAIN requests
           /\ \A i \in DOMAIN requests : Alike(requests[i], Left(requests, s)[i])
<1> DEFINE left(r) == [r EXCEPT !.near = IF PageOf(s) # PageOf(screen) THEN "gone"
                                        ELSE IF @ = "button" /\ r.button # "saveStep" THEN "page" ELSE @,
                               !.waits = StillAwaited(@, s)]
<1>1. ASSUME NEW r \in Requests
      PROVE  Alike(r, left(r))
  BY DEF Requests, Alike
<1>2. Left(requests, s) = [i \in DOMAIN requests |-> left(requests[i])]
  BY DEF Left
<1> HIDE DEF left
<1>3. \A i \in DOMAIN requests : requests[i] \in Requests
  OBVIOUS
<1> QED
  BY <1>1, <1>2, <1>3

LEMMA EndedAlike ==
    ASSUME PressInv, NEW qs, NEW new, new = [i \in DOMAIN pressed |-> [pressed[i] EXCEPT !.waits = @ \ qs]]
    PROVE  DOMAIN new = DOMAIN pressed /\ \A i \in DOMAIN pressed : Alike(pressed[i], new[i])
<1> DEFINE ended(r) == [r EXCEPT !.waits = @ \ qs]
<1>1. ASSUME NEW r \in Requests
      PROVE  Alike(r, ended(r))
  BY DEF Requests, Alike
<1>2. new = [i \in DOMAIN pressed |-> ended(pressed[i])]
  OBVIOUS
<1> HIDE DEF ended
<1>3. \A i \in DOMAIN pressed : pressed[i] \in Requests
  BY DEF PressInv
<1> QED
  BY <1>1, <1>2, <1>3

\* A page is rendered: it brings what the server has.
LEMMA RenderKnows ==
    ASSUME PressInv, NEW s \in Screens, Render(s)
    PROVE  /\ page' \in SUBSET Pages
           /\ \A q, w, n : n <= server[w] => \A arriving \in page' : PageKnows(arriving, q, w, n)
<1> DEFINE none == {}
           arriving == [to |-> s, brought |-> server, overtaken |-> none]
<1>1. page' = {arriving} /\ none \in SUBSET Queries /\ server \in [Resources -> Nat]
  BY DEF Render, PressInv
<1> HIDE DEF none
<1>2. arriving \in Pages /\ arriving.brought = server
  BY <1>1 DEF Pages
<1> HIDE DEF arriving
<1> QED
  BY <1>1, <1>2 DEF PageKnows

LEMMA OpenTell == ASSUME PressInv, TellInv, NEW s \in Screens, Open(s) PROVE TellInv'
<1>1. Render(s) /\ UNCHANGED <<screen, cache, fetch, pressed>>
  BY DEF Open
<1>2. /\ page' \in SUBSET Pages
      /\ \A q, w, n : n <= server[w] => \A arriving \in page' : PageKnows(arriving, q, w, n)
  BY <1>1, RenderKnows
<1>3. DeviceType'
  BY <1>1, <1>2 DEF TellInv, DeviceType, Shown
<1>4. DeviceRemembers
  BY <1>1, <1>2 DEF DeviceRemembers, Around
<1> QED
  BY <1>1, <1>3, <1>4, Unmoved, AllGoOn

\* Another screen is shown: its queries go on or are sent.
LEMMA ShowKnows ==
    ASSUME DeviceType, NEW s, NEW c \in [Queries -> Entries], NEW requests, Show(s, c, requests),
           page' \in SUBSET Pages
    PROVE  /\ DeviceType'
           /\ \A q \in Queries : \A w, n : FetchKnows(fetch[q], w, n) => FetchKnows(fetch'[q], w, n)
<1>1. screen' = s /\ cache' = c /\ fetch' = Watched(s, c)
  BY DEF Show
<1>2. ASSUME NEW q \in Queries
      PROVE  /\ fetch'[q] \in FetchStates
             /\ UnderWay(fetch'[q]) => q \in ScreenOf[s].shows
             /\ \A w, n : FetchKnows(fetch[q], w, n) => FetchKnows(fetch'[q], w, n)
  <2>1. \/ q \notin ScreenOf[s].shows /\ fetch'[q] = NoFetch
        \/ q \in ScreenOf[s].shows /\ fetch'[q] \in {Sent, fetch[q]}
    BY <1>1 DEF Watched
  <2>2. fetch[q] \in FetchStates
    BY DEF DeviceType
  <2> QED
    BY <2>1, <2>2, FetchesKnow
<1>3. fetch' = [q \in Queries |-> fetch'[q]]
  BY <1>1 DEF Watched
<1>4. fetch' \in [Queries -> FetchStates]
  BY <1>2, <1>3
<1>5. DeviceType'
  BY <1>1, <1>2, <1>4 DEF DeviceType, Shown, UnderWay
<1> QED
  BY <1>2, <1>5

LEMMA ShowTell ==
    ASSUME PressInv, TellInv, NEW s, NEW c \in [Queries -> Entries], Show(s, c, pressed),
           page' \in SUBSET page,
           \A q \in Queries : \A w, n : w \in QueryOf[q].reads /\ Around(q, w, n) /\ Knows(cache[q], w, n)
                                        => Knows(c[q], w, n)
    PROVE  TellInv'
<1>1. cache' = c /\ pressed' = Left(pressed, s) /\ pressed \in Seq(Requests) /\ page' \in SUBSET Pages
  BY DEF Show, PressInv, TellInv, DeviceType
<1>2. /\ DeviceType'
      /\ \A q \in Queries : \A w, n : FetchKnows(fetch[q], w, n) => FetchKnows(fetch'[q], w, n)
  BY <1>1, ShowKnows DEF TellInv
<1>3. DOMAIN pressed' = DOMAIN pressed /\ \A i \in DOMAIN pressed : GoesOn(pressed[i], pressed'[i])
  BY <1>1, LeftAlike, AlikeGoesOn
<1>4. DeviceRemembers
  BY <1>1, <1>2 DEF DeviceRemembers, Around
<1> QED
  BY <1>2, <1>3, <1>4, AllGoOn

\* A page that arrives fills the queries that have nothing: it knows what they are to know.
LEMMA FilledKnows ==
    ASSUME TellInv, NEW arriving \in page
    PROVE  /\ Filled(arriving) \in [Queries -> Entries]
           /\ \A q \in Queries : \A w, n :
                  w \in QueryOf[q].reads /\ Around(q, w, n) /\ Knows(cache[q], w, n)
                  => Knows(Filled(arriving)[q], w, n)
<1>1. arriving \in Pages /\ cache \in [Queries -> Entries]
  BY DEF TellInv, DeviceType
<1>2. ASSUME NEW q \in Queries
      PROVE  /\ Filled(arriving)[q] \in Entries
             /\ \A w, n : w \in QueryOf[q].reads /\ Around(q, w, n) /\ Knows(cache[q], w, n)
                          => Knows(Filled(arriving)[q], w, n)
  <2> DEFINE late == q \in arriving.overtaken
             seen == Seen(q, arriving.brought)
  <2>1. Filled(arriving)[q] \in {cache[q], Entry(seen, late)}
    BY DEF Filled
  <2>2. late \in BOOLEAN /\ (late = TRUE <=> q \in arriving.overtaken)
    OBVIOUS
  <2>3. seen \in Seens /\ \A w \in QueryOf[q].reads : seen[w] = arriving.brought[w]
    BY <1>1, SeenKnows DEF Pages
  <2> HIDE DEF late, seen
  <2>4. /\ Entry(seen, late) \in Entries
        /\ \A w, n : seen[w] >= n \/ late = TRUE => Knows(Entry(seen, late), w, n)
    BY <2>2, <2>3, EntryKnows
  <2>5. \A w, n : Around(q, w, n) => arriving.brought[w] >= n \/ q \in arriving.overtaken
    BY DEF Around, PageKnows
  <2>6. \A w, n : w \in QueryOf[q].reads /\ Around(q, w, n) => Knows(Entry(seen, late), w, n)
    BY <2>2, <2>3, <2>4, <2>5
  <2> QED
    BY <1>1, <2>1, <2>4, <2>6
<1>3. Filled(arriving) = [q \in Queries |-> Filled(arriving)[q]]
  BY DEF Filled
<1> QED
  BY <1>2, <1>3

LEMMA ScreensTell ==
    ASSUME PressInv, TellInv, NEW s \in Screens, Arrive \/ Open(s) \/ Turn(s)
    PROVE  TellInv'
<1>1. CASE Arrive
  <2>1. PICK arriving \in page : page' = {} /\ Show(arriving.to, Filled(arriving), pressed)
    BY <1>1 DEF Arrive
  <2> QED
    BY <2>1, FilledKnows, ShowTell
<1>2. CASE Turn(s)
  <2>1. Show(s, cache, pressed) /\ UNCHANGED page /\ cache \in [Queries -> Entries]
    BY <1>2 DEF Turn, TellInv, DeviceType
  <2> QED
    BY <2>1, ShowTell
<1> QED
  BY <1>1, <1>2, OpenTell

LEMMA SendsOrReads ==
    ASSUME PressInv, TellInv, NEW q \in Queries, Refetch(q) \/ FetchRead(q)
    PROVE  TellInv'
<1>1. UNCHANGED <<screen, page, cache, pressed>>
  BY DEF Refetch, FetchRead
<1>2. fetch \in [Queries -> FetchStates] /\ fetch[q] \in FetchStates
  BY DEF TellInv, DeviceType
<1>3. PICK f \in FetchStates : /\ fetch' = [fetch EXCEPT ![q] = f] /\ q \in Shown
                               /\ \A w \in QueryOf[q].reads, n \in Nat : n <= server[w] => FetchKnows(f, w, n)
  <2>1. CASE Refetch(q)
    BY <2>1, FetchesKnow DEF Refetch
  <2>2. CASE FetchRead(q)
    <3> DEFINE seen == Seen(q, server)
               late == fetch[q].overtaken
               f == [stage |-> "read", overtaken |-> late, seen |-> seen]
    <3>1. seen \in Seens /\ \A w \in QueryOf[q].reads : seen[w] = server[w]
      BY SeenKnows DEF PressInv
    <3>2. late \in BOOLEAN /\ UnderWay(fetch[q])
      BY <1>2, <2>2 DEF FetchRead, FetchStates, NoFetch, UnderWay
    <3>3. fetch' = [fetch EXCEPT ![q] = f]
      BY <2>2 DEF FetchRead
    <3> HIDE DEF seen, late
    <3>4. f \in FetchStates /\ f.seen = seen
      BY <3>1, <3>2 DEF FetchStates
    <3>5. \A w \in QueryOf[q].reads, n \in Nat : n <= server[w] => FetchKnows(f, w, n)
      BY <3>1, <3>4 DEF FetchKnows
    <3>6. q \in Shown
      BY <3>2 DEF TellInv, DeviceType
    <3> QED
      BY <3>3, <3>4, <3>5, <3>6
  <2> QED
    BY <2>1, <2>2
<1>4. fetch'[q] = f /\ (\A other \in Queries \ {q} : fetch'[other] = fetch[other])
      /\ fetch' \in [Queries -> FetchStates]
  BY <1>2, <1>3
<1>5. DeviceType'
  BY <1>1, <1>3, <1>4 DEF TellInv, DeviceType, Shown
<1>6. DeviceRemembers
  BY <1>1, <1>3, <1>4 DEF DeviceRemembers, Around
<1> QED
  BY <1>1, <1>5, <1>6, Unmoved, AllGoOn

\* A read lands, or fails: what it has seen, or nothing, is in the cache.
LEMMA ReadsEnd ==
    ASSUME PressInv, TellInv, NEW q \in Queries, FetchLands(q) \/ FetchFails(q)
    PROVE  TellInv'
<1>1. Ended(q) /\ UNCHANGED <<screen, page>>
  BY DEF FetchLands, FetchFails
<1>2. /\ fetch \in [Queries -> FetchStates] /\ fetch[q] \in FetchStates
      /\ cache \in [Queries -> Entries] /\ cache[q] \in Entries
  BY DEF TellInv, DeviceType
<1>3. PICK e \in Entries : /\ cache' = [cache EXCEPT ![q] = e]
                           /\ \A w, n : FetchKnows(fetch[q], w, n) => Knows(e, w, n)
  <2>1. CASE FetchLands(q)
    <3>1. fetch[q].seen \in Seens /\ fetch[q].overtaken \in BOOLEAN /\ fetch[q].stage = "read"
      BY <1>2, <2>1 DEF FetchLands, FetchStates, NoFetch
    <3>2. cache' = [cache EXCEPT ![q] = Entry(fetch[q].seen, fetch[q].overtaken)]
      BY <2>1 DEF FetchLands
    <3> QED
      BY <3>1, <3>2, EntryKnows DEF FetchKnows
  <2>2. CASE FetchFails(q)
    <3> DEFINE marked == IF cache[q].held THEN [cache[q] EXCEPT !.invalid = TRUE] ELSE cache[q]
    <3>1. cache' = [cache EXCEPT ![q] = marked]
      BY <2>2 DEF FetchFails
    <3>2. marked \in Entries /\ \A w, n : Knows(marked, w, n)
      BY <1>2, MarkKnows
    <3> HIDE DEF marked
    <3> QED
      BY <3>1, <3>2
  <2> QED
    BY <2>1, <2>2
<1>4. /\ cache'[q] = e /\ (\A other \in Queries \ {q} : cache'[other] = cache[other])
      /\ cache' \in [Queries -> Entries]
  BY <1>2, <1>3
<1>5. /\ fetch'[q] = NoFetch /\ (\A other \in Queries \ {q} : fetch'[other] = fetch[other])
      /\ fetch' \in [Queries -> FetchStates]
  BY <1>1, <1>2, FetchesKnow DEF Ended
<1>6. DeviceType'
  <2>1. \A other \in Queries : UnderWay(fetch'[other]) => other \in Shown
    BY <1>5, FetchesKnow DEF TellInv, DeviceType
  <2> QED
    BY <1>1, <1>4, <1>5, <2>1 DEF TellInv, DeviceType, Shown, UnderWay
<1>7. DeviceRemembers
  <2> SUFFICES ASSUME NEW other \in Queries, NEW w \in QueryOf[other].reads, NEW n \in Nat,
                      Around(other, w, n)
               PROVE  /\ Knows(cache[other], w, n) => Knows(cache'[other], w, n)
                      /\ FetchKnows(fetch'[other], w, n)
                      /\ \A arriving \in page' : PageKnows(arriving, other, w, n)
    BY DEF DeviceRemembers
  <2> QED
    BY <1>1, <1>3, <1>4, <1>5, FetchesKnow DEF Around
<1>8. DOMAIN pressed' = DOMAIN pressed /\ \A i \in DOMAIN pressed : GoesOn(pressed[i], pressed'[i])
  <2> DEFINE new == pressed'
  <2>1. new = [i \in DOMAIN pressed |-> [pressed[i] EXCEPT !.waits = @ \ {q}]]
    BY <1>1 DEF Ended
  <2> HIDE DEF new
  <2>2. DOMAIN new = DOMAIN pressed /\ \A i \in DOMAIN pressed : Alike(pressed[i], new[i])
    BY <2>1, EndedAlike
  <2> QED
    BY <2>2, AlikeGoesOn DEF new
<1> QED
  BY <1>6, <1>7, <1>8, AllGoOn

LEMMA FetchesTell ==
    ASSUME PressInv, TellInv, NEW q \in Queries, Refetch(q) \/ Fetches(q)
    PROVE  TellInv'
  BY SendsOrReads, ReadsEnd DEF Fetches

-----------------------------------------------------------------------------
(* Requests.                                                               *)

\* What leaves the screen as it is.
LEMMA StillDevice ==
    ASSUME TellInv, UNCHANGED <<screen, page, cache, fetch>>
    PROVE  DeviceType' /\ DeviceRemembers
<1>1. DeviceType'
  BY DEF TellInv, DeviceType, Shown
<1>2. DeviceRemembers
  BY DEF DeviceRemembers, Around
<1> QED
  BY <1>1, <1>2

\* Only one request moves on.
LEMMA OneGoesOn ==
    ASSUME PressInv, TellInv, NEW i \in DOMAIN pressed, DOMAIN pressed' = DOMAIN pressed,
           \A j \in DOMAIN pressed \ {i} : pressed'[j] = pressed[j],
           GoesOn(pressed[i], pressed'[i]), UNCHANGED <<screen, page, cache, fetch>>
    PROVE  TellInv'
<1>1. \A j \in DOMAIN pressed \ {i} : Alike(pressed[j], pressed'[j])
  BY DEF Alike
<1>2. \A j \in DOMAIN pressed : GoesOn(pressed[j], pressed'[j])
  BY <1>1, AlikeGoesOn
<1> QED
  BY <1>2, StillDevice, AllGoOn

\* A request that is handled brings an answer that has seen every change.
LEMMA HandledTell ==
    ASSUME PressInv, TellInv, NEW i \in DOMAIN pressed, Handled(i),
           pressed[i].stage = "asked" \/ pressed[i].loose,
           UNCHANGED <<screen, page, cache, fetch>>
    PROVE  TellInv'
<1> DEFINE r == pressed[i]
           s == pressed'[i]
           resource == ButtonOf[r.button].writes
<1>1. /\ server' \in [Resources -> Nat] /\ server \in [Resources -> Nat]
      /\ \A other \in Resources : server[other] <= server'[other]
      /\ DOMAIN pressed' = DOMAIN pressed /\ \A j \in DOMAIN pressed \ {i} : pressed'[j] = pressed[j]
  BY HandledRequest DEF PressInv
<1>2. /\ s.button = r.button /\ s.at = server'[resource] /\ s.answer = {server'}
      /\ s.stage = r.stage \/ (r.stage = "asked" /\ s.stage = "answered")
  BY HandledRequest
<1>3. r.stage \in {"asked", "refused", "failing", "failed"}
  <2>1. Follows(r) /\ r \in Requests
    BY DEF PressInv
  <2>2. r.stage = "asked" \/ r.loose = TRUE
    OBVIOUS
  <2> QED
    BY <2>1, <2>2 DEF Follows
<1> HIDE DEF r, s, resource
<1>4. \A q : ~HasTold(s, q)
  BY <1>2, <1>3 DEF HasTold
<1>5. \A q : Redrawn(r, q) => Redrawn(s, q)
  BY <1>2, <1>3 DEF Redrawn
<1>6. Sees(s)
  BY <1>2, <1>3 DEF Sees, resource
<1>7. \A q : \A w \in Resources, n \in Nat : n <= server[w] => AnswerKnows(s, q, w, n)
  <2> SUFFICES ASSUME NEW q, NEW w \in Resources, NEW n \in Nat, n <= server[w]
               PROVE  server'[w] >= n
    BY <1>2 DEF AnswerKnows
  <2>1. server[w] \in Nat /\ server'[w] \in Nat /\ server[w] <= server'[w]
    BY <1>1
  <2> QED
    BY <2>1
<1>8. GoesOn(r, s)
  BY <1>4, <1>5, <1>6, <1>7 DEF GoesOn
<1> QED
  BY <1>1, <1>8, OneGoesOn DEF r, s

\* A request that is turned away or given up brings nothing.
LEMMA LostTell ==
    ASSUME PressInv, TellInv, NEW i \in DOMAIN pressed,
           (pressed[i].stage = "asked" /\ TurnedAway(i)) \/ Lose(i),
           UNCHANGED <<screen, page, cache, fetch>>
    PROVE  TellInv'
<1> DEFINE r == pressed[i]
           asked == (r.stage = "asked")
           one   == [r EXCEPT !.stage = "refused"]
           two   == [one EXCEPT !.loose = asked]
           three == [two EXCEPT !.answer = {}]
<1>1. r \in Requests /\ r.stage \in {"asked", "answered"} /\ pressed \in Seq(Requests)
  BY DEF PressInv, Lose
<1>2. PICK s \in {one, three} : pressed' = [pressed EXCEPT ![i] = s]
  <2>1. TurnedAway(i) => pressed' = [pressed EXCEPT ![i] = one]
    BY DEF TurnedAway
  <2>2. Lose(i) => pressed' = [pressed EXCEPT ![i] = three]
    BY <1>1 DEF Lose, GivenUp
  <2> QED
    BY <2>1, <2>2
<1> HIDE DEF r, asked
<1>3. "stage" \in DOMAIN r /\ one.stage = "refused" /\ one.button = r.button /\ DOMAIN one = DOMAIN r
  BY <1>1 DEF Requests
<1>4. three.stage = "refused" /\ three.button = r.button
  BY <1>1 DEF Requests
<1> HIDE DEF one, three
<1>5. s.stage = "refused" /\ s.button = r.button
  BY <1>3, <1>4
<1>6. GoesOn(r, s)
  BY <1>1, <1>5 DEF GoesOn, HasTold, Redrawn, AnswerKnows, Sees
<1>7. /\ DOMAIN pressed' = DOMAIN pressed /\ pressed'[i] = s
      /\ \A j \in DOMAIN pressed \ {i} : pressed'[j] = pressed[j]
  BY <1>1, <1>2
<1> QED
  BY <1>6, <1>7, OneGoesOn DEF r

\* A month that is redrawn before the request is sent, is read again when it ends.
LEMMA ClearedType ==
    ASSUME NEW e \in Entries
    PROVE  [e EXCEPT !.invalid = FALSE] \in Entries
<1> DEFINE no == FALSE
           cleared == [e EXCEPT !.invalid = no]
<1>1. no \in BOOLEAN
  OBVIOUS
<1> SUFFICES cleared \in Entries
  OBVIOUS
<1> HIDE DEF no
<1>2. CASE e = Absent
  <2> DEFINE held == FALSE
  <2>1. e = [held |-> held]
    BY <1>2 DEF Absent
  <2> HIDE DEF held
  <2>2. e = [field \in DOMAIN e |-> e[field]] /\ "invalid" \notin DOMAIN e
    BY <2>1
  <2>3. cleared = e
    BY <2>2
  <2> HIDE DEF cleared
  <2> QED
    BY <2>3
<1>3. CASE e \in [held : {TRUE}, seen : Seens, invalid : BOOLEAN, overtaken : BOOLEAN]
  <2>1. cleared \in [held : {TRUE}, seen : Seens, invalid : BOOLEAN, overtaken : BOOLEAN]
    BY <1>1, <1>3
  <2> HIDE DEF cleared
  <2> QED
    BY <2>1 DEF Entries
<1>4. cleared \in Entries
  <2>1. e = Absent \/ e \in [held : {TRUE}, seen : Seens, invalid : BOOLEAN, overtaken : BOOLEAN]
    BY DEF Entries
  <2> QED
    BY <1>2, <1>3, <2>1
<1> QED
  BY <1>4

LEMMA PressTell ==
    ASSUME PressInv, TellInv, NEW b \in DOMAIN ButtonOf, Press(b)
    PROVE  TellInv'
<1> DEFINE old == [i \in DOMAIN pressed |-> [pressed[i] EXCEPT !.waits = @ \ ButtonOf[b].always]]
           n   == Len(pressed)
           always == ButtonOf[b].always
<1>1. /\ pressed' = Append(old, Asked(b)) /\ UNCHANGED <<server, screen, page>>
      /\ OnMutate(always)
  BY DEF Press
<1>2. /\ old \in Seq(Requests) /\ DOMAIN old = DOMAIN pressed
      /\ \A i \in DOMAIN pressed : Alike(pressed[i], old[i])
  BY EndedKept, EndedAlike
<1> HIDE DEF old
<1>3. n \in Nat /\ DOMAIN pressed = 1 .. n /\ Len(old) = n
  BY <1>2 DEF PressInv
<1> HIDE DEF n
<1>4. Asked(b) \in Requests /\ Asked(b).button = b /\ Asked(b).stage = "asked"
  BY AskedType
<1>5. /\ DOMAIN pressed' = 1 .. (n + 1) /\ pressed'[n + 1] = Asked(b)
      /\ \A i \in 1 .. n : i \in DOMAIN pressed' /\ pressed'[i] = old[i]
      /\ \A i \in DOMAIN pressed' : i \in 1 .. n \/ i = n + 1
  <2>1. /\ DOMAIN pressed' = 1 .. (n + 1) /\ pressed'[n + 1] = Asked(b)
        /\ \A i \in 1 .. n : pressed'[i] = old[i]
    BY <1>1, <1>2, <1>3, <1>4, Appended
  <2> QED
    BY <1>3, <2>1
<1>6. \A i \in 1 .. n : i \in DOMAIN pressed /\ GoesOn(pressed[i], pressed'[i])
  BY <1>2, <1>3, <1>5, AlikeGoesOn
<1>7. ASSUME NEW q \in Queries
      PROVE  /\ q \in always => Redrawn(Asked(b), q)
             /\ q \notin always => cache'[q] = cache[q] /\ fetch'[q] = fetch[q]
             /\ q \in always => cache'[q] = [cache[q] EXCEPT !.invalid = FALSE] /\ fetch'[q] = NoFetch
  BY <1>1, <1>4 DEF OnMutate, Redrawn
<1>8. /\ cache' = [q \in Queries |-> cache'[q]] /\ fetch' = [q \in Queries |-> fetch'[q]]
  BY <1>1 DEF OnMutate
<1> HIDE DEF always
<1>9. ASSUME NEW q \in Queries
      PROVE  /\ cache'[q] \in Entries /\ fetch'[q] \in FetchStates
             /\ UnderWay(fetch'[q]) => q \in Shown
             /\ \A w, m : FetchKnows(fetch[q], w, m) => FetchKnows(fetch'[q], w, m)
  <2>1. cache[q] \in Entries /\ fetch[q] \in FetchStates /\ (UnderWay(fetch[q]) => q \in Shown)
    BY DEF TellInv, DeviceType
  <2>2. CASE q \in always
    BY <1>7, <2>1, <2>2, ClearedType, FetchesKnow
  <2>3. CASE q \notin always
    BY <1>7, <2>1, <2>3
  <2> QED
    BY <2>2, <2>3
<1>10. DeviceType'
  <2>1. cache' \in [Queries -> Entries] /\ fetch' \in [Queries -> FetchStates]
    BY <1>8, <1>9
  <2>2. page' \in SUBSET Pages /\ Shown' = Shown
    BY <1>1 DEF TellInv, DeviceType, Shown
  <2> QED
    BY <1>9, <2>1, <2>2 DEF DeviceType, UnderWay
<1>11. Remembers
  <2> SUFFICES ASSUME NEW q \in Queries, NEW w \in QueryOf[q].reads, NEW m \in Nat,
                      m <= server[w], Around(q, w, m)
               PROVE  Around(q, w, m)'
    BY DEF Remembers
  <2>1. w \in Resources
    BY ReadersOf
  <2>2. n + 1 \in DOMAIN pressed'
    BY <1>3, <1>5
  <2>3. Knows(cache'[q], w, m) \/ \E k \in DOMAIN pressed' : Redrawn(pressed'[k], q)
    <3>1. CASE q \in always
      BY <1>5, <1>7, <2>2, <3>1
    <3>2. CASE q \notin always /\ Knows(cache[q], w, m)
      BY <1>7, <3>2
    <3>3. ASSUME NEW k \in DOMAIN pressed, Redrawn(pressed[k], q)
          PROVE  k \in DOMAIN pressed' /\ Redrawn(pressed'[k], q)
      BY <1>3, <1>5, <1>6, <3>3 DEF GoesOn
    <3> QED
      BY <3>1, <3>2, <3>3 DEF Around
  <2>4. ASSUME NEW k \in DOMAIN pressed'
        PROVE  AnswerKnows(pressed'[k], q, w, m)
    <3>1. CASE k = n + 1
      BY <1>4, <1>5, <3>1 DEF AnswerKnows
    <3>2. CASE k \in 1 .. n
      <4>1. GoesOn(pressed[k], pressed'[k]) /\ AnswerKnows(pressed[k], q, w, m)
        BY <1>6, <3>2 DEF Around
      <4> QED
        BY <2>1, <4>1 DEF GoesOn
    <3> QED
      BY <1>5, <3>1, <3>2
  <2>5. FetchKnows(fetch'[q], w, m) /\ \A arriving \in page' : PageKnows(arriving, q, w, m)
    BY <1>1, <1>9 DEF Around
  <2> QED
    BY <2>3, <2>4, <2>5 DEF Around, Redrawn, AnswerKnows, Knows, FetchKnows, PageKnows
<1>12. AnswersSeeTheirChange'
  <2>1. \A i \in 1 .. n : Sees(pressed'[i])
    BY <1>6 DEF GoesOn, TellInv, AnswersSeeTheirChange, Sees
  <2>2. Sees(pressed'[n + 1])
    BY <1>4, <1>5 DEF Sees
  <2>3. \A i \in DOMAIN pressed' : Sees(pressed'[i])
    BY <1>5, <2>1, <2>2
  <2> QED
    BY <2>3 DEF AnswersSeeTheirChange, Sees
<1>13. ASSUME NEW i \in DOMAIN pressed', NEW q \in Queries, HasTold(pressed'[i], q)
       PROVE  /\ i \in DOMAIN pressed /\ HasTold(pressed[i], q)
              /\ pressed'[i].button = pressed[i].button /\ pressed'[i].at = pressed[i].at
  <2>1. i # n + 1
    BY <1>4, <1>5, <1>13 DEF HasTold
  <2> QED
    BY <1>5, <1>6, <1>13, <2>1 DEF GoesOn
<1> QED
  BY <1>10, <1>11, <1>12, <1>13, TellStep

\* A press settles: the host is taken on, and nothing is left to come.
LEMMA SettleTell ==
    ASSUME PressInv, TellInv, NEW i \in DOMAIN pressed, Settle(i)
    PROVE  TellInv'
<1> DEFINE r     == pressed[i]
           last  == IF r.stage = "settling" THEN "done" ELSE "failed"
           s     == [r EXCEPT !.stage = last]
           ended == [pressed EXCEPT ![i] = s]
<1>1. /\ r \in Requests /\ r.stage \in {"settling", "failing"} /\ r.rest = <<>>
      /\ pressed \in Seq(Requests) /\ r.button \in DOMAIN ButtonOf
  <2>1. r.stage \in {"settling", "failing"} /\ r.rest = <<>>
    BY DEF Settle
  <2>2. r \in Requests /\ pressed \in Seq(Requests)
    BY DEF PressInv
  <2> HIDE DEF r
  <2> QED
    BY <2>1, <2>2 DEF Requests
<1>2. \/ pressed' = ended /\ UNCHANGED <<screen, page, cache, fetch>>
      \/ /\ pressed' = ended /\ UNCHANGED <<screen, cache, fetch>>
         /\ \E to \in ButtonOf[r.button].pushes : Render(to)
      \/ \E to : Show(to, cache, ended) /\ UNCHANGED page
  <2> DEFINE moved == [pressed EXCEPT ![i].stage = IF @ = "settling" THEN "done" ELSE "failed"]
  <2>1. moved = ended
    BY <1>1
  <2>2. \/ pressed' = moved /\ UNCHANGED <<screen, page, cache, fetch>>
        \/ /\ pressed' = moved /\ UNCHANGED <<screen, cache, fetch>>
           /\ \E to \in ButtonOf[r.button].pushes : Render(to)
        \/ \E to : Show(to, cache, moved) /\ UNCHANGED page
    BY Zenon DEF Settle
  <2> HIDE DEF moved, ended
  <2> QED
    BY <2>1, <2>2
<1>3. last \in {"done", "failed"} /\ (last = "done" => r.stage = "settling")
  BY <1>1
<1> HIDE DEF r, last
<1>4. /\ s \in Requests /\ s.stage = last /\ s.button = r.button /\ s.at = r.at /\ s.rest = r.rest
  BY <1>1, <1>3 DEF Requests, Stages
<1> HIDE DEF s
<1>5. GoesOn(r, s)
  <2>1. \A q : HasTold(s, q) => HasTold(r, q) /\ s.button = r.button /\ s.at = r.at
    BY <1>1, <1>3, <1>4 DEF HasTold, ToCome
  <2>2. (\A q : ~Redrawn(r, q)) /\ \A q, w, m : AnswerKnows(s, q, w, m)
    BY <1>1, <1>3, <1>4 DEF Redrawn, AnswerKnows
  <2>3. Sees(s)
    BY <1>1, <1>3, <1>4 DEF Sees
  <2> QED
    BY <2>1, <2>2, <2>3 DEF GoesOn
<1>6. /\ ended \in Seq(Requests) /\ DOMAIN ended = DOMAIN pressed /\ ended[i] = s
      /\ \A j \in DOMAIN pressed \ {i} : ended[j] = pressed[j]
  BY <1>1, <1>4
<1> HIDE DEF ended
<1>7. CASE pressed' = ended /\ UNCHANGED <<screen, page, cache, fetch>>
  BY <1>5, <1>6, <1>7, OneGoesOn DEF r
<1>8. \A j \in DOMAIN pressed : GoesOn(pressed[j], ended[j])
  <2>1. \A j \in DOMAIN pressed \ {i} : Alike(pressed[j], ended[j])
    BY <1>6 DEF Alike
  <2> QED
    BY <1>5, <1>6, <2>1, AlikeGoesOn DEF r
<1>9. ASSUME NEW to \in ButtonOf[r.button].pushes, Render(to),
             pressed' = ended, UNCHANGED <<screen, cache, fetch>>
      PROVE  TellInv'
  <2>1. to \in Screens
    BY <1>1, Buttons DEF Sends, ButtonRecords
  <2>2. /\ page' \in SUBSET Pages
        /\ \A q, w, n : n <= server[w] => \A arriving \in page' : PageKnows(arriving, q, w, n)
    BY <1>9, <2>1, RenderKnows
  <2>3. DeviceType'
    BY <1>9, <2>2 DEF TellInv, DeviceType, Shown
  <2>4. DeviceRemembers
    BY <1>9, <2>2 DEF DeviceRemembers, Around
  <2> QED
    BY <1>6, <1>8, <1>9, <2>3, <2>4, AllGoOn
<1>10. ASSUME NEW to, Show(to, cache, ended), UNCHANGED page
       PROVE  TellInv'
  <2>1. /\ cache' = cache /\ pressed' = Left(ended, to) /\ cache \in [Queries -> Entries]
        /\ page' \in SUBSET Pages
    BY <1>10 DEF Show, TellInv, DeviceType
  <2>2. /\ DeviceType'
        /\ \A q \in Queries : \A w, n : FetchKnows(fetch[q], w, n) => FetchKnows(fetch'[q], w, n)
    BY <1>10, <2>1, ShowKnows DEF TellInv
  <2>3. DOMAIN pressed' = DOMAIN ended /\ \A j \in DOMAIN ended : GoesOn(ended[j], pressed'[j])
    BY <1>6, <2>1, LeftAlike, AlikeGoesOn
  <2>4. \A j \in DOMAIN pressed : GoesOn(pressed[j], pressed'[j])
    BY <1>6, <1>8, <2>3 DEF GoesOn
  <2>5. DeviceRemembers
    BY <1>10, <2>1, <2>2 DEF DeviceRemembers, Around
  <2> QED
    BY <1>6, <2>2, <2>3, <2>4, <2>5, AllGoOn
<1> QED
  BY <1>2, <1>7, <1>9, <1>10

-----------------------------------------------------------------------------
(* Callbacks.                                                              *)

\* An answer is written into some queries and others are read again: what the device holds
\* or waits for of the first is overtaken, the second are marked.
Reread(sets, first, c) ==
    /\ cache' = Marked(first, c) /\ fetch' = Overtaken(sets, Again(first, c))
    /\ PageOvertaken(sets \cup first) /\ UNCHANGED screen

LEMMA RereadFetches ==
    ASSUME DeviceType, NEW sets \in SUBSET Queries, NEW first \in SUBSET Queries,
           NEW c \in [Queries -> Entries], Reread(sets, first, c), NEW q \in Queries
    PROVE  /\ fetch'[q] \in FetchStates /\ (UnderWay(fetch'[q]) => q \in Shown)
           /\ \A w, n : FetchKnows(fetch[q], w, n) \/ q \in sets \cup first => FetchKnows(fetch'[q], w, n)
<1> DEFINE f == Again(first, c)[q]
<1>1. fetch[q] \in FetchStates /\ (UnderWay(fetch[q]) => q \in Shown)
  BY DEF DeviceType
<1>2. /\ q \notin first \cap Shown => f = fetch[q]
      /\ q \in first \cap Shown =>
             \/ f = Sent
             \/ UnderWay(fetch[q]) /\ f = [fetch[q] EXCEPT !.overtaken = TRUE]
  BY DEF Again
<1>3. \/ fetch'[q] = f /\ (q \in sets => ~UnderWay(f))
      \/ UnderWay(f) /\ fetch'[q] = [f EXCEPT !.overtaken = TRUE]
  BY DEF Reread, Overtaken
<1> HIDE DEF f
<1>4. /\ f \in FetchStates /\ (UnderWay(f) => q \in Shown)
      /\ \A w, n : FetchKnows(fetch[q], w, n) \/ q \in first => FetchKnows(f, w, n)
  <2>1. CASE q \in first \cap Shown
    BY <1>1, <1>2, <2>1, FetchesKnow
  <2>2. CASE q \in first \ Shown
    BY <1>1, <1>2, <2>2, FetchesKnow
  <2>3. CASE q \notin first
    BY <1>1, <1>2, <2>3
  <2> QED
    BY <2>1, <2>2, <2>3
<1>5. CASE UnderWay(f) /\ fetch'[q] = [f EXCEPT !.overtaken = TRUE]
  BY <1>4, <1>5, FetchesKnow
<1>6. CASE fetch'[q] = f /\ (q \in sets => ~UnderWay(f))
  BY <1>4, <1>6, FetchesKnow
<1> QED
  BY <1>3, <1>5, <1>6

LEMMA RereadCache ==
    ASSUME NEW sets, NEW first, NEW c \in [Queries -> Entries], Reread(sets, first, c), NEW q \in Queries
    PROVE  /\ cache'[q] \in Entries
           /\ \A w, n : Knows(c[q], w, n) \/ q \in first => Knows(cache'[q], w, n)
<1> DEFINE marked == IF c[q].held THEN [c[q] EXCEPT !.invalid = TRUE] ELSE c[q]
<1>1. marked \in Entries /\ \A w, n : Knows(marked, w, n)
  BY MarkKnows
<1>2. cache'[q] = IF q \in first THEN marked ELSE c[q]
  BY DEF Reread, Marked
<1> HIDE DEF marked
<1> QED
  BY <1>1, <1>2

LEMMA RereadPages ==
    ASSUME DeviceType, NEW sets \in SUBSET Queries, NEW first \in SUBSET Queries, NEW c,
           Reread(sets, first, c)
    PROVE  /\ page' \in SUBSET Pages
           /\ \A q, w, n : (\A arriving \in page : PageKnows(arriving, q, w, n)) \/ q \in sets \cup first
                           => \A arriving \in page' : PageKnows(arriving, q, w, n)
<1> DEFINE qs == sets \cup first
<1>1. qs \in SUBSET Queries
  OBVIOUS
<1>2. page' = {[arriving EXCEPT !.overtaken = @ \cup qs] : arriving \in page}
  BY DEF Reread, PageOvertaken
<1> HIDE DEF qs
<1>3. ASSUME NEW arriving \in Pages
      PROVE  LET late == [arriving EXCEPT !.overtaken = @ \cup qs]
             IN  /\ late \in Pages /\ late.brought = arriving.brought
                 /\ late.overtaken = arriving.overtaken \cup qs
  BY <1>1 DEF Pages
<1>4. page \in SUBSET Pages
  BY DEF DeviceType
<1>5. page' \in SUBSET Pages
  BY <1>2, <1>3, <1>4
<1>6. \A q, w, n : (\A arriving \in page : PageKnows(arriving, q, w, n)) \/ q \in qs
                   => \A arriving \in page' : PageKnows(arriving, q, w, n)
  BY <1>2, <1>3, <1>4 DEF PageKnows
<1> QED
  BY <1>5, <1>6 DEF qs

LEMMA RereadDevice ==
    ASSUME DeviceType, NEW sets \in SUBSET Queries, NEW first \in SUBSET Queries,
           NEW c \in [Queries -> Entries], Reread(sets, first, c)
    PROVE  DeviceType'
<1>1. cache' = [q \in Queries |-> cache'[q]] /\ fetch' = [q \in Queries |-> fetch'[q]]
  BY DEF Reread, Marked, Overtaken
<1>2. cache' \in [Queries -> Entries] /\ fetch' \in [Queries -> FetchStates]
  BY <1>1, RereadCache, RereadFetches
<1>3. \A q \in Queries : UnderWay(fetch'[q]) => q \in Shown
  BY RereadFetches
<1>4. Shown' = Shown
  BY DEF Reread, Shown
<1> QED
  BY <1>2, <1>3, <1>4, RereadPages DEF DeviceType, UnderWay

\* Other answers that are still to come are overtaken as well.
LEMMA OvertakenGoesOn ==
    ASSUME NEW r \in Requests, NEW qs \in SUBSET Queries
    PROVE  /\ GoesOn(r, RequestOvertaken(r, qs))
           /\ \A q \in qs : \A w, n : AnswerKnows(RequestOvertaken(r, qs), q, w, n)
<1> DEFINE s == RequestOvertaken(r, qs)
<1>1. Alike(r, s) /\ (s.stage = "answered" => qs \subseteq s.overtaken)
  BY DEF RequestOvertaken, Requests, Alike
<1> HIDE DEF s
<1>2. GoesOn(r, s) /\ \A q \in qs : \A w, n : AnswerKnows(s, q, w, n)
  BY <1>1, AlikeGoesOn DEF AnswerKnows
<1> QED
  BY <1>2 DEF s

\* One request writes its answer or has the next group read again: what it reaches with
\* that knows its change, and the others keep what they know.
LEMMA RereadTell ==
    ASSUME PressInv, TellInv, NEW i \in DOMAIN pressed,
           NEW sets \in SUBSET Queries, NEW first \in SUBSET Queries,
           NEW c \in [Queries -> Entries], Reread(sets, first, c),
           DOMAIN pressed' = DOMAIN pressed,
           \A j \in DOMAIN pressed \ {i} : pressed'[j] = RequestOvertaken(pressed[j], sets \cup first),
           pressed'[i].button = pressed[i].button, pressed'[i].at = pressed[i].at,
           pressed'[i].stage \notin {"answered", "done"},
           \A q \in Queries : \A w, n : w \in QueryOf[q].reads /\ Around(q, w, n) /\ Knows(cache[q], w, n)
                                            => Knows(c[q], w, n),
           \A q : Redrawn(pressed[i], q) => q \in first,
           \A q \in Queries : HasTold(pressed'[i], q) =>
               \/ HasTold(pressed[i], q)
               \/ q \in first
               \/ q \in sets /\ Knows(c[q], ButtonOf[pressed[i].button].writes, pressed[i].at)
    PROVE  TellInv'
<1>1. DeviceType /\ DeviceType'
  BY RereadDevice DEF TellInv
<1>2. ASSUME NEW j \in DOMAIN pressed \ {i}
      PROVE  /\ GoesOn(pressed[j], pressed'[j])
             /\ \A q \in sets \cup first : \A w, n : AnswerKnows(pressed'[j], q, w, n)
  <2>1. pressed[j] \in Requests /\ sets \cup first \in SUBSET Queries
    BY DEF PressInv
  <2> QED
    BY <2>1, OvertakenGoesOn
<1>3. \A q, w, n : AnswerKnows(pressed'[i], q, w, n)
  BY DEF AnswerKnows
<1>4. ASSUME NEW q \in sets \cup first, NEW w, NEW n, Knows(cache'[q], w, n)
      PROVE  Around(q, w, n)'
  <2>1. FetchKnows(fetch'[q], w, n) /\ \A arriving \in page' : PageKnows(arriving, q, w, n)
    BY <1>1, RereadFetches, RereadPages
  <2>2. \A k \in DOMAIN pressed' : AnswerKnows(pressed'[k], q, w, n)
    BY <1>2, <1>3
  <2> QED
    BY <1>4, <2>1, <2>2 DEF Around, Redrawn, AnswerKnows, Knows, FetchKnows, PageKnows
<1>5. Remembers
  <2> SUFFICES ASSUME NEW q \in Queries, NEW w \in QueryOf[q].reads, NEW n \in Nat,
                      n <= server[w], Around(q, w, n)
               PROVE  Around(q, w, n)'
    BY DEF Remembers
  <2>1. w \in Resources
    BY ReadersOf
  <2>2. Knows(cache'[q], w, n) \/ \E k \in DOMAIN pressed' : Redrawn(pressed'[k], q)
    <3>1. CASE Knows(cache[q], w, n)
      BY <3>1, RereadCache
    <3>2. ASSUME NEW k \in DOMAIN pressed, Redrawn(pressed[k], q)
          PROVE  Knows(cache'[q], w, n) \/ Redrawn(pressed'[k], q)
      <4>1. CASE k = i
        BY <3>2, <4>1, RereadCache
      <4>2. CASE k # i
        BY <1>2, <3>2, <4>2 DEF GoesOn
      <4> QED
        BY <4>1, <4>2
    <3> QED
      BY <3>1, <3>2 DEF Around
  <2>3. FetchKnows(fetch'[q], w, n) /\ \A arriving \in page' : PageKnows(arriving, q, w, n)
    BY <1>1, RereadFetches, RereadPages DEF Around
  <2>4. ASSUME NEW k \in DOMAIN pressed'
        PROVE  AnswerKnows(pressed'[k], q, w, n)
    <3>1. CASE k = i
      BY <1>3, <3>1
    <3>2. CASE k # i
      <4>1. GoesOn(pressed[k], pressed'[k]) /\ AnswerKnows(pressed[k], q, w, n)
        BY <1>2, <3>2 DEF Around
      <4> QED
        BY <2>1, <4>1 DEF GoesOn
    <3> QED
      BY <3>1, <3>2
  <2> QED
    BY <2>2, <2>3, <2>4 DEF Around, Redrawn, AnswerKnows, Knows, FetchKnows, PageKnows
<1>6. AnswersSeeTheirChange'
  <2>1. \A j \in DOMAIN pressed : Sees(pressed[j])
    BY DEF TellInv, AnswersSeeTheirChange, Sees
  <2>2. \A j \in DOMAIN pressed' : Sees(pressed'[j])
    <3>1. Sees(pressed'[i])
      BY DEF Sees
    <3>2. \A j \in DOMAIN pressed \ {i} : Sees(pressed'[j])
      BY <1>2, <2>1 DEF GoesOn
    <3> QED
      BY <3>1, <3>2
  <2> QED
    BY <2>2 DEF AnswersSeeTheirChange, Sees
<1>7. ASSUME NEW j \in DOMAIN pressed', NEW q \in Queries, HasTold(pressed'[j], q)
      PROVE  \/ /\ j \in DOMAIN pressed /\ HasTold(pressed[j], q)
                /\ pressed'[j].button = pressed[j].button /\ pressed'[j].at = pressed[j].at
             \/ Around(q, ButtonOf[pressed[j].button].writes, pressed[j].at)'
  <2>1. CASE j # i
    BY <1>2, <1>7, <2>1 DEF GoesOn
  <2>2. CASE j = i /\ HasTold(pressed[i], q)
    BY <2>2
  <2>3. CASE j = i /\ ~HasTold(pressed[i], q)
    <3> DEFINE w == ButtonOf[pressed[i].button].writes
               n == pressed[i].at
    <3>1. q \in first \/ (q \in sets /\ Knows(c[q], w, n))
      BY <1>7, <2>3
    <3>2. w = ButtonOf[pressed'[i].button].writes /\ n = pressed'[i].at
      OBVIOUS
    <3>3. PICK resource, changes : resource = w /\ changes = n
      OBVIOUS
    <3> HIDE DEF w, n
    <3>4. Knows(cache'[q], resource, changes)
      BY <3>1, <3>3, RereadCache
    <3>5. Around(q, resource, changes)'
      BY <1>4, <3>1, <3>4
    <3> QED
      BY <2>3, <3>2, <3>3, <3>5 DEF Around
  <2> QED
    BY <2>1, <2>2, <2>3
<1> QED
  BY <1>1, <1>5, <1>6, <1>7, TellStep

\* What a button reads again: its groups, and at the end what it showed before it was sent.
LEMMA GroupsOf ==
    ASSUME NEW b \in DOMAIN ButtonOf
    PROVE  LET groups == ButtonOf[b].refreshes \o Always(b)
           IN  /\ groups \in Seq(SUBSET Queries) /\ Always(b) \in Seq(SUBSET Queries)
               /\ \A q \in Told(b) : q \in ButtonOf[b].sets \/ \E n \in DOMAIN groups : q \in groups[n]
               /\ \A q \in ButtonOf[b].always : /\ groups # <<>> /\ q \in Head(groups)
                                                /\ Always(b) # <<>> /\ q \in Head(Always(b))
<1> DEFINE S == SUBSET Queries
           list == ButtonOf[b].refreshes
           always == ButtonOf[b].always
           last == Always(b)
           groups == list \o last
           none == <<>>
           one == <<always>>
<1>1. list \in Seq(S) /\ always \in S
  BY SendsType
<1>2. /\ \A q \in Told(b) : \/ q \in ButtonOf[b].sets \/ q \in always
                            \/ \E n \in DOMAIN list : q \in list[n]
      /\ always # {} => list = none
  BY ButtonReaches DEF Reaches
<1>3. last = IF always = {} THEN none ELSE one
  BY DEF Always
<1>4. none \in Seq(S) /\ Len(none) = 0 /\ (\A s \in Seq(S) : Len(s) > 0 => s # none)
  OBVIOUS
<1>5. one \in Seq(S) /\ Len(one) = 1 /\ one[1] = always
  BY <1>1
<1> HIDE DEF list, last, always, none, one, S
<1>6. last \in Seq(S)
  BY <1>3, <1>4, <1>5
<1>7. /\ groups \in Seq(S) /\ Len(groups) = Len(list) + Len(last)
      /\ \A i \in 1 .. Len(list) : groups[i] = list[i]
      /\ \A i \in 1 .. Len(last) : groups[Len(list) + i] = last[i]
  BY <1>1, <1>6, Joined
<1> HIDE DEF groups
<1>8. \A s \in Seq(S) : Len(s) \in Nat /\ DOMAIN s = 1 .. Len(s) /\ Head(s) = s[1]
  OBVIOUS
<1>9. CASE always = {}
  <2>1. \A n \in DOMAIN list : n \in DOMAIN groups /\ groups[n] = list[n]
    <3>1. Len(list) \in Nat /\ Len(last) \in Nat /\ Len(groups) \in Nat
      BY <1>1, <1>6, <1>7, <1>8
    <3> QED
      BY <1>1, <1>7, <1>8, <3>1
  <2> QED
    BY <1>2, <1>6, <1>7, <1>9, <2>1 DEF groups, S, list, last, always
<1>10. CASE always # {}
  <2>1. list = none /\ last = one
    BY <1>2, <1>3, <1>10
  <2>2. Len(groups) = 1 /\ groups[1] = always /\ Len(last) = 1 /\ last[1] = always
    BY <1>4, <1>5, <1>7, <2>1
  <2>3. /\ groups # none /\ last # none /\ Head(groups) = always /\ Head(last) = always
        /\ 1 \in DOMAIN groups
    BY <1>4, <1>6, <1>7, <1>8, <2>2
  <2>4. \A q \in Told(b) : q \in ButtonOf[b].sets \/ \E n \in DOMAIN groups : q \in groups[n]
    <3>1. \A q \in Told(b) : q \in ButtonOf[b].sets \/ q \in always
      BY <1>2, <1>4, <1>8, <2>1
    <3> QED
      BY <2>2, <2>3, <3>1
  <2> QED
    BY <1>6, <1>7, <2>3, <2>4 DEF groups, S, list, last, always, none
<1> QED
  BY <1>9, <1>10

\* A group is the first or among the rest.
LEMMA FirstAndRest ==
    ASSUME NEW groups \in Seq(SUBSET Queries), groups # <<>>, NEW n \in DOMAIN groups, NEW q \in groups[n]
    PROVE  q \in Head(groups) \/ \E m \in DOMAIN Tail(groups) : q \in Tail(groups)[m]
<1>1. n \in 1 .. Len(groups) /\ Len(groups) \in Nat
  OBVIOUS
<1>2. CASE n = 1
  BY <1>2
<1>3. CASE n # 1
  <2>1. n - 1 \in DOMAIN Tail(groups) /\ Tail(groups)[n - 1] = groups[n]
    BY <1>1, <1>3
  <2> QED
    BY <2>1
<1> QED
  BY <1>2, <1>3

\* An answer that is written has seen its own change, and what the query knew of others.
LEMMA WrittenKnows ==
    ASSUME PressInv, TellInv, NEW i \in DOMAIN pressed, pressed[i].stage = "answered"
    PROVE  LET c == Written(i, cache)
               b == ButtonOf[pressed[i].button]
           IN  /\ c \in [Queries -> Entries]
               /\ \A q \in Queries : \A w, n :
                      w \in QueryOf[q].reads /\ Around(q, w, n) /\ Knows(cache[q], w, n) => Knows(c[q], w, n)
               /\ \A q \in b.sets : b.writes \in QueryOf[q].reads => Knows(c[q], b.writes, pressed[i].at)
<1> DEFINE r == pressed[i]
           b == ButtonOf[r.button]
           c == Written(i, cache)
           a == CHOOSE answer \in r.answer : TRUE
<1>1. r \in Requests /\ cache \in [Queries -> Entries]
  BY DEF PressInv, TellInv, DeviceType
<1>2. r.answer # {} /\ \A answer \in r.answer : answer[b.writes] = r.at
  BY DEF TellInv, AnswersSeeTheirChange
<1>3. a \in r.answer
  BY <1>2
<1>4. a \in [Resources -> Nat] /\ a[b.writes] = r.at
  BY <1>1, <1>2, <1>3 DEF Requests
<1>5. r.at \in Nat /\ b.sets \in SUBSET Queries
  BY <1>1, SendsType DEF Requests
<1>6. ASSUME NEW q \in b.sets
      PROVE  /\ c[q] \in Entries
             /\ \A w, n : w \in QueryOf[q].reads /\ Around(q, w, n) => Knows(c[q], w, n)
             /\ b.writes \in QueryOf[q].reads => Knows(c[q], b.writes, r.at)
  <2> DEFINE late == q \in r.overtaken
             seen == Seen(q, a)
  <2>1. c[q] = Entry(seen, late)
    BY <1>5 DEF Written
  <2>2. late \in BOOLEAN /\ (late = TRUE <=> q \in r.overtaken)
    OBVIOUS
  <2>3. seen \in Seens /\ \A w \in QueryOf[q].reads : seen[w] = a[w]
    BY <1>4, <1>5, SeenKnows
  <2>4. \A w, n : Around(q, w, n) => (\A answer \in r.answer : answer[w] >= n) \/ q \in r.overtaken
    BY DEF Around, AnswerKnows
  <2> HIDE DEF late, seen, a, r, c
  <2>5. /\ Entry(seen, late) \in Entries
        /\ \A w, n : seen[w] >= n \/ late = TRUE => Knows(Entry(seen, late), w, n)
    BY <2>2, <2>3, EntryKnows
  <2>6. \A w, n : w \in QueryOf[q].reads /\ Around(q, w, n) => Knows(Entry(seen, late), w, n)
    BY <1>3, <2>2, <2>3, <2>4, <2>5
  <2>7. b.writes \in QueryOf[q].reads => Knows(Entry(seen, late), b.writes, r.at)
    BY <1>4, <1>5, <2>3, <2>5
  <2> QED
    BY <2>1, <2>5, <2>6, <2>7
<1>7. \A q \in Queries \ b.sets : c[q] = cache[q]
  BY DEF Written
<1>8. c = [q \in Queries |-> c[q]]
  BY DEF Written
<1> HIDE DEF c, b
<1>9. c \in [Queries -> Entries]
  BY <1>1, <1>6, <1>7, <1>8
<1> QED
  BY <1>6, <1>7, <1>9 DEF c, b

\* onSuccess and onError: what the answer is written into or what is read again first.
LEMMA CallbacksTell ==
    ASSUME PressInv, TellInv, NEW i \in DOMAIN pressed,
           NEW sets \in SUBSET Queries, NEW groups \in Seq(SUBSET Queries),
           NEW stage \in {"settling", "failing"}, Callbacks(i, sets, groups, stage),
           pressed[i].stage \notin {"settling", "done"},
           stage = "settling" => /\ pressed[i].stage = "answered"
                                 /\ sets = ButtonOf[pressed[i].button].sets
                                 /\ \A q \in Told(pressed[i].button) :
                                        q \in sets \/ \E n \in DOMAIN groups : q \in groups[n],
           \A q \in ButtonOf[pressed[i].button].always : groups # <<>> /\ q \in Head(groups)
    PROVE  TellInv'
<1> DEFINE first == IF groups = <<>> THEN {} ELSE Head(groups)
           rest  == IF groups = <<>> THEN <<>> ELSE Tail(groups)
           waits == first \cap Shown
           c == IF stage = "settling" THEN Written(i, cache) ELSE cache
           r == pressed[i]
           s == [r EXCEPT !.stage = stage, !.waits = waits, !.answer = {}, !.overtaken = {}, !.rest = rest]
<1>1. first \in SUBSET Queries /\ rest \in Seq(SUBSET Queries)
  BY GroupsType
<1>2. /\ pressed' = [j \in DOMAIN pressed |->
                         IF j = i THEN s ELSE RequestOvertaken(pressed[j], sets \cup first)]
      /\ Reread(sets, first, c)
  BY DEF Callbacks, Reread
<1>3. r \in Requests /\ cache \in [Queries -> Entries]
  BY DEF PressInv, TellInv, DeviceType
<1>4. /\ c \in [Queries -> Entries]
      /\ \A q \in Queries : \A w, n : w \in QueryOf[q].reads /\ Around(q, w, n) /\ Knows(cache[q], w, n)
                                          => Knows(c[q], w, n)
  BY <1>3, WrittenKnows
<1>5. stage = "settling" => \A q \in sets : ButtonOf[r.button].writes \in QueryOf[q].reads
                                => Knows(c[q], ButtonOf[r.button].writes, r.at)
  BY WrittenKnows
<1>6. \A q, n : n \in DOMAIN groups /\ q \in groups[n]
                   => q \in first \/ q \in UNION {rest[m] : m \in DOMAIN rest}
  <2>1. CASE groups = <<>>
    BY <2>1
  <2>2. CASE groups # <<>>
    BY <2>2, FirstAndRest
  <2> QED
    BY <2>1, <2>2
<1>7. \A q : Redrawn(r, q) => q \in first
  BY DEF Redrawn
<1> HIDE DEF first, rest, c
<1>8. /\ s.stage = stage /\ s.button = r.button /\ s.at = r.at /\ s.rest = rest
  BY <1>3 DEF Requests
<1>9. DOMAIN pressed' = DOMAIN pressed /\ pressed'[i] = s
      /\ \A j \in DOMAIN pressed \ {i} : pressed'[j] = RequestOvertaken(pressed[j], sets \cup first)
  BY <1>2
<1> HIDE DEF s, r
<1>10. ASSUME NEW q \in Queries, HasTold(s, q)
       PROVE  \/ q \in first
              \/ q \in sets /\ Knows(c[q], ButtonOf[r.button].writes, r.at)
  <2>1. stage = "settling" /\ q \in Told(r.button) /\ q \notin UNION {rest[m] : m \in DOMAIN rest}
    BY <1>8, <1>10 DEF HasTold, ToCome
  <2>2. ButtonOf[r.button].writes \in QueryOf[q].reads
    BY <2>1 DEF Told
  <2>3. q \in sets \/ \E n \in DOMAIN groups : q \in groups[n]
    BY <2>1 DEF r
  <2> QED
    BY <1>5, <1>6, <2>1, <2>2, <2>3
<1>11. /\ pressed'[i].button = pressed[i].button /\ pressed'[i].at = pressed[i].at
       /\ pressed'[i].stage \notin {"answered", "done"}
       /\ \A q : Redrawn(pressed[i], q) => q \in first
       /\ \A q \in Queries : HasTold(pressed'[i], q) =>
               \/ q \in first
               \/ q \in sets /\ Knows(c[q], ButtonOf[pressed[i].button].writes, pressed[i].at)
  BY <1>7, <1>8, <1>9, <1>10 DEF r
<1> HIDE DEF waits
<1>12. Reread(sets, first, c) /\ DOMAIN pressed' = DOMAIN pressed
  BY <1>2, <1>9
<1>13. \A j \in DOMAIN pressed \ {i} : pressed'[j] = RequestOvertaken(pressed[j], sets \cup first)
  BY <1>9
<1>14. \A q \in Queries : HasTold(pressed'[i], q) =>
           \/ HasTold(pressed[i], q)
           \/ q \in first
           \/ q \in sets /\ Knows(c[q], ButtonOf[pressed[i].button].writes, pressed[i].at)
  BY <1>11
<1> QED
  BY <1>1, <1>4, <1>11, <1>12, <1>13, <1>14, RereadTell, Zenon

LEMMA OnSuccessTell ==
    ASSUME PressInv, TellInv, NEW i \in DOMAIN pressed, OnSuccess(i) \/ OnError(i)
    PROVE  TellInv'
<1> DEFINE b == pressed[i].button
           groups == ButtonOf[b].refreshes \o Always(b)
<1>1. b \in DOMAIN ButtonOf
  <2>1. pressed[i] \in Requests
    BY DEF PressInv
  <2> QED
    BY <2>1 DEF Requests
<1>2. /\ groups \in Seq(SUBSET Queries) /\ Always(b) \in Seq(SUBSET Queries)
      /\ \A q \in Told(b) : q \in ButtonOf[b].sets \/ \E n \in DOMAIN groups : q \in groups[n]
      /\ \A q \in ButtonOf[b].always : /\ groups # <<>> /\ q \in Head(groups)
                                       /\ Always(b) # <<>> /\ q \in Head(Always(b))
  BY <1>1, GroupsOf
<1>3. ButtonOf[b].sets \in SUBSET Queries /\ {} \in SUBSET Queries
  BY <1>1, SendsType
<1>4. CASE OnSuccess(i)
  <2>1. pressed[i].stage = "answered" /\ Callbacks(i, ButtonOf[b].sets, groups, "settling")
    BY <1>4 DEF OnSuccess
  <2> HIDE DEF groups
  <2> QED
    BY <1>2, <1>3, <2>1, CallbacksTell
<1>5. CASE OnError(i)
  <2>1. pressed[i].stage = "refused" /\ Callbacks(i, {}, Always(b), "failing")
    BY <1>5 DEF OnError
  <2> HIDE DEF groups
  <2> QED
    BY <1>2, <1>3, <2>1, CallbacksTell
<1> QED
  BY <1>4, <1>5

\* The next group is read again: the request has reached it.
LEMMA NextGroupTell ==
    ASSUME PressInv, TellInv, NEW i \in DOMAIN pressed, NextGroup(i)
    PROVE  TellInv'
<1> DEFINE r     == pressed[i]
           first == Head(r.rest)
           waits == first \cap Shown
           s     == [r EXCEPT !.waits = waits, !.rest = Tail(@)]
<1>1. r \in Requests /\ cache \in [Queries -> Entries] /\ r.stage = "settling" /\ r.rest # <<>>
  <2>1. r \in Requests
    BY DEF PressInv
  <2>2. cache \in [Queries -> Entries]
    BY DEF TellInv, DeviceType
  <2>3. r.stage = "settling" /\ r.rest # <<>>
    BY Zenon DEF NextGroup
  <2> QED
    BY <2>1, <2>2, <2>3
<1>2. /\ pressed' = [j \in DOMAIN pressed |-> IF j = i THEN s ELSE RequestOvertaken(pressed[j], first)]
      /\ cache' = Marked(first, cache) /\ fetch' = Again(first, cache) /\ PageOvertaken(first)
      /\ UNCHANGED screen
  BY DEF NextGroup
<1> HIDE DEF r
<1>3. first \in SUBSET Queries /\ r.rest \in Seq(SUBSET Queries)
  BY <1>1, GroupsType DEF Requests
<1>4. s.stage = r.stage /\ s.button = r.button /\ s.at = r.at /\ s.rest = Tail(r.rest)
  BY <1>1 DEF Requests
<1> HIDE DEF s
<1>5. ASSUME NEW q, HasTold(s, q)
      PROVE  HasTold(r, q) \/ q \in first
  <2>1. ASSUME q \in ToCome(r)
        PROVE  q \in first
    <3>1. PICK n \in DOMAIN r.rest : q \in r.rest[n]
      BY <2>1 DEF ToCome
    <3>2. q \in first \/ \E m \in DOMAIN Tail(r.rest) : q \in Tail(r.rest)[m]
      BY <1>1, <1>3, <3>1, FirstAndRest
    <3>3. \A m \in DOMAIN Tail(r.rest) : q \notin Tail(r.rest)[m]
      BY <1>4, <1>5 DEF HasTold, ToCome
    <3> QED
      BY <3>2, <3>3
  <2> QED
    BY <1>4, <1>5, <2>1 DEF HasTold
<1> HIDE DEF first
<1> DEFINE none == {}
<1>6. none \in SUBSET Queries /\ none \cup first = first /\ \A q : q \notin none
  OBVIOUS
<1> HIDE DEF none
<1>7. Reread(none, first, cache)
  <2> DEFINE again == Again(first, cache)
  <2>1. again = [q \in Queries |-> again[q]]
    BY DEF Again
  <2> HIDE DEF again
  <2>2. Overtaken(none, again) = again
    BY <1>6, <2>1 DEF Overtaken
  <2> QED
    BY <1>2, <1>6, <2>2 DEF Reread, again
<1>8. /\ DOMAIN pressed' = DOMAIN pressed /\ pressed'[i] = s
      /\ \A j \in DOMAIN pressed \ {i} : pressed'[j] = RequestOvertaken(pressed[j], none \cup first)
  BY <1>2, <1>6
<1>9. /\ pressed'[i].button = pressed[i].button /\ pressed'[i].at = pressed[i].at
      /\ pressed'[i].stage \notin {"answered", "done"}
      /\ \A q : ~Redrawn(pressed[i], q)
      /\ \A q \in Queries : HasTold(pressed'[i], q) => HasTold(pressed[i], q) \/ q \in first
  BY <1>1, <1>4, <1>5, <1>8 DEF r, Redrawn
<1> HIDE DEF waits
<1>10. \A q \in Queries : HasTold(pressed'[i], q) =>
           \/ HasTold(pressed[i], q)
           \/ q \in first
           \/ q \in none /\ Knows(cache[q], ButtonOf[pressed[i].button].writes, pressed[i].at)
  BY <1>9
<1>11. /\ \A q : Redrawn(pressed[i], q) => q \in first
       /\ \A q \in Queries : \A w, n : w \in QueryOf[q].reads /\ Around(q, w, n) /\ Knows(cache[q], w, n)
                                           => Knows(cache[q], w, n)
  BY <1>9
<1> QED
  BY <1>1, <1>3, <1>6, <1>7, <1>8, <1>9, <1>10, <1>11, RereadTell, Zenon

-----------------------------------------------------------------------------
(* The theorem.                                                            *)

LEMMA InitTell == ASSUME Init PROVE TellInv
<1>1. pressed = <<>> /\ page = {} /\ server = [resource \in Resources |-> 0]
  BY DEF Init
<1>2. server \in [Resources -> Nat]
  BY <1>1
<1>3. ASSUME NEW q \in Queries
      PROVE  /\ cache[q] \in Entries /\ fetch[q] \in FetchStates /\ (UnderWay(fetch[q]) => q \in Shown)
  <2> DEFINE seen == Seen(q, server)
             no == FALSE
  <2>1. seen \in Seens /\ no \in BOOLEAN
    BY <1>2, SeenKnows
  <2>2. cache[q] \in {Entry(seen, no), Absent}
    BY DEF Init
  <2>3. fetch[q] = NoFetch \/ (fetch[q] = Sent /\ q \in Shown)
    BY DEF Init, Shown
  <2> HIDE DEF seen, no
  <2> QED
    BY <2>1, <2>2, <2>3, EntryKnows, AbsentKnows, FetchesKnow
<1>4. cache = [q \in Queries |-> cache[q]] /\ fetch = [q \in Queries |-> fetch[q]]
  BY DEF Init
<1>5. cache \in [Queries -> Entries] /\ fetch \in [Queries -> FetchStates]
  BY <1>3, <1>4
<1>6. DeviceType
  BY <1>1, <1>3, <1>5 DEF DeviceType
<1>7. DOMAIN pressed = {}
  BY <1>1
<1> QED
  BY <1>6, <1>7 DEF TellInv, AnswersSeeTheirChange, ChangesAreKnown

LEMMA StepTell ==
    ASSUME PressInv, TellInv, NEW i \in DOMAIN pressed, Step(i) \/ ServeLate(i)
    PROVE  TellInv'
<1>1. CASE Serve(i)
  BY <1>1, HandledTell, LostTell DEF Serve
<1>2. CASE ServeLate(i)
  BY <1>2, HandledTell DEF ServeLate
<1>3. CASE Lose(i)
  BY <1>3, LostTell DEF Lose
<1>4. CASE OnSuccess(i) \/ OnError(i)
  BY <1>4, OnSuccessTell
<1>5. CASE NextGroup(i)
  BY <1>5, NextGroupTell
<1>6. CASE Settle(i)
  BY <1>6, SettleTell
<1> QED
  BY <1>1, <1>2, <1>3, <1>4, <1>5, <1>6 DEF Step

\* Whatever is under way on the device, a query that a confirmed change has reached is never
\* taken back behind it: nothing cached, read, rendered or still to be answered is older,
\* unless it is overtaken or will be read again.
THEOREM TellInvariance == Spec => []TellInv
<1>1. Init => TellInv
  BY InitTell
<1>2. PressInv /\ TellInv /\ [Next]_vars => TellInv'
  <2> SUFFICES ASSUME PressInv, TellInv, [Next]_vars PROVE TellInv'
    OBVIOUS
  <2>1. ASSUME NEW s \in Screens, Open(s) \/ Turn(s) PROVE TellInv'
    BY <2>1, ScreensTell
  <2>2. CASE Arrive
    <3>1. "today" \in Screens
      BY Names
    <3> QED
      BY <2>2, <3>1, ScreensTell
  <2>3. CASE Elsewhere
    BY <2>3, StillTell DEF Elsewhere
  <2>4. ASSUME NEW q \in Queries, Refetch(q) \/ Fetches(q) PROVE TellInv'
    BY <2>4, FetchesTell
  <2>5. ASSUME NEW b \in DOMAIN ButtonOf, Press(b) PROVE TellInv'
    BY <2>5, PressTell
  <2>6. ASSUME NEW i \in DOMAIN pressed, Step(i) \/ ServeLate(i) PROVE TellInv'
    BY <2>6, StepTell
  <2>7. CASE UNCHANGED vars
    BY <2>7, StillTell DEF vars
  <2> QED
    BY <2>1, <2>2, <2>3, <2>4, <2>5, <2>6, <2>7 DEF Next
<1> QED
  BY <1>1, <1>2, PressInvariance, PTL DEF Spec

\* When nothing is under way on the device, every change confirmed to it is on the screens that
\* depend on it, or these will read it: setQueryData and invalidateQueries of every mutation reach
\* all of them but those left to staleTime, whatever reads, pages and answers they crossed.
THEOREM ChangesAreAlwaysShown == Spec => []OwnChangesAreShown
<1>1. TellInv => OwnChangesAreShown
  <2> SUFFICES ASSUME TellInv, IsQuiet, NEW i \in DOMAIN pressed, NEW q \in Queries,
                      Tells(i, q), cache[q].held
               PROVE  \/ cache[q].seen[ButtonOf[pressed[i].button].writes] >= pressed[i].at
                      \/ cache[q].invalid \/ cache[q].overtaken
    BY DEF OwnChangesAreShown
  <2>1. pressed[i].stage = "done" /\ q \in Told(pressed[i].button)
    BY DEF Tells, Told
  <2>2. q \notin ToCome(pressed[i])
    <3>1. pressed[i].rest = <<>>
      BY <2>1 DEF TellInv, AnswersSeeTheirChange
    <3> QED
      BY <3>1 DEF ToCome
  <2>3. Around(q, ButtonOf[pressed[i].button].writes, pressed[i].at)
    BY <2>1, <2>2 DEF TellInv, ChangesAreKnown, HasTold
  <2>4. \A k \in DOMAIN pressed : ~Redrawn(pressed[k], q)
    BY DEF IsQuiet, IsOver, Redrawn
  <2>5. Knows(cache[q], ButtonOf[pressed[i].button].writes, pressed[i].at)
    BY <2>3, <2>4 DEF Around
  <2>6. cache[q] \in Entries
    BY DEF TellInv, DeviceType
  <2> QED
    BY <2>5, <2>6 DEF Knows, Entries, Absent
<1> QED
  BY <1>1, TellInvariance, PTL

=============================================================================
