----------------------------- MODULE ApiRoutes -----------------------------
(***************************************************************************)
(* Which handler of the API a request reaches.  A controller's routes are  *)
(* tried in the order they are declared, and a parameter takes any segment *)
(* that is there, so a route declared too late is shadowed by one before   *)
(* it.                                                                     *)
(***************************************************************************)
EXTENDS Naturals, Sequences

Param == "*"    \* a route parameter

Route(method, path, handler) == [method |-> method, path |-> path, handler |-> handler]
Scoped(segments) == <<"properties", Param>> \o segments

PropertiesController ==
    << Route("GET", <<"properties">>, "propertiesList"),
       Route("POST", <<"properties">>, "propertiesCreate"),
       Route("GET", Scoped(<<>>), "propertiesFindOne"),
       Route("PATCH", Scoped(<<>>), "propertiesUpdate"),
       Route("POST", Scoped(<<"submit">>), "propertiesSubmitForReview") >>

MediaController ==
    << Route("GET", Scoped(<<"media">>), "mediaList"),
       Route("POST", Scoped(<<"media", "uploads">>), "mediaCreateUpload"),
       Route("POST", Scoped(<<"media", Param, "complete">>), "mediaCompleteUpload"),
       Route("PATCH", Scoped(<<"media", "order">>), "mediaReorder"),
       Route("POST", Scoped(<<"media", Param, "cover">>), "mediaSetCover"),
       Route("DELETE", Scoped(<<"media", Param>>), "mediaRemove") >>

RoomsController ==
    << Route("GET", Scoped(<<"rooms">>), "roomsList"),
       Route("POST", Scoped(<<"rooms">>), "roomsCreate"),
       Route("PATCH", Scoped(<<"rooms", "order">>), "roomsReorder"),
       Route("PATCH", Scoped(<<"rooms", Param>>), "roomsUpdate"),
       Route("DELETE", Scoped(<<"rooms", Param>>), "roomsRemove") >>

PricingController ==
    << Route("GET", Scoped(<<"pricing">>), "pricingFind"),
       Route("POST", Scoped(<<"pricing", "overrides">>), "pricingCreateOverride"),
       Route("DELETE", Scoped(<<"pricing", "overrides", Param>>), "pricingRemoveOverride") >>

AvailabilityController ==
    << Route("GET", Scoped(<<"availability">>), "availabilityFind"),
       Route("GET", Scoped(<<"availability", "free-rooms">>), "availabilityFreeRooms"),
       Route("POST", Scoped(<<"availability", "blocks">>), "availabilityCreateBlocks"),
       Route("DELETE", Scoped(<<"availability", "blocks", Param>>), "availabilityRemoveBlock") >>

BookingsController ==
    << Route("GET", Scoped(<<"bookings">>), "bookingsList"),
       Route("GET", Scoped(<<"bookings", Param>>), "bookingsFind"),
       Route("POST", Scoped(<<"bookings">>), "bookingsCreate"),
       Route("PATCH", Scoped(<<"bookings", Param, "status">>), "bookingsChangeStatus"),
       Route("PATCH", Scoped(<<"bookings", Param, "note">>), "bookingsUpdateNote") >>

\* AppModule imports the features in this order.
Routes == PropertiesController \o MediaController \o RoomsController
              \o PricingController \o AvailabilityController \o BookingsController

Takes(route, request) ==
    /\ route.method = request.method /\ Len(route.path) = Len(request.path)
    /\ \A i \in DOMAIN route.path : route.path[i] \in {Param, request.path[i]}

\* The first route that takes the request decides.
Handler(request) ==
    LET taking == {i \in DOMAIN Routes : Takes(Routes[i], request)}
    IN  Routes[CHOOSE i \in taking : \A j \in taking : i <= j].handler
=============================================================================
