----------------------------- MODULE ApiClient -----------------------------
(***************************************************************************)
(* What the web app asks of the API, as the generated client asks it: one  *)
(* request per endpoint, the query key its answer is cached under, and how *)
(* often a request that failed is sent again.  Ids are one letter, query   *)
(* parameters one word, and a key is the path followed by the parameters.  *)
(***************************************************************************)
EXTENDS Naturals, Sequences, SequencesExt

Read(path, params)      == [method |-> "GET", path |-> path, key |-> <<path>> \o params]
Ask(name, method, path) == [name |-> name, method |-> method, path |-> path]

PropertyPath     == <<"properties", "p">>
Under(segments)  == PropertyPath \o segments

\* The queries.  An endpoint without parameters in the call leaves them out of its key.
PropertiesList        == Read(<<"properties">>, <<>>)
PropertiesFindOne     == Read(PropertyPath, <<>>)
RoomsList             == Read(Under(<<"rooms">>), <<>>)
PricingFind           == Read(Under(<<"pricing">>), <<>>)
MediaList(params)     == Read(Under(<<"media">>), params)
BookingsList(params)  == Read(Under(<<"bookings">>), params)
BookingsFind          == Read(Under(<<"bookings", "b">>), <<>>)
AvailabilityFind(params)      == Read(Under(<<"availability">>), params)
AvailabilityFreeRooms(params) == Read(Under(<<"availability", "free-rooms">>), params)

\* The mutations.
PropertiesCreate          == Ask("propertiesCreate", "POST", <<"properties">>)
PropertiesUpdate          == Ask("propertiesUpdate", "PATCH", PropertyPath)
PropertiesSubmitForReview == Ask("propertiesSubmitForReview", "POST", Under(<<"submit">>))
RoomsCreate               == Ask("roomsCreate", "POST", Under(<<"rooms">>))
RoomsReorder              == Ask("roomsReorder", "PATCH", Under(<<"rooms", "order">>))
RoomsUpdate               == Ask("roomsUpdate", "PATCH", Under(<<"rooms", "r">>))
RoomsRemove               == Ask("roomsRemove", "DELETE", Under(<<"rooms", "r">>))
PricingCreateOverride     == Ask("pricingCreateOverride", "POST", Under(<<"pricing", "overrides">>))
PricingRemoveOverride     == Ask("pricingRemoveOverride", "DELETE", Under(<<"pricing", "overrides", "o">>))
MediaCreateUpload         == Ask("mediaCreateUpload", "POST", Under(<<"media", "uploads">>))
MediaCompleteUpload       == Ask("mediaCompleteUpload", "POST", Under(<<"media", "m", "complete">>))
MediaReorder              == Ask("mediaReorder", "PATCH", Under(<<"media", "order">>))
MediaSetCover             == Ask("mediaSetCover", "POST", Under(<<"media", "m", "cover">>))
MediaRemove               == Ask("mediaRemove", "DELETE", Under(<<"media", "m">>))
BookingsCreate            == Ask("bookingsCreate", "POST", Under(<<"bookings">>))
BookingsChangeStatus      == Ask("bookingsChangeStatus", "PATCH", Under(<<"bookings", "b", "status">>))
BookingsUpdateNote        == Ask("bookingsUpdateNote", "PATCH", Under(<<"bookings", "b", "note">>))
AvailabilityCreateBlocks  == Ask("availabilityCreateBlocks", "POST", Under(<<"availability", "blocks">>))
AvailabilityRemoveBlock   == Ask("availabilityRemoveBlock", "DELETE", Under(<<"availability", "blocks", "s">>))

\* invalidateQueries: a key stands for every key it begins.
Covers(key, other) == IsPrefix(key, other)
=============================================================================
