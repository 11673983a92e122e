------------------------------ MODULE HostApp ------------------------------
(***************************************************************************)
(* One host's device: the pages of the web app over one cache of queries.  *)
(* A page brings what the server rendered, its queries refetch when they   *)
(* are stale, its buttons send requests whose answers are written into the *)
(* cache or make other queries read again, and a host who does not wait    *)
(* leaves all of that under way.  A resource is the number of changes made *)
(* to it, and a cached answer the number of each it has seen.              *)
(***************************************************************************)
EXTENDS ApiClient, ApiRoutes, FiniteSets

CONSTANTS Visits,    \* bound: the screens a host goes through, the buttons pressed on them, what
                     \* others change meanwhile, and how many moves and presses are made
          MaxFiles   \* bound: photos uploaded by a press

\* A press without files uploads nothing.
ASSUME FilesAssumption == MaxFiles \in Nat \ {0}

VARIABLES server,    \* [Resources -> changes made]
          screen, page,      \* the one shown, and a page on its way
          cache, fetch,      \* of every query
          pressed,   \* the requests of this device, in the order of the presses
          visit,     \* one of Visits
          moves      \* screens opened, returns to the window, changes made by others

vars == <<server, screen, page, cache, fetch, pressed, visit, moves>>

-----------------------------------------------------------------------------
(* Queries, and what an answer to each depends on.                         *)

Resources == {"properties", "property", "rooms", "photos", "roomPhotos", "seasons", "bookings", "notes", "blocks"}

Query(request, reads) == [key |-> request.key, reads |-> reads]

PropertyQuery     == Query(PropertiesFindOne, {"property", "rooms", "photos"})
RoomsQuery        == Query(RoomsList, {"rooms", "roomPhotos"})
PhotosQuery       == Query(MediaList(<<>>), {"photos"})
RoomPhotosQuery   == Query(MediaList(<<"room">>), {"roomPhotos"})
PricingQuery      == Query(PricingFind, {"rooms", "seasons", "property"})
AvailabilityQuery == Query(AvailabilityFind(<<"month">>), {"bookings", "blocks"})
FreeRoomsQuery    == Query(AvailabilityFreeRooms(<<"nights">>), {"rooms", "bookings", "blocks"})
BookingsQuery     == Query(BookingsList(<<"all">>), {"bookings", "rooms"})
BookingQuery      == Query(BookingsFind, {"bookings", "notes", "rooms"})

QueryOf ==
    [ property |-> PropertyQuery, rooms |-> RoomsQuery, photos |-> PhotosQuery,
      roomPhotos |-> RoomPhotosQuery, pricing |-> PricingQuery, availability |-> AvailabilityQuery,
      freeRooms |-> FreeRoomsQuery, bookings |-> BookingsQuery, booking |-> BookingQuery ]

Queries == DOMAIN QueryOf

\* The queries that invalidating a key makes stale.
Stale(request) == {q \in Queries : Covers(request.key, QueryOf[q].key)}

-----------------------------------------------------------------------------
(* Buttons: the requests one press sends, what they change, the query the  *)
(* answer is written into, the queries that are then read again (one group *)
(* after the other, each waited for), and the screen the host ends on.     *)

Button(sends, writes, sets, refreshes) ==
    [sends |-> sends, writes |-> writes, sets |-> sets, refreshes |-> refreshes,
     always |-> {}, pushes |-> {}, turns |-> {}]

Pushes(button, screens) == [button EXCEPT !.pushes = screens]   \* router.push, router.replace
Turns(button, screens)  == [button EXCEPT !.turns = screens]    \* a state of the page

\* A block or an unblock shows before it is sent and reads the month again whatever came of it.
Shows(button, refresh) == [button EXCEPT !.always = refresh]

ChangeStatus == Button(<<BookingsChangeStatus>>, "bookings", {"booking"}, <<Stale(BookingsList(<<>>))>>)
UpdateNote   == Button(<<BookingsUpdateNote>>, "notes", {"booking"}, <<Stale(BookingsList(<<>>))>>)
TakeBooking  == Pushes(Button(<<BookingsCreate>>, "bookings", {}, <<>>), {"booking"})

SetRate    == Turns(Button(<<PricingCreateOverride>>, "seasons", {"pricing"}, <<>>), {"calendar"})
LiftSeason == Turns(Button(<<PricingRemoveOverride>>, "seasons", {"pricing"}, <<>>), {"calendar"})
BlockDates == Turns(Shows(Button(<<AvailabilityCreateBlocks>>, "blocks", {}, <<>>),
                          Stale(AvailabilityFind(<<>>))), {"calendar"})
RemoveBlock == Turns(Shows(Button(<<AvailabilityRemoveBlock>>, "blocks", {}, <<>>),
                           Stale(AvailabilityFind(<<>>))), {"calendar"})

ReorderRooms == Button(<<RoomsReorder>>, "rooms", {"rooms"}, <<Stale(PropertiesFindOne)>>)
RemoveRoom   == Button(<<RoomsRemove>>, "rooms", {"rooms"}, <<Stale(PropertiesFindOne)>>)

\* mutant: the checklist is forgotten
SaveRoomOnly == Pushes(Button(<<RoomsUpdate>>, "rooms", {}, <<Stale(RoomsList)>>), {"rooms"})

SaveRoom   == Pushes(Button(<<RoomsUpdate>>, "rooms", {},
                            <<Stale(RoomsList) \cup Stale(PropertiesFindOne)>>), {"rooms"})
CreateRoom == Pushes(Button(<<RoomsCreate>>, "rooms", {},
                            <<Stale(RoomsList) \cup Stale(PropertiesFindOne)>>), {"room"})

SaveStep == Turns(Button(<<PropertiesUpdate>>, "property", {"property"}, <<Stale(PropertiesList)>>),
                  {"step", "photosStep", "review"})
Submit   == Button(<<PropertiesSubmitForReview>>, "property", {"property"}, <<Stale(PropertiesList)>>)
CreateProperty == Pushes(Button(<<PropertiesCreate>>, "properties", {}, <<Stale(PropertiesList)>>), {"other"})

\* The gallery of the property, and of a room: the same grid with another owner.
Photos(owner) == IF owner = "photos" THEN MediaList(<<>>) ELSE MediaList(<<"room">>)
Checklist(owner) == IF owner = "photos" THEN <<Stale(PropertiesFindOne)>> ELSE <<>>

\* One file after the other.
Files == [n \in 1 .. 2 * MaxFiles |-> IF n % 2 = 1 THEN MediaCreateUpload ELSE MediaCompleteUpload]

Upload(owner) ==
    Button(Files, owner, {}, <<Stale(Photos(owner))>> \o Checklist(owner))
ReorderPhotos(owner) == Button(<<MediaReorder>>, owner, {owner}, Checklist(owner))
SetCover(owner)      == Button(<<MediaSetCover>>, owner, {owner}, Checklist(owner))
RemovePhoto(owner)   == Button(<<MediaRemove>>, owner, {owner}, Checklist(owner))

ButtonOf ==
    [ status |-> ChangeStatus, note |-> UpdateNote, book |-> TakeBooking,
      rate |-> SetRate, season |-> LiftSeason, block |-> BlockDates, unblock |-> RemoveBlock,
      reorderRooms |-> ReorderRooms, removeRoom |-> RemoveRoom,
      saveRoom |-> SaveRoom, createRoom |-> CreateRoom,
      saveStep |-> SaveStep, submit |-> Submit, createProperty |-> CreateProperty,
      upload |-> Upload("photos"), reorder |-> ReorderPhotos("photos"),
      cover |-> SetCover("photos"), remove |-> RemovePhoto("photos"),
      roomUpload |-> Upload("roomPhotos"), roomReorder |-> ReorderPhotos("roomPhotos"),
      roomCover |-> SetCover("roomPhotos"), roomRemove |-> RemovePhoto("roomPhotos") ]

Grid     == {"upload", "reorder", "cover", "remove"}
RoomGrid == {"roomUpload", "roomReorder", "roomCover", "roomRemove"}
RoomRows == {"reorderRooms", "removeRoom"}

-----------------------------------------------------------------------------
(* Pages, with the queries the server renders into them, and the screens    *)
(* they turn into: what these show, and their buttons.                     *)

Page(route, brings) == [route |-> route, brings |-> brings]

BookingsPage      == Page("bookings", {"bookings"})
BookingPage       == Page("booking", {"booking"})
NewBookingPage    == Page("newBooking", {"pricing"})
CalendarPage      == Page("calendar", {"availability", "pricing"})
RoomsPage         == Page("rooms", {"rooms"})
EditRoomPage      == Page("room", {})
NewRoomPage       == Page("newRoom", {})
PropertySetupPage == Page("setup", {"property"})
NewPropertyPage   == Page("newProperty", {})
TodayPage         == Page("today", {})

Screen(of, shows, buttons) ==
    [route |-> of.route, brings |-> of.brings, shows |-> shows, buttons |-> buttons]

BookingList    == Screen(BookingsPage, {"bookings"}, {})
BookingDetail  == Screen(BookingPage, {"booking"}, {"status", "note"})
BookingForm    == Screen(NewBookingPage, {"pricing", "freeRooms"}, {"book"})

CalendarScreen == Screen(CalendarPage, {"availability", "pricing"}, {})
Sheet(shows, buttons) == [CalendarScreen EXCEPT !.shows = @ \cup shows, !.buttons = buttons]
SelectionSheet == Sheet({}, {"rate", "season", "block"})
StaySheet      == Sheet({}, {"unblock"})
QuoteStay      == Sheet({"freeRooms"}, {})

RoomList       == Screen(RoomsPage, {"rooms"}, RoomRows)
EditRoom       == Screen(EditRoomPage, {"roomPhotos"}, {"saveRoom"} \cup RoomGrid)
NewRoom        == Screen(NewRoomPage, {}, {"createRoom"})

PropertySummary == Screen(PropertySetupPage, {"property", "photos", "rooms"}, {"submit"})
SetupStep       == Screen(PropertySetupPage, {"property"}, {"saveStep"})
PhotosStep      == Screen(PropertySetupPage, {"property", "photos"}, Grid)
ReviewStep      == Screen(PropertySetupPage, {"property"}, {"submit"})
NewPropertyForm == Screen(NewPropertyPage, {}, {"createProperty"})
Today           == Screen(TodayPage, {}, {})

\* The setup of another property: its queries have other keys.
OtherProperty   == Screen(Page("other", {}), {}, {})

ScreenOf ==
    [ bookings |-> BookingList, booking |-> BookingDetail, newBooking |-> BookingForm,
      calendar |-> CalendarScreen, selection |-> SelectionSheet, stay |-> StaySheet, quote |-> QuoteStay,
      rooms |-> RoomList, room |-> EditRoom, newRoom |-> NewRoom,
      setup |-> PropertySummary, step |-> SetupStep, photosStep |-> PhotosStep, review |-> ReviewStep,
      newProperty |-> NewPropertyForm, today |-> Today, other |-> OtherProperty ]

Screens == DOMAIN ScreenOf
\* The screens a link leads to; the others are reached from these.
Doors == Screens \ {"selection", "stay", "quote", "photosStep", "review"}

Shown     == ScreenOf[screen].shows
PageOf(s) == ScreenOf[s].route

Seen(query, state) == [resource \in QueryOf[query].reads |-> state[resource]]

Absent == [held |-> FALSE]
Entry(seen, overtaken) == [held |-> TRUE, seen |-> seen, invalid |-> FALSE, overtaken |-> overtaken]

\* A fetch of a query: sent, then read by the server.  It is overtaken when an answer
\* of this device reaches the query before it lands.
NoFetch == [stage |-> "none"]
Sent    == [stage |-> "sent", overtaken |-> FALSE]
UnderWay(f) == f.stage # "none"

\* What a page has with it fills the queries that have nothing yet (initialData).
Filled(arriving) ==
    [q \in Queries |-> IF q \in ScreenOf[arriving.to].brings /\ ~cache[q].held
                       THEN Entry(Seen(q, arriving.brought), q \in arriving.overtaken)
                       ELSE cache[q]]

\* Queries that are no longer shown give up, those now shown fetch if they have nothing
\* or were invalidated.
Watched(s, c) ==
    [q \in Queries |-> IF q \notin ScreenOf[s].shows THEN NoFetch
                       ELSE IF ~UnderWay(fetch[q]) /\ (~c[q].held \/ c[q].invalid)
                       THEN Sent ELSE fetch[q]]

Init == /\ server = [resource \in Resources |-> 0] /\ visit \in Visits
        /\ screen \in visit.screens \cap Doors /\ page = {} /\ moves = 0
        /\ cache = [q \in Queries |-> IF q \in ScreenOf[screen].brings
                                      THEN Entry(Seen(q, server), FALSE) ELSE Absent]
        /\ fetch = [q \in Queries |-> IF q \in ScreenOf[screen].shows \ ScreenOf[screen].brings
                                      THEN Sent ELSE NoFetch]
        /\ pressed = <<>>

-----------------------------------------------------------------------------
(* Screens.                                                                *)

Moves == moves < visit.moves /\ moves' = moves + 1

\* A link is followed: the server renders the page while this one stays.
Render(s) == page' = {[to |-> s, brought |-> server, overtaken |-> {}]}

Open(s) == /\ Moves
           /\ s \in visit.screens \cap Doors /\ PageOf(s) # PageOf(screen) /\ Render(s)
           /\ UNCHANGED <<server, screen, cache, fetch, pressed, visit>>

\* mutant: a read that was given up is waited for
AwaitedForever(waits, s) == waits

\* The reads of queries that are no longer shown are given up.
StillAwaited(waits, s) == waits \cap ScreenOf[s].shows

\* The buttons of a screen that is left are gone, but not the requests they sent: only
\* the form of the setup stays while its steps are turned.
Left(requests, s) ==
    [i \in DOMAIN requests |->
        [requests[i] EXCEPT
            !.near  = IF PageOf(s) # PageOf(screen) THEN "gone"
                      ELSE IF @ = "button" /\ requests[i].button # "saveStep" THEN "page" ELSE @,
            !.waits = StillAwaited(@, s)]]

Show(s, c, requests) ==
    /\ screen' = s /\ cache' = c /\ fetch' = Watched(s, c)
    /\ pressed' = Left(requests, s)

Arrive == \E arriving \in page :
    /\ page' = {} /\ Show(arriving.to, Filled(arriving), pressed)
    /\ UNCHANGED <<server, visit, moves>>

\* A sheet, or a step of the form.
Turn(s) == /\ Moves
           /\ s \in visit.screens \ {screen} /\ PageOf(s) = PageOf(screen)
           /\ Show(s, cache, pressed)
           /\ UNCHANGED <<server, page, visit>>

-----------------------------------------------------------------------------
(* Queries.                                                                *)

\* The window is focused, or the screen opened again, after staleTime.
Refetch(q) == /\ Moves
              /\ q \in Shown /\ ~UnderWay(fetch[q])
              /\ fetch' = [fetch EXCEPT ![q] = Sent]
              /\ UNCHANGED <<server, screen, page, cache, pressed, visit>>

FetchRead(q) == /\ fetch[q].stage = "sent"
                /\ fetch' = [fetch EXCEPT ![q] = [stage |-> "read", overtaken |-> @.overtaken,
                                                         seen |-> Seen(q, server)]]
                /\ UNCHANGED <<server, screen, page, cache, pressed, visit, moves>>

\* Whoever waited for a query goes on.
Ended(q) == /\ fetch' = [fetch EXCEPT ![q] = NoFetch]
            /\ pressed' = [i \in DOMAIN pressed |-> [pressed[i] EXCEPT !.waits = @ \ {q}]]

FetchLands(q) == /\ fetch[q].stage = "read"
                 /\ cache' = [cache EXCEPT ![q] = Entry(fetch[q].seen, fetch[q].overtaken)]
                 /\ Ended(q)
                 /\ UNCHANGED <<server, screen, page, visit, moves>>

\* A read that was refused, or could not be made three times.
FetchFails(q) ==
    /\ UnderWay(fetch[q]) /\ Ended(q)
    /\ cache' = [cache EXCEPT ![q] = IF @.held THEN [@ EXCEPT !.invalid = TRUE] ELSE @]
    /\ UNCHANGED <<server, screen, page, visit, moves>>

-----------------------------------------------------------------------------
(* Buttons.                                                                *)

IsOver(r) == r.stage \in {"done", "failed"}

\* mutant: only the button itself is disabled while it is pending
Alone(b) == {b}

\* The buttons that disable each other (isBusy), or one alone (isPending).
Group(b) == UNION {group \in {Grid, RoomGrid, RoomRows, {b}} : b \in group}

Disabled(b) == \E i \in DOMAIN pressed :
                   ~IsOver(pressed[i]) /\ pressed[i].near = "button" /\ pressed[i].button \in Group(b)

\* A grid has its photos before it has buttons on them.
IsOffered(b) == \A owner \in ButtonOf[b].sets \cap {"photos", "roomPhotos"} : cache[owner].held

Asked(b) == [button |-> b, stage |-> "asked", near |-> "button", did |-> <<>>, step |-> 0,
             loose |-> FALSE, at |-> 0, answer |-> {}, rest |-> <<>>, waits |-> {}, overtaken |-> {}]

\* onMutate: the month is changed on screen, and a refetch of it given up.
OnMutate(qs) ==
    /\ fetch' = [q \in Queries |-> IF q \in qs THEN NoFetch ELSE fetch[q]]
    /\ cache' = [q \in Queries |-> IF q \in qs THEN [cache[q] EXCEPT !.invalid = FALSE] ELSE cache[q]]

Press(b) ==
    /\ Len(pressed) < visit.presses
    /\ b \in ScreenOf[screen].buttons \cap visit.buttons /\ ~Disabled(b) /\ IsOffered(b)
    /\ OnMutate(ButtonOf[b].always)
    /\ pressed' = Append([i \in DOMAIN pressed |->
                             [pressed[i] EXCEPT !.waits = @ \ ButtonOf[b].always]], Asked(b))
    /\ UNCHANGED <<server, screen, page, visit, moves>>

\* The API handles a request of a press, by the route it takes.
Handled(i) ==
    /\ server' = [server EXCEPT ![ButtonOf[pressed[i].button].writes] = @ + 1]
    /\ pressed' = [pressed EXCEPT
           ![i].did = Append(@, Handler(ButtonOf[pressed[i].button].sends[pressed[i].step + 1])),
           ![i].step = @ + 1, ![i].loose = FALSE,
           ![i].at = server'[ButtonOf[pressed[i].button].writes], ![i].answer = {server'},
           ![i].stage = IF pressed[i].stage = "asked"
                           /\ pressed[i].step + 1 = Len(ButtonOf[pressed[i].button].sends)
                        THEN "answered" ELSE @]

\* The host may no longer be a member, or the handler refuse.
TurnedAway(i) == /\ pressed' = [pressed EXCEPT ![i].stage = "refused"] /\ UNCHANGED server

Serve(i) == /\ pressed[i].stage = "asked" /\ (Handled(i) \/ TurnedAway(i))
            /\ UNCHANGED <<screen, page, cache, fetch, visit, moves>>

\* One the device has given up is served all the same.
ServeLate(i) == /\ pressed[i].loose /\ Handled(i)
                /\ UNCHANGED <<screen, page, cache, fetch, visit, moves>>

\* mutant: a lost request is sent again, as a read is
SentAgain(i) ==
    pressed' = [pressed EXCEPT ![i].stage = "asked",
                               ![i].step = IF pressed[i].stage = "answered" THEN @ - 1 ELSE @]

\* A mutation is never tried again: what came of it is not known.
GivenUp(i) ==
    pressed' = [pressed EXCEPT ![i].stage = "refused", ![i].loose = pressed[i].stage = "asked",
                               ![i].answer = {}]

\* The connection broke, or the server failed after it had written.
Lose(i) == /\ pressed[i].stage \in {"asked", "answered"} /\ GivenUp(i)
           /\ UNCHANGED <<server, screen, page, cache, fetch, visit, moves>>

\* An answer is written into a query: a fetch of it that is under way goes on.
Written(i, c) ==
    [q \in Queries |-> IF q \in ButtonOf[pressed[i].button].sets
                       THEN Entry(Seen(q, CHOOSE answer \in pressed[i].answer : TRUE),
                                  q \in pressed[i].overtaken) ELSE c[q]]

Marked(qs, c) == [q \in Queries |-> IF q \in qs /\ c[q].held THEN [c[q] EXCEPT !.invalid = TRUE] ELSE c[q]]

\* Invalidated queries that are shown are read again, but a first read goes on.
Again(qs, c) ==
    [q \in Queries |-> IF q \notin qs \cap Shown THEN fetch[q]
                       ELSE IF UnderWay(fetch[q]) /\ ~c[q].held
                       THEN [fetch[q] EXCEPT !.overtaken = TRUE] ELSE Sent]

Overtaken(qs, f) == [q \in Queries |-> IF q \in qs /\ UnderWay(f[q])
                                       THEN [f[q] EXCEPT !.overtaken = TRUE] ELSE f[q]]

\* So does a page that was rendered before.
PageOvertaken(qs) == page' = {[arriving EXCEPT !.overtaken = @ \cup qs] : arriving \in page}

\* And another answer that is still to come.
RequestOvertaken(r, qs) ==
    IF r.stage \in {"asked", "answered"} THEN [r EXCEPT !.overtaken = @ \cup qs] ELSE r

\* onSuccess and onSettled: the answer is written, and the first group read again.
Callbacks(i, sets, groups, stage) ==
    LET first == IF groups = <<>> THEN {} ELSE Head(groups)
        c     == IF stage = "settling" THEN Written(i, cache) ELSE cache
    IN  /\ cache' = Marked(first, c)
        /\ fetch' = Overtaken(sets, Again(first, c)) /\ PageOvertaken(sets \cup first)
        /\ pressed' = [j \in DOMAIN pressed |->
               IF j = i THEN [pressed[j] EXCEPT !.stage = stage, !.waits = first \cap Shown,
                                               !.answer = {}, !.overtaken = {},
                                               !.rest = IF groups = <<>> THEN <<>> ELSE Tail(groups)]
               ELSE RequestOvertaken(pressed[j], sets \cup first)]
        /\ UNCHANGED <<server, screen, visit, moves>>

Always(b) == IF ButtonOf[b].always = {} THEN <<>> ELSE <<ButtonOf[b].always>>

OnSuccess(i) ==
    /\ pressed[i].stage = "answered"
    /\ Callbacks(i, ButtonOf[pressed[i].button].sets,
                 ButtonOf[pressed[i].button].refreshes \o Always(pressed[i].button), "settling")

OnError(i) == /\ pressed[i].stage = "refused"
              /\ Callbacks(i, {}, Always(pressed[i].button), "failing")

NextGroup(i) ==
    /\ pressed[i].stage = "settling" /\ pressed[i].waits = {} /\ pressed[i].rest # <<>>
    /\ cache' = Marked(Head(pressed[i].rest), cache) /\ fetch' = Again(Head(pressed[i].rest), cache)
    /\ PageOvertaken(Head(pressed[i].rest))
    /\ pressed' = [j \in DOMAIN pressed |->
           IF j = i THEN [pressed[j] EXCEPT !.waits = Head(pressed[i].rest) \cap Shown, !.rest = Tail(@)]
                    ELSE RequestOvertaken(pressed[j], Head(pressed[i].rest))]
    /\ UNCHANGED <<server, screen, visit, moves>>

\* The button comes back.  After a change that went well the host is taken on: to another
\* page wherever they are by then, to another state of the page only if they are still on it.
Settle(i) ==
    /\ pressed[i].stage \in {"settling", "failing"} /\ pressed[i].waits = {} /\ pressed[i].rest = <<>>
    /\ LET b     == ButtonOf[pressed[i].button]
           ended == [pressed EXCEPT ![i].stage = IF @ = "settling" THEN "done" ELSE "failed"]
           onwards == pressed[i].stage = "settling"
       IN  \/ /\ onwards /\ \E s \in b.pushes : Render(s)
              /\ pressed' = ended /\ UNCHANGED <<screen, cache, fetch>>
           \/ /\ onwards /\ pressed[i].near # "gone" /\ \E s \in b.turns : Show(s, cache, ended)
              /\ UNCHANGED page
           \/ /\ onwards => b.pushes = {} /\ (b.turns = {} \/ pressed[i].near = "gone")
              /\ pressed' = ended /\ UNCHANGED <<screen, page, cache, fetch>>
    /\ UNCHANGED <<server, visit, moves>>

\* Other devices, the worker and the team.
Elsewhere == \E resource \in visit.others :
    /\ Moves
    /\ server' = [server EXCEPT ![resource] = @ + 1]
    /\ UNCHANGED <<screen, page, cache, fetch, pressed, visit>>

-----------------------------------------------------------------------------
Step(i) == Serve(i) \/ Lose(i) \/ OnSuccess(i) \/ OnError(i) \/ NextGroup(i) \/ Settle(i)
Fetches(q) == FetchRead(q) \/ FetchLands(q) \/ FetchFails(q)

Next == \/ \E s \in Screens : Open(s) \/ Turn(s)
        \/ Arrive \/ Elsewhere
        \/ \E q \in Queries : Refetch(q) \/ Fetches(q)
        \/ \E b \in DOMAIN ButtonOf : Press(b)
        \/ \E i \in DOMAIN pressed : Step(i) \/ ServeLate(i)

\* Something of what is under way goes on: requests are answered or fail, callbacks run,
\* and a fetch is read, lands or fails.
Fairness == WF_vars(\/ \E i \in DOMAIN pressed : Step(i)
                    \/ \E q \in Queries : Fetches(q))

Spec == Init /\ [][Next]_vars /\ Fairness
-----------------------------------------------------------------------------
(* Properties.                                                             *)

\* The screens the code leaves to staleTime: what the press changed is on them, and
\* nothing makes them read it again.
Untold ==
    {"book"} \X {"booking", "bookings", "availability", "freeRooms"}
    \cup {"status"} \X {"availability", "freeRooms"}
    \cup {"block", "unblock"} \X {"freeRooms"}
    \cup {"reorderRooms", "removeRoom", "saveRoom", "createRoom"} \X {"pricing", "freeRooms", "bookings", "booking"}
    \cup {"saveStep", "submit"} \X {"pricing"}
    \cup RoomGrid \X {"rooms"}

IsQuiet == /\ \A i \in DOMAIN pressed : IsOver(pressed[i])
           /\ \A q \in Queries : ~UnderWay(fetch[q])

Tells(i, q) == /\ pressed[i].stage = "done"
               /\ ButtonOf[pressed[i].button].writes \in QueryOf[q].reads
               /\ <<pressed[i].button, q>> \notin Untold

\* When the device has come to rest, a change that was confirmed to it is on every screen
\* that depends on it, or the screen will read it when it is next shown: the list, the
\* booking, the prices, the gallery, and the checklist of a property whose rooms or photos
\* changed.  Not so after a read or another answer that was already under way landed on
\* top of the change.
OwnChangesAreShown ==
    IsQuiet => \A i \in DOMAIN pressed, q \in Queries :
        Tells(i, q) /\ cache[q].held =>
            \/ cache[q].seen[ButtonOf[pressed[i].button].writes] >= pressed[i].at
            \/ cache[q].invalid \/ cache[q].overtaken

\* While the host stays on a list of rooms or photos, its answers come in the order of
\* the changes: none puts back what a later one had already shown (isBusy).
AnswersKeepTheirOrder ==
    [][\A i, j \in DOMAIN pressed :
           /\ i # j /\ \E list \in {Grid, RoomGrid, RoomRows} : {pressed[i].button, pressed[j].button} \subseteq list
           /\ pressed[i].near = "button" /\ pressed[j].near = "button"
           /\ pressed[i].stage = "answered" /\ pressed'[i].stage = "settling"
           /\ pressed[j].stage \in {"settling", "done"}
           => pressed[j].at < pressed[i].at]_vars

\* What the API does for a press is what its button is for, in order and once, also when
\* an answer is lost or comes after the host has gone on.
OnePressOneChange ==
    \A i \in DOMAIN pressed :
        LET sends == ButtonOf[pressed[i].button].sends
        IN  /\ Len(pressed[i].did) <= Len(sends)
            /\ \A n \in DOMAIN pressed[i].did : pressed[i].did[n] = sends[n].name

\* A button that was pressed comes back, whatever becomes of its request and of the reads
\* it waits for.
ButtonsComeBack == []<>(\A i \in DOMAIN pressed : IsOver(pressed[i]))
=============================================================================
