# d-stay: the verification project

d-stay lets the owner of a homestay keep its rooms, rates, photos, closures and
bookings. This directory holds TLA+ models of the parts of it where several
things happen at once, the TLC runs that check them on small instances, and
proofs, checked by TLAPS, of the properties that matter most for every number
of rooms, bookings, photos, seasons, requests, devices and workers.

Paths below are relative to the repository; `api/` is `src/apps/api/src/`,
`web/` is `src/apps/web/`, and a screen of a property is named by its file
under `web/app/(app)/properties/[propertyId]/`.

1. [The system](#1-the-system)
2. [The modules](#2-the-modules)
3. [The runs](#3-the-runs)
4. [What the code does that a reader might not expect](#4-what-the-code-does-that-a-reader-might-not-expect)
5. [Mutants](#5-mutants)
6. [Proofs](#6-proofs)
7. [Not modelled](#7-not-modelled)
8. [Plan](#8-plan)

## 1. The system

One NestJS process (or several behind a balancer) serves the API. It keeps its
state in PostgreSQL through Prisma, puts background work on two BullMQ queues
(Redis), and runs the processors of those queues *inside the same process*
(`api/queue/queue.module.ts:11-13`). Photos live in an S3-like bucket, which
browsers write directly through presigned URLs. The web app (Next.js, React
Query) renders a page on the server with the data it shows, and then keeps a
cache of queries in the browser.

```
 browser: pages, buttons, cache of queries
    |   |  one generated request per endpoint (packages/api-client)
    |   +--HTTP--> guard, route --> API handlers --Prisma--> PostgreSQL (constraints decide)
    |                                   |                        ^
    | PUT (presigned)                   | queue.add              | Prisma
    v                                   v                        |
  bucket <------------------------ BullMQ workers (media, bookings), same process
```

No handler takes a lock. Every handler is a sequence of awaited statements at
READ COMMITTED, each seeing what others committed in between; only a single
Prisma write, a nested write or a `$transaction` is atomic. What keeps the data
right is therefore the database's constraints and the `where` clauses of the
writes. What keeps the screens right is that each button writes its answer into
the query it is about, and names the other queries that are to be read again.

### Components

| component | state | operations | correct when |
|---|---|---|---|
| booking lifecycle, `src/packages/domain/src/booking.ts` | none | `canTransition`, `occupiesRooms` | a status holds rooms or does not |
| bookings, `api/bookings/` | `bookings`, `booking_line_items`, with `room_stays` | `create`, `changeStatus`, `updateNote`, `releaseExpiredHolds` (a job every 5 min), lists | no night sold twice; stays follow the status; only expired holds are taken, and they all are |
| availability, `api/availability/` | `room_stays` of kind BLOCK | `createBlocks`, `removeBlock`, `assertRoomsAreFree`, `window`, `freeRooms` | a closure never overlaps a stay and is taken whole; a booking's stay is never removed as a block |
| rooms, `api/rooms/` | `rooms` (`is_active`, `sort_order`) | `create`, `update`, `remove`, `reorder` | no room deleted from under a stay; a new order is of the rooms there are; near the limit of 30 |
| media, `api/media/` | `media_assets`, the bucket, the media queue | `createUploadIntent`, browser PUT, `completeUpload`, `setCover`, `remove`, `reorder`; jobs `derivatives`, `purge`, `sweep`; listener `onFailed` | what is shown is stored; one cover; every stored object has a row or somebody about to delete it; a confirmed photo settles |
| queue, `api/queue/` | attempts of each job | 3 attempts, exponential back-off | -- |
| pricing rules, `src/packages/domain/src/pricing.ts` | none | `quote` and what it calls | totals agree with their lines and their tax bands |
| seasonal rates, `api/pricing/` | `rate_overrides` | `createOverride`, `removeOverride`, `forProperty` | no two seasons of a room overlap; a season lands in all its rooms or none |
| properties and review, `api/properties/` | `properties` (status, the details) | `create`, `update`, `findById`, `submitForReview` | what enters the queue was complete when it was checked, and a verdict is not undone by a later check |
| access, routes, errors, `api/auth/property-access.guard.ts`, the controllers, `api/errors/` | memberships (read) | one read before every handler; the first route that matches | a request reaches its own handler, or nothing happens |
| API client, `src/packages/api-client/` | none | one request and one query key per endpoint | a change reaches the queries it names |
| web: calendar | gestures, the month's cache | long-press selection, swipe, sheets, optimistic closures | a pick starts where it was pressed; the month ends equal to the server's |
| web: bookings, rooms, photos, setup | the cache of queries, forms | a button's request, its answer, what it refreshes, where it takes the host | a confirmed change is on every screen that depends on it; answers keep their order; buttons come back |
| sign-in, users, config, logging, health, dates and money text | the library's sessions; the caller's own row | -- | -- |
| admin, mobile, tests, infrastructure | none | scaffolds | -- |

`PROJECT.json` lists all 23 with their files and their status.

### What is hard about it

* **Check, then write.** `create` of a booking reads rooms, counts them, checks
  that they are free and writes, in four statements; `changeStatus` consults the
  status graph on a status it read before; `submitForReview` checks and writes in
  a transaction that locks nothing; the limit of rooms is counted before the
  insert; a price is computed from three reads sent together.
* **Locks that the database takes row by row.** A closure inserts a row per room
  in the order the host named them, `reorder` updates a row per room, `remove`
  deletes the blocks and then the room: they wait for each other, in circles too.
* **The sweep against the host.** Expired holds are listed and then released one
  by one; a host may confirm one in between, the loop may stop halfway, and two
  processes may run it at the same time.
* **Three stores and no transaction between them.** A photo is a row, a job and
  up to four objects. Requests stop between any two; jobs are retried, given up,
  or handed out again after a crash.
* **A cache that is written from three sides.** What a page was rendered with,
  what a refetch read and what a button's answer says reach one query in any
  order, on screens the host may have left.
* **Fingers.** A long press, a scroll, a swipe and a tap begin with the same event,
  and a timer may come due after the gesture it was for.

Each of these, at its line, is under "hazards" in `PROJECT.json`, with the
properties that would catch it. A hazard that the code has no answer to names no
property, and its note says which trace of section 4 it is and which properties
leave it out.

## 2. The modules

| module | what it is |
|---|---|
| `BookingLifecycle` | the status graph and `OccupiesRooms` |
| `Occupancy` | one property's rooms, bookings, stays, handlers, sweeps and clock |
| `NightLedger`, `OccupancyLedger` | what the occupancy table promises, and `Occupancy` mapped to it |
| `RoomLocks` | the requests that write several rows, statement by statement, with PostgreSQL's waits |
| `RoomBoard` | what they promise: each whole, at one moment, or not at all |
| `Quote` | `quote()`: what a stay costs, room-night by room-night |
| `PricedStay` | where its input comes from: rates, seasons, the form, `create` |
| `RateCalendar` | what the seasons' table promises |
| `MediaPipeline` | one listing's photos: table, bucket, queue, requests, workers |
| `Listing` | a property on its way to being published, on two devices |
| `Gestures` | picking nights on the month calendar |
| `CalendarCache` | a room's month in the cache and on the server |
| `ApiClient`, `ApiRoutes` | every request of the client with its key; which handler it reaches |
| `HostApp` | one device: pages, buttons, and the cache behind them all |
| `MCOccupancy`, `MCOccupancyLedger`, `MCPricedStay`, `MCMediaPipeline`, `MCListing`, `MCGestures`, `MCHostApp` | small instances for TLC |
| `OccupancyProofs` (with the ledger's refinement), `RoomLocksProofs`, `PricedStayProofs`, `MediaProofs`, `ListingProofs`, `GesturesProofs`, `CalendarCacheProofs`, `HostAppProofs` | theorems |

The modules meet where the code does: `Occupancy` and `RoomLocks` share the
handlers that write stays (one has their reads, their refusals and everything
around them with the write as one step, the other the statements of the write);
`PricedStay` has the price of the booking whose rooms `Occupancy` takes;
`CalendarCache` and `HostApp` treat the API as a server that performs a request or
refuses it, which is what the refinements `ImplementsNightLedger`,
`ImplementsRoomBoard` and `ImplementsRateCalendar` entitle them to.

### Occupancy

A handler is a job in `jobs[w]` that moves one step at each `await` on the
database, carrying what it has read. Every other handler, the sweep and the
clock may move between two of its steps.

| code | action |
|---|---|
| `BookingsService.create`: rooms exist and are active; buyout's count; price, capacity, minimum stay; `assertRoomsAreFree`; nested write | `CreateRead`, `CreateCount`, `CreateRefused`, `CheckRoomsAreFree`, `CreateWrite` |
| `AvailabilityService.createBlocks`; `removeBlock` | `BlockRead`, `CheckRoomsAreFree`, `BlockWrite`; `RemoveBlock` |
| `BookingsService.changeStatus` | `StatusRead`, `StatusWrite` |
| `releaseExpiredHolds` | `SweepFind`, `SweepRelease`, `SweepFails` |
| `RoomsService.create`, `update`, `remove` | `RoomCreate`, `RoomUpdate`, `RoomRemoveCheck`, `RoomRemoveWrite` |
| a write the database refuses, a process that stops, time | `WriteFails`, `Crash`, `Tick` |

The constraints are operators of their own: `Fits` is
`room_stays_no_overlap` (an exclusion constraint on room and date range `WHERE
occupies`), `RoomsExist` the foreign key of stays, `Unreferenced` the two
`ON DELETE RESTRICT` rules. A stay's key is its owner and its room, which is what
the code creates. `CreateRefused` may happen or not, because rates and the size of
the party are `PricedStay`'s. When an insert is refused, `create` and
`createBlocks` look again for the clashing rooms to word the error: that read
changes nothing and is not a step.

### NightLedger and OccupancyLedger

`NightLedger` knows no tables, handlers or sweeps: a night of a room is held by
nobody, by a booking or by a closure. Nights are taken all together when all are
free, a booking returns all of them at once, a closure returns its rooms one by
one, and a room with a booking in it is not removed. The mapping makes the owner
of the stay that consumes a night its holder. That the tables implement it
(`ImplementsNightLedger`) says: no half-taken booking, no half-released one, no
night that changes hands without having been free.

### RoomLocks and RoomBoard

`txns[t]` is a request in flight: the rooms its statements name, in their order,
and which statement is next. Uncommitted work is not in `order` and `stays`; it is
what `Wrote`, `HasStay`, `Renumbered`, `Clearing`, `TookBlock` and `Deleted` derive from
how far a transaction has got, and `Blocks` says who waits for whom because of it: an
insert, say, waits for a removal that took a block of the room or deleted it, and not
for one whose `deleteMany` found nothing.

| code | action |
|---|---|
| `createBlocks`: a row per room in the request's order, a room perhaps twice | `CloseBegin`, `InsertSend`, `InsertVerdict`, `Commit` |
| the nested write of `BookingsService.create` | `BookBegin`, then the same |
| `RoomsService.reorder`: an `update` per room | `ReorderBegin`, `RenumberRoom`, `Commit` |
| `RoomsService.remove`: the blocks, then the room | `RemoveBegin`, `ClearBlocks`, `DeleteRoom`, `Commit` |
| `RoomsService.create`: count, last place, insert, no transaction | `CountRooms`, `ReadLast`, `InsertRoom` |
| `removeBlock` | `Reopen` |
| PostgreSQL: a deadlock, a lost connection | `DeadlockDetected`, `ConnectionLost` |

An insert puts its row in and then looks (`InsertSend`, `InsertVerdict`), which is
how an exclusion constraint works and why two of them can wait for each other.
All stays are of the same nights: others never meet. `RoomBoard` is the same
requests as single steps, `ImplementsRoomBoard` the refinement.

### Quote, PricedStay and RateCalendar

| code | definition |
|---|---|
| `gstBasisPointsFor`, the rounding, the nights, `resolveNightlyRate`, `minStayFor`, `quote` | `GstBasisPointsFor`, `BasisPointsOf`, `NightsBetween`, `RateSource` and `ResolvedRate`, `MinStayFor`, `QuoteOf` |
| `createOverride`: rooms, `assertNoOverlap`, `createMany` | `SeasonBegin`, `SeasonCheckRooms`, `AssertNoOverlap`, `SeasonWrite`, `SeasonRefused` |
| `removeOverride`; edits of a room, of the property; `remove` of a room | `RemoveOverride`; `RoomUpdate`, `PropertyUpdate`; `RoomRemove` |
| the booking form's quote and its submission | `Submit` |
| `BookingsService.create`: three reads sent together, the price, its refusals, the write | `ReadProperty`, `ReadRooms`, `ReadOverrides`, `PriceStay`, `BookWrite` |

Money is whole paise and the slabs, the rounding and the rates are the code's own;
the column is small (`ColumnMax`), so that two dear nights overflow it as
twenty-two million rupees would overflow an INTEGER. `RateCalendar` is the promise
of the seasons' table, over room-nights; `ImplementsRateCalendar` the refinement.

### MediaPipeline

Three stores that share no transaction: `assets` (the table), `bucket` (the
objects), `queue` (jobs waiting, with the attempts they have made). `jobs` are the
requests in flight and `running` the queue jobs being worked on.

| code | action |
|---|---|
| `createUploadIntent`; the browser's PUT; `completeUpload` and `markUploaded` | `UploadBegin`, `UploadCreate`; `BrowserPut`; `CompleteBegin`, `CompleteCount`, `CompleteMark`, `CompleteEnqueue` |
| `setCover` | `CoverBegin`, `CoverWrite` |
| `remove` | `RemoveBegin`, `RemoveDelete`, `RemovePurge`, `RemoveNext`, `RemovePromote` |
| `RoomsService.remove`, as its foreign key cascades | `RoomRemoved` |
| `generateDerivatives`, one variant at a time | `Take`, `DeriveRead`, `DeriveStore`, `DeriveFinish` |
| `purge`; `sweepAbandonedUploads` | `PurgeObjects`; `SweepFind`, `SweepRows`, `SweepObjects` |
| a throw, the attempts, `onFailed` | `AttemptFails`, `StorageFails`, `OnFailed` |
| requests and processes that stop, a day that passes | `RequestFails`, `ProcessDies`, `ListenerDies`, `Age` |

`Faults` names what may go wrong in an instance: an upload that stays unconfirmed
for a day ("delay"), a request that stops between two awaits ("request"), a call
to the bucket that throws ("storage"), a process killed in a job ("process").
Theorems hold for every subset of them. The presigned URL is good for five
minutes, so a browser never writes an original whose row is a day old. The order
of the photos is left out, so "the next photo" that becomes the cover is any
visible one. BullMQ's recovery of a killed process's jobs is modelled as handing
the job out again; `ProcessDies` and `ListenerDies` are external.

### Listing

What the database keeps and what each device shows are different variables; a
detail is given or not.

| code | action |
|---|---|
| `property-setup-form.tsx`, `setup-step.tsx`: open, sections, back, save, on to the next | `Open`, `EditSection`, `ToOverview`, `Back`, `ContinueFromPhotos`, `PressSave`, `Saved`, `Failed` |
| `review-step.tsx` | `PressSubmit`, `Submitted` |
| a refetch | `Refetch` |
| `PropertiesService.update` | `Update` |
| `submitForReview`: the check, the write, `findById` | `Check`, `Enqueue`, `ReadBack` |
| rooms and photos, as they count | `CreateRoom`, `SetActive`, `RemoveRoom`, `PhotosChange` |
| the operator (no code makes a verdict yet) | `Decide` |

### Gestures

The browser's events are the actions, as `useRangeSelection`, `useMonthSwipe` and
`CalendarScreen` handle them.

| code | action |
|---|---|
| `onPointerDown`, and `touchstart` | `Press` |
| the long press coming due | `Rested` |
| `onPointerMove` | `Move`, `Hover` |
| `onPointerUp`, `touchend`; `onSelect`, `onOpen` | `Release`, with `Opens` and `SwipeTo` |
| `onPointerCancel` | `TakenOver`, then `Lift` |
| the month's buttons; a sheet that is closed | `GoToMonth`; `Close` |

`timers` are the browser's, `longPress` is the ref: a second touch overwrites the
ref and the first timer goes on, so they are two variables. `crowded` records that
two pointers met since the calendar was last at rest.

### CalendarCache

| code (`use-blocks.ts`) | action |
|---|---|
| `useBlockDates`, `useRemoveBlock`: `onMutate` with its snapshot | `BlockDates`, `RemoveBlock` |
| the request served, refused, or its answer lost | `Serve`, `Lose`, `ServeLate` |
| `onError`, `onSettled` | `Settle` |
| the query: refetch on focus, read, answer, failure | `Refetch`, `FetchRead`, `FetchLands`, `FetchFails` |
| other devices, and this device's bookings, which do not refresh the month | `Elsewhere` |

### ApiClient, ApiRoutes and HostApp

`ApiClient` has one definition per endpoint: the request, and for a query its key.
`ApiRoutes` has the controllers in the order they are registered and takes the
first route that matches. `HostApp` is a device over both. A resource is the number
of changes made to it; a cached answer is the number of each it has seen. So what
is compared is never what a screen says but how old it is.

| code | definition |
|---|---|
| what each query's handler reads | `PropertyQuery` ... `BookingQuery` |
| what each button sends, writes into a query, makes stale, and where it takes the host | `ChangeStatus` ... `RemovePhoto` |
| what the server renders into a page (`initialData`) | `BookingsPage` ... `TodayPage` |
| what a screen shows and its buttons | `BookingList` ... `NewPropertyForm` |
| `isBusy`, `isPending` | `Group`, `Disabled` |

| event | action |
|---|---|
| a link, the rendered page arriving, a sheet or a step of a form | `Open`, `Arrive`, `Turn` |
| a button | `Press` (with `OnMutate` where the month changes at once) |
| the guard, the handler; a handler that refuses | `Handled`, `TurnedAway` (`Serve`) |
| a request or an answer that is lost; one that is served after that | `Lose`; `ServeLate` |
| `onSuccess`, `onError`, `onSettled`, and the invalidations one after the other | `OnSuccess`, `OnError`, `NextGroup` |
| the promise that resolves: the button is back, the host is taken on | `Settle` |
| the query's refetch, read, answer, failure | `Refetch`, `FetchRead`, `FetchLands`, `FetchFails` |
| other devices, the worker, the team | `Elsewhere` |

What is modelled of React Query 5 (external, as the code uses it): `initialData`
fills a query only if it has no entry; `setQueryData` ends its invalidation and
does not stop a fetch of it; `invalidateQueries` reads again what is on screen,
replacing a refetch but not a first read, and its promise ends with that read
however it ends; a query nobody shows gives its fetch up; a mutation goes on when
the component that began it is gone, and is not retried (`query-client.ts:20-22`).
`overtaken` marks an entry that came from a read or an answer older than an answer
that was already there.

## 3. The runs

Every state count is of distinct states.

| run | checks | instance | states |
|---|---|---|---|
| `occupancy_dates` | `TypeOK`, `NoDoubleBooking`, `OccupancyFollowsStatus`, `OnlyAHoldExpires`, `SweepTakesOnlyExpiredHolds` | 1 room, 2 bookings, 1 closure, 2 handlers, 1 sweep, stays [0,2) and [1,3), clock to 1 | 516,774 |
| `occupancy_holds` | `ExpiredHoldsAreReleased` | 1 room, 2 bookings on adjoining nights, 1 handler, 2 sweeps, clock to 2 | 201,182 |
| `occupancy_ledger` | `BookingHoldsItsRooms`, `StaysHaveARoom`, `HistorySurvives`, `ImplementsNightLedger` | 2 rooms, 1 booking, 1 closure, 2 handlers, 1 sweep | 158,959 |
| `room_locks` | `RoomsNearTheLimit`, `ImplementsRoomBoard`, `RequestsEnd` | 3 rooms, 2 requests, limit of 1 room, closures that name 2 rooms (or one twice) | 37,793 |
| `priced_stay` | `SeasonsNeverOverlap`, `BookingsReconcile`, `SeasonsDecideThePrice`, `ShownIsCharged`, `SeasonsLandWhole`, `ImplementsRateCalendar` | 2 rooms, 2 seasons, 1 booking, 2 requests, 2 meal plans, a column of 1,600,000 | 865,336 |
| `media_faults` | `PhotosAreServed` | 1 photo of a room, 2 requests, 2 workers, 3 attempts, all faults | 275,393 |
| `media_covers` | `OneVisibleCover`, `ObjectsHaveAnOwner`, `CoverGoesWithItsPhoto` | 2 photos, 2 requests, 1 worker, late confirmations | 437,396 |
| `media_settles` | `ProcessingIsQueued`, `UploadsSettle`, `AbandonedUploadsGo` | 1 photo of a room, 2 requests, 1 worker, 2 attempts, the bucket may throw | 43,887 |
| `listing` | `QueuedOnesWereComplete`, `VerdictsStand`, `RefusalsAreNews` | 2 devices, 1 room, photos, compliance and review steps, 1 change, 2 verdicts | 1,697,895 |
| `gestures` | `RunHangsFromAnchor`, `ArmedRowIsHeld`, `RestingFingersOnly`, `PicksStartWherePressed` | 2 rooms, 2 nights, 2 months, a mouse, 2 fingers | 735,900 |
| `calendar_cache` | `QuietMonthIsTheServers`, `OldMonthsDoNotReturn`, `PhantomsGo` | 2 nights, 2 requests at once, 2 begun in all, 1 change made elsewhere | 739,247 |
| `host_app` | `OwnChangesAreShown`, `OnePressOneChange`, `AnswersKeepTheirOrder`, `ButtonsComeBack` | 19 visits: up to 2 presses and 3 moves over the screens that show what the buttons change, uploads of 2 files | 622,916 |

What they show:

* **occupancy_dates.** However two handlers, the sweep and the clock interleave
  over nights that overlap, no night is sold twice; a stay consumes its room
  exactly while its booking's status says so, through every concurrent pair of
  status changes; only a hold has an expiry; and the sweep never takes a booking
  the host confirmed after the sweep listed it.
* **occupancy_holds.** Sweeps that may stop at any booking still release every
  hold whose time is up.
* **occupancy_ledger.** With rooms created, taken out of service and deleted under
  the handlers, a booking keeps exactly the rooms it was priced for, for its own
  dates; no step drops a record of a stay; the tables implement the ledger of
  nights.
* **room_locks.** Taken row by row, with waits and rollbacks anywhere, closures,
  bookings, new orders and removals still happen whole or not at all; a request
  that opened a transaction ends, also where two wait for each other; and the limit
  of rooms is passed by at most the number of creations that ran at once, less one.
* **priced_stay.** Two devices saving seasons never leave two over one night, nor
  one in some of its rooms; a written booking's total is what its lines and their
  tax bands come to; a night costs what its season says; and what the form showed
  is what is charged, unless a price was edited in between.
* **media_faults.** Whatever fails and wherever it fails, each URL the API hands
  out names an object that is in the bucket.
* **media_covers.** At most one cover, always a photo that is shown; a listing
  that has a cover loses it only with the photo; and, as long as one worker runs
  and nothing fails, an object whose row is gone has somebody who will delete it.
* **media_settles.** A confirmed photo leaves PROCESSING, and an unconfirmed
  upload leaves the table, although every call to the bucket may throw.
* **listing.** An incomplete property is in the queue only if it changed after a
  check passed; a verdict is undone only by a submission whose check was before it;
  a host whose screen is up to date is never refused.
* **gestures.** What is drawn begins at the night that was pressed and stays in its
  row; nothing stays armed, or waits to be, without a finger on it; and what is
  opened has the pressed night in it. The last three speak of one pointer at a
  time.
* **calendar_cache.** A month that has come to rest is the server's, whatever was
  refused, crossed or lost; an old read never replaces a block that was drawn over
  it; and what is drawn and never confirmed goes away.
* **host_app.** Through every button of the app: a confirmed change is on every
  screen that depends on it, or that screen will read it, except where the code
  leaves that to the cache's age (`Untold`, section 4); a press makes its change
  once and by its own handler; the answers of one list come in the order of its
  changes while the host stays on it; and every button comes back, also when the
  host leaves, the reads it waits for fail, or the answer is lost.

### Bounds

Races in this code are between two actors about one room, one booking, one season,
one photo or one query: what a handler remembers is about the request it serves,
and the constraints are about pairs of rows. Two handlers and a sweep (or two
workers, two transactions, two devices, two presses) are every such pair; a third
actor only repeats what one of the two did. Two overlapping ranges with a shared
night are every way two stays clash, adjoining ones are the way they nearly do.

* `Occupancy`: `HoldHours = 1` and a clock (`MaxTime`) to 1 or 2 let a hold be
  made, expire and be swept, and one be made after the first sweep.
* `RoomLocks`: a limit of 1 (`MAX_ROOMS_PER_PROPERTY`) is reached and passed with
  two creations; `MaxNamed = 2` gives two closures opposite orders, and one a room
  twice; `MaxPlace` stops the sort order from growing for ever.
* `PricedStay`: the amounts are chosen at the edges. Three guests make a plain
  night exactly the first slab's ceiling and a night with meals just more; a
  season is at the second slab's; a weekend rate is dear enough that two nights
  overflow `ColumnMax`; two seasons share a night; one room may lose its rate.
* `MediaPipeline`: `Attempts` is 3 as in the code where faults are the point and
  smaller where it would only lengthen the same retries; `Cap = 2` is out of the
  way of two photos.
* `Listing`: one step that saves, one of photos and the review are the three kinds
  of step; `MaxChanges` and `MaxDecisions` let a verdict be given, undone and given
  again around a change.
* `Gestures`: two nights and two rooms make every run, drag out of the row and
  swipe; a finger that comes back is another one, and `MaxAtOnce = 2`.
* `CalendarCache`: two requests over two nights overlap, adjoin and cross;
  `MaxStays` is out of the way.
* `HostApp`: a visit is a set of screens, of buttons, of what others change, and
  how many moves and presses are made. Every button is in some visit, together
  with the screens that show what it changes and with the buttons that share its
  query. `MaxFiles = 2` is an upload that can fail after its first file.

`BookingIds`, `BlockIds`, `Photos` and `SeasonIds` bound what would otherwise grow
for ever; ids are never used twice, as in the code (UUIDs).

Symmetry is declared over ids, rooms, handlers, sweeps, workers, devices and
fingers where they only ever compare equal, and only in runs without liveness. In
`occupancy_ledger` it is limited to rooms and handlers and in `priced_stay` to
requests and seasons, whose values the mapping does not choose between.
Deadlock is checked where there is always something to begin. It is not checked for
`MediaPipeline` (the photos run out, and a system with nothing to upload may stop),
for `room_locks` (a full board of rooms with bookings and no way left to begin) and
for `host_app` (a host may put the device away).

### Fairness

* `Occupancy!FairSpec`: the sweep is a scheduler that every boot upserts
  (`api/bookings/bookings.module.ts:30-40`), so `SweepFind` is weakly fair.
  `SweepRelease` is strongly fair for each booking: a run may stop before a
  booking's turn, again and again, and nothing in the queue rules out a process
  that fails in the very same place for ever; the assumption is that failures are
  not that regular. No handler, and no tick of the clock, has to happen.
* `MediaPipeline!FairSpec`: weak fairness of the requests in flight, of the
  workers' steps and of `onFailed`. The media sweep too is upserted at boot
  (`api/media/media.module.ts:28-40`). No host has to do anything.
* `RoomLocks!FairSpec`: a request's next statement is strongly fair, because
  PostgreSQL grants a lock in the order it was asked for; the deadlock detector,
  which runs after `deadlock_timeout`, is weakly fair. No request has to begin.
* `CalendarCache` and `HostApp`: a request that was sent is answered or fails, the
  callbacks of an answer run, a fetch lands or fails. Nobody has to press anything
  or open a screen. `HostApp` asks for less than fairness of each: something of what
  is under way goes on.

## 4. What the code does that a reader might not expect

Each of these is a behaviour of the models, found while writing them, that breaks
no property above.

**Bookings and rooms**

* *A status change that the graph does not have.* `changeStatus` consults the graph
  on a status it read and writes by id (`api/bookings/bookings.service.ts:375-376`).
  Two changes that read the same status both commit, so a booking may go from
  CANCELLED to CONFIRMED, although "the legal graph" is "forward-only"
  (`src/packages/domain/src/booking.ts:17-18`). Occupancy still follows the status
  (proved), and the constraint still refuses nights that were sold meanwhile.
* *A room that left service is booked.* `isActive` is read at lines 158-171 and the
  booking written at 273; "a room out of service stops being bookable"
  (`schema.prisma:299`) holds of new requests only. In the same way a buyout can
  leave out a room that came into service after its count, and a closure or buyout
  a room that was created.
* *A price of two moments.* `create` reads rates, seasons and charges in three
  queries at once (`api/bookings/bookings.service.ts:148`) and writes later: a season
  that is saved meanwhile is missing from the booking's price, or in part of it, and
  the guest may be charged another amount than the form showed. `ShownIsCharged`
  leaves out exactly the stays during which a price was edited (`undisturbed`).
* *The limit of 30 rooms can be passed* by creations that count before any of them
  inserts, and these then share a `sort_order` until the next reorder. Photos'
  limit and places are read in the same way.
* *A closure that names a room twice* passes the check, which compares sets, and is
  refused as if its nights were taken. Two closures of the same rooms in opposite
  orders end with one failed by the deadlock detector, which the code does not
  recognise as an overlap.

**Photos**

* *A photo stays PROCESSING.* The row is updated and then the job is added to
  another store; a request that stops between the two
  (`api/media/media.service.ts:160-166`) leaves it so for good: a second
  confirmation is answered NOT_FOUND and the sweep looks at PENDING rows only.
* *A confirmed upload is swept.* The sweep deletes by the ids it listed
  (`api/media/media.processor.ts:112`), and one confirmed in between goes with its
  objects.
* *Objects without rows.* Deleting a room cascades to its photos' rows and queues
  no purge; `remove` deletes the row and then queues its purge in another store
  (`api/media/media.service.ts:234-235`) and may stop in between; a purge is given up
  after three attempts; the sweep deletes rows before objects, so that a retry after a
  failure of the bucket no longer finds them (`api/media/media.processor.ts:112-115`);
  with two workers, derivatives may be stored after the purge of their photo.
* *Photos and no cover.* Remove the cover while the only other photo is being
  confirmed: neither becomes the cover.

**Review**

* `submitForReview`'s transaction is said to hold against concurrent edits
  (`api/properties/properties.service.ts:171-173`); at READ COMMITTED it does not: a
  photo removed between the check and the write leaves an incomplete property in
  the queue, and two submissions can put a published property back in it.
  `QueuedOnesWereComplete` leaves out what changed since the check (`sinceCheck`), and
  `VerdictsStand` the submissions checked before the verdict.

**Screens**

* *Left to the cache's age* (30 seconds; `Untold` in `HostApp`). A new booking does
  not refresh the calendar, the bookings list or the free rooms; a status change
  not the calendar or the free rooms, so freed or taken nights are shown as they
  were although the calendar worries about cells "a host could read as free"
  (`calendar/calendar-screen.tsx:78-80`); a closure not the free rooms, because its
  key is the path and the parameters of `availability`, not of
  `availability/free-rooms`; a room's edit not the prices, whose list of rooms the
  calendar draws (`rooms/room-list.tsx:40-42`); a room's photos not the room list;
  a setup step not the prices its meal charge and GST switch decide. Saving a
  property refreshes the list of properties, which no query shows: the switcher is
  rendered by the layout, on the server.
* *Older over newer.* A page that was rendered before a change and arrives after
  its answer seeds an empty query with the old state; an answer of one request ends
  the invalidation another one made; `isBusy` is forgotten when a host leaves a
  list and comes back, and two answers may then land in either order.
  `OwnChangesAreShown` exempts exactly the entries this happened to (`overtaken`).
* *Taken somewhere late.* A booking or a room that is saved slowly takes the host
  to its page wherever they are by then; a saved step moves the wizard on from where
  it was sent.
* *An upload that fails at a later file* keeps the earlier ones and refreshes
  nothing.
* *Two fingers* can leave a row armed with none on it: the second touch overwrites
  the ref to the first one's timer, which then nobody can cancel
  (`web/lib/calendar/use-range-selection.ts:115`). An edge swipe that the browser
  does not take over both opens a night and turns the month.
* *Overlapping closures* on one screen restore each other's snapshots until the
  refetch at the end puts the month right.

## 5. Mutants

Every property of every run has a mutant: an operator next to the definition it
replaces, a bug one could plausibly write there (the constraint on `kind` instead
of `occupies`, a `where` clause that trusts the list, an update of one stay of
several, an insert per room, a ceiling that is exclusive, no detector of
deadlocks, a status list that lets a published property in, a release outside the
grid that is not heard, a refetch that is not cancelled, a forgotten
invalidation, a mutation that is retried, a button that disables only itself, a
read that was given up and is waited for). Under the mutant the run finds the
property violated. They are listed in `PROJECT.json`.

## 6. Proofs

All theorems are for every value of the constants that the modules' own, named
assumptions allow: any sets of rooms, ids, handlers, devices and photos, any
ranges that cover a night, any limit, any number of attempts, any faults. Every
safety property of the runs is a theorem; what is left to TLC is liveness (below).

The assumptions say what the code's schemas and columns let in: a range covers a
night (`RangesAssumption`), a season's form has dates in order, a price the column
holds and a minimum stay of 1 to 30 nights or none (`SeasonAssumption`), a stay has
a night and counts of guests (`StayAssumption`), rates are amounts or missing
(`RatesAssumption`), an upload has a file, because the input that begins it asks
for one (`FilesAssumption`; `web/components/photo-manager.tsx:159`), the wizard
ends with its review (`StepsAssumption`), a cap or a number of attempts is
positive. Two theorems about photos assume more, because they need it:
`ProcessingPhotosAreQueued` that no request and no process dies halfway, and
`NoObjectIsLeft` that nothing fails at all (uploads may still be late), that one
worker runs and that the photos are the property's own. Section 4 says what
happens otherwise, and `media_faults` explores it.

| module | theorem | statement |
|---|---|---|
| `OccupancyProofs` | `Typing`, `Invariance` | `Spec => []TypeOK`, `Spec => []IInv` |
| | `NoDoubleBookingEver` | `Spec => []NoDoubleBooking` |
| | `OccupancyFollows` | `Spec => []OccupancyFollowsStatus` |
| | `BookingsHoldTheirRooms` | `Spec => []BookingHoldsItsRooms` |
| | `OnlyHoldsExpire` | `Spec => []OnlyAHoldExpires` |
| | `RoomsOutliveStays` | `Spec => []StaysHaveARoom` |
| | `OnlyExpiredHoldsAreTaken` | `Spec => SweepTakesOnlyExpiredHolds` |
| | `HistoryAlwaysSurvives` | `Spec => HistorySurvives` |
| | `OccupancyIsALedger` | `Spec => ImplementsNightLedger` |
| `RoomLocksProofs` | `RoomsAreNearTheLimit` | `Spec => []RoomsNearTheLimit` |
| | `RequestsAreTheBoards` | `Spec => ImplementsRoomBoard` |
| `PricedStayProofs` | `Invariance`, `SeasonsNeverEverOverlap` | `Spec => []SeasonsNeverOverlap` |
| | `RatesAreACalendar` | `Spec => ImplementsRateCalendar` |
| | `SeasonsAlwaysLandWhole` | `Spec => SeasonsLandWhole` |
| | `PriceInvariance`, `TypesAreCorrect` | `Spec => []PriceInv`, `Spec => []TypeOK` |
| | `BookingsAlwaysReconcile` | `Spec => []BookingsReconcile` |
| | `TheShownPriceIsCharged` | `Spec => []ShownIsCharged` |
| | `SeasonsAlwaysDecide` | `Spec => []SeasonsDecideThePrice` |
| `MediaProofs` | `Typing`, `Invariance` | `Spec => []TypeOK`, `Spec => []IInv` |
| | `EveryPhotoIsServed`, `NeverTwoCovers` | `Spec => []PhotosAreServed`, `Spec => []OneVisibleCover` |
| | `CoversGoWithTheirPhotos` | `Spec => CoverGoesWithItsPhoto` |
| | `ProcessingPhotosAreQueued` | `Spec => []ProcessingIsQueued`, no request or process dying |
| | `NoObjectIsLeft` | `Spec => []ObjectsHaveAnOwner`, nothing failing, one worker, no room deleted |
| `ListingProofs` | `Invariance`, `QueuedOnesWereAllComplete` | `Spec => []QueuedOnesWereComplete` |
| | `VerdictsAlwaysStand`, `RefusalsAreAlwaysNews` | `Spec => VerdictsStand`, `Spec => RefusalsAreNews` |
| `GesturesProofs` | `Invariance`, `RunsAlwaysHang` | `Spec => []RunHangsFromAnchor` |
| | `ArmedRowsAreHeld`, `OnlyRestingFingersWait` | `Spec => []ArmedRowIsHeld`, `Spec => []RestingFingersOnly` |
| | `PicksAlwaysStartWherePressed` | `Spec => PicksStartWherePressed` |
| `CalendarCacheProofs` | `Typing`, `Invariance` | `Spec => []TypeOK`, the inductive invariant |
| | `QuietMonthIsAlwaysTheServers`, `OldMonthsNeverReturn` | `Spec => []QuietMonthIsTheServers`, `Spec => OldMonthsDoNotReturn` |
| `HostAppProofs` | `Dispatched` | every mutation of the client reaches the handler it is named for |
| | `PressInvariance`, `PressesDoWhatTheyAreFor` | `Spec => []PressInv`, `Spec => []OnePressOneChange` |
| | `AnswersComeInOrder` | `Spec => AnswersKeepTheirOrder` |
| | `TellInvariance`, `ChangesAreAlwaysShown` | `Spec => []TellInv`, `Spec => []OwnChangesAreShown` |

Where the invariants come from:

* **Occupancy.** `NoDoubleBooking` speaks of nights, the constraint of ranges, so
  the invariant carries `NoExcludedStays`, its form for rows. A status change in
  flight writes by id alone, so it preserves anything only because it remembers a
  booking that exists and a status other than PENDING (`JobsRemember`); no edge
  leads to PENDING, which is why a cleared expiry stays cleared. That stays consume
  rooms as their booking's status says needs each stay to have a booking, and
  deleting a room safely needs the stays of a booking to be its rooms. For the
  sweep: a listed booking that is still PENDING is still expired
  (`SweepsRemember`). For the ledger: each write of rows is one action on nights
  (`RowsTake`, `RowsRelease`, `RowReopens`, `RowsLeave`), given that the dates of a
  row are its request's, that owner and kind agree, and that a closure has one row
  per room (`RowsOK`).
* **RoomLocks.** Rooms that exist and creations under way are together at most the
  limit and the number of requests less one (`LimitInv`): whoever counted below the
  limit counted what there was, and only those who counted earlier can still add.
  That requests are whole (`ImplementsRoomBoard`) rests on `BoardInv`: what a closure
  or a booking has inserted is nobody else's and its room is not taken away
  (`TakenIsKept`), what a new order has renumbered is still there (`ArrangedIsKept`),
  and a room that a removal has deleted has no booking (`DeletedIsKept`). Each is kept
  by a wait: the statement of the other transaction that would break it is one that
  `Blocks` does not let go. A commit then does to the tables, at one moment, what its
  statements wrote; every other step is the board's stutter, whichever request waits,
  is the deadlock's victim or loses its connection.
* **PricedStay.** Seasons do not overlap because each write is tested against the
  table; that the table is a calendar needs in addition that the rows of an id are
  of one form (`RowsOK`), so that a removal gives back a whole run. A season lands
  whole because the rows are saved forms with one row per id and room, and the id of
  a new season is free, so the rows it has afterwards are exactly the request's
  (`SeasonWriteLands`). For the money, `PriceInv` adds what a booking in flight has:
  a price that is `quote()` of the three tables as they were read, refused by nothing
  (`BookOK`), and, until somebody edits, reads and a quote that are of the tables as
  they are (`Current`), in whatever order the reads come back. What `quote()` sums
  needs no induction theorem with an operator for a parameter: among the subsets of
  a finite set on which a claim about a sum fails there is a least (`SmallestOf`, from
  the well-foundedness of inclusion), and taking one element from it refutes it
  (`SumStep`, `SumsAdd`). The seasons a night is under are at most one because they
  do not overlap, so `find` has no choice (`TheSeasonDecides`).
* **MediaPipeline.** A photo could lose its objects only to a purge or a sweep, so
  whatever is about to delete objects is after a photo whose row is gone
  (`OnlyTheGoneAreDoomed`), which needs a sweep's list to name rows that were there
  (`ListsNameRealRows`), because ids are never reused. A photo becomes READY after
  its worker has stored each variant (`StoredSoFar`) and visible after its original
  was seen (`ConfirmedHaveBytes`). Covers are visible because only visible photos
  are held by the requests that set one (`CoversInHand`). A photo in PROCESSING has a
  job because the request that marked it is still to add it, and whoever takes it
  puts it back or gives it up. An object without a row has somebody to delete it
  because, with one worker, the derivatives are stored while their row is there or
  while the purge that will follow is queued behind (`DerivedAreOwned`).
* **Listing.** What a submission that passed its check may rely on (`ChecksOK`), what a
  tap on the button was shown (`TapsOK`), and where a property in the queue came
  from (`QueueOK`).
* **Gestures.** One pointer at a time unless crowded (`OneAtATime`), whose timer and
  whose armed row are those of the finger that is down (`TimerOfTheHeld`,
  `ArmedOfTheHeld`).
* **CalendarCache.** What the screen shows, or what a refetch that has read has in
  hand, is the server's up to the requests and changes that came after.
* **HostApp.** First the routes: 28 rows in the order the modules are imported, what
  each takes of a path below a property (`Takings`), and from that the first one that
  takes each of the client's 19 mutations (`Dispatched`): `PATCH rooms/order` would be
  a room's update if the controller declared its routes the other way round. Then the
  presses (`PressInv`): what one did so far is the beginning of what its button sends
  (`Follows`), also when its answer was lost and its handler runs later; what a request
  has seen is not ahead of the server (`IsPast`); and of two presses on one list, the
  host still there, the earlier is over and saw less (`InOrder`), since a press needs
  its group at rest and each handler counts one more change.
  Last, what the screens know (`TellInv`). `OwnChangesAreShown` speaks of a device at
  rest and is not inductive: a change can be lost again by a read that was sent before
  it, a page rendered before it, or an older answer that is still to be written. So
  the invariant (`ChangesAreKnown`) says of every query that a confirmed change has
  reached (`HasTold`: its button tells it, and no group that is still to be read again
  holds it) that nothing around it is older (`Around`): not the entry, unless it is
  invalid, overtaken or to be read again when a button that shows it first ends; not
  a read that has seen the server; not a page on its way; not an answer. An answer
  has seen the change it is of (`AnswersSeeTheirChange`), which is what makes
  `setQueryData` as good as a refetch. Which queries a button tells is a lemma over the
  whole table (`ButtonReaches`): each of those that read the list it changes is set, in
  a group or always read again, except the listed ones that staleTime is left to
  (`Untold`). The state a step leaves is judged once, by how cache, reads, pages and
  requests go on (`TellStep`); a lemma per handler shows that they do. TLC
  found `TellInv` to hold on the instance of `host_app` before it was proved.

### Only model-checked

* Liveness: `ExpiredHoldsAreReleased`, `UploadsSettle`, `AbandonedUploadsGo`,
  `RequestsEnd`, `PhantomsGo`, `ButtonsComeBack`. TLAPS does not prove liveness from
  fairness.
* That the deadlock detector and the fairness of locks end every wait (part of
  `RequestsEnd`), and `TypeOK` of the modules whose invariants carry what they need of
  it.

## 7. Not modelled

* Sign-in (a library's configuration and its own sessions), the caller's own user
  row (one read, one update), configuration, logging, health, the OpenAPI document,
  the admin and mobile scaffolds: stateless, I/O or somebody else's code.
* Most of the lines that no module stands for are of four kinds: the generated
  types and schemas of the API client, generated Prisma and OpenAPI text, what the
  screens draw (components, labels, styles, translations), and tests and the seed,
  which were read as evidence of what the code is expected to do. None of them
  decides what happens next.
* Conversions of dates, money and phones to text; the fields of forms and their
  validation messages; the codes and words of errors.
* Inside what is modelled: which photo is at which place, the file checks of an
  upload and the content of derivatives; the guest's row of a booking, and what the
  list of bookings is filtered by; the memberships the guard reads, which no code of
  this repository takes away; the operator's tool, which does not exist yet.
* The back-off of jobs is a delay of unknown length, and the retention of finished
  jobs is left out.

## 8. Plan

1. Several devices over one `HostApp`, each with its own cache, where `Elsewhere` is
   now a change without an author.
2. The places of photos, which `reorder` of `api/media/` writes.
3. The forms of a booking and of a season as machines of their own: rooms chosen by
   position, dates that clear a choice, an override that hides its reason.
