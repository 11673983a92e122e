--------------------------- MODULE MediaPipeline ---------------------------
(***************************************************************************)
(* The photos of one listing, from the presigned URL to the bucket's last  *)
(* object: MediaService, the media queue's MediaProcessor, and the browser *)
(* that writes the originals.  Three stores have to agree and none of them *)
(* shares a transaction with another: the media_assets table, the bucket   *)
(* and the queue.                                                          *)
(*                                                                         *)
(* A handler or a queue job moves one step at each await; between two      *)
(* steps anything else may move.  The order of the photos is left out, so  *)
(* that "the next photo" is any visible one, and with it reorder.          *)
(***************************************************************************)
EXTENDS Integers, FiniteSets, Sequences

CONSTANTS Photos,     \* media ids; randomUUID never hands one out twice
          Handlers,   \* API requests that may be in flight at once
          Processes,  \* media-queue workers, one per API process
          Cap,        \* MAX_PHOTOS_PER_LISTING
          Attempts,   \* the queue's defaultJobOptions.attempts
          OfRoom,     \* the listing is a room's, not the property's own
          Faults      \* what may go wrong: see FaultsAssumption

ASSUME CapAssumption == Cap \in Nat \ {0}
ASSUME AttemptsAssumption == Attempts \in Nat \ {0}
ASSUME OfRoomAssumption == OfRoom \in BOOLEAN

\* An upload stays unconfirmed for a day, a request dies between two awaits, a
\* call to the bucket throws, a process that runs a queue job is killed.
ASSUME FaultsAssumption ==
    Faults \subseteq {"delay", "request", "storage", "process"}

VARIABLES open,      \* the listing is there: its room has not been deleted
          assets,    \* [Photos -> a media_assets row, or where one was]
          aged,      \* photos whose createdAt is more than 24 hours ago
          bucket,    \* the objects in storage: <<photo, object>>
          queue,     \* [Tasks -> how many of it wait in the media queue]
          spent,     \* photos whose last attempt failed, onFailed still to run
          jobs,      \* [Handlers -> a request in flight, or Idle]
          running    \* [Processes -> a queue job being worked on, or Idle]

vars == <<open, assets, aged, bucket, queue, spent, jobs, running>>

-----------------------------------------------------------------------------
(* Rows, objects and jobs.                                                 *)

VisibleStatuses == {"PROCESSING", "READY", "FAILED"}
AssetStatuses   == {"none", "PENDING", "gone"} \cup VisibleStatuses
AssetRow        == [status : AssetStatuses, isCover : BOOLEAN]

Gone == [status |-> "gone", isCover |-> FALSE]

HasRow(p)  == assets[p].status \notin {"none", "gone"}
Visible(p) == assets[p].status \in VisibleStatuses
Pending(p) == assets[p].status = "PENDING"
Cover(p)   == assets[p].isCover

Variants == <<"thumb", "card", "full">>
Objects  == {"original", "thumb", "card", "full"}

\* Mutant of AllKeys: one of the derivatives is forgotten.
KeysWithoutFull(ps) == ps \X (Objects \ {"full"})

AllKeys(ps) == ps \X Objects

\* A job of the queue, with the attempts it has made.
Tasks == [kind : {"derivatives", "purge"}, photo : Photos,
          made : 0 .. Attempts - 1]

Task(kind, p) == [kind |-> kind, photo |-> p, made |-> 0]

Idle == [op |-> "idle"]

UploadJob   == [op : {"upload"}]
CompleteJob == [op : {"complete"}, photo : Photos,
                step : {"count", "cover", "plain", "enqueue"}]
CoverJob    == [op : {"cover"}, photo : Photos]
RemoveJob   == [op : {"remove"}, photo : Photos, wasCover : BOOLEAN,
                step : {"delete", "purge", "next", "promote"}]
RequestJobs == {Idle} \cup UploadJob \cup CompleteJob \cup CoverJob \cup RemoveJob

\* A derivatives job reads the original at step 0, stores variant n at step n
\* and updates the row at the last step.
LastStep == Len(Variants) + 1
DeriveJob == [op : {"derivatives"}, task : Tasks, step : 0 .. LastStep]
PurgeJob  == [op : {"purge"}, task : Tasks]
SweepJob  == [op : {"sweep"}, photos : SUBSET Photos, step : {"rows", "objects"}]
QueueJobs == {Idle} \cup DeriveJob \cup PurgeJob \cup SweepJob

TypeOK ==
    /\ open \in BOOLEAN
    /\ assets \in [Photos -> AssetRow]
    /\ aged \subseteq Photos
    /\ bucket \subseteq Photos \X Objects
    /\ queue \in [Tasks -> Nat]
    /\ spent \subseteq Photos
    /\ jobs \in [Handlers -> RequestJobs]
    /\ running \in [Processes -> QueueJobs]

Init ==
    /\ open = TRUE
    /\ assets = [p \in Photos |-> [status |-> "none", isCover |-> FALSE]]
    /\ aged = {}
    /\ bucket = {}
    /\ queue = [t \in Tasks |-> 0]
    /\ spent = {}
    /\ jobs = [h \in Handlers |-> Idle]
    /\ running = [q \in Processes |-> Idle]

Begin(h, job)    == jobs[h] = Idle /\ jobs' = [jobs EXCEPT ![h] = job]
Advance(h, step) == jobs' = [jobs EXCEPT ![h].step = step]
Finish(h)        == jobs' = [jobs EXCEPT ![h] = Idle]
At(h, op, step)  == jobs[h].op = op /\ jobs[h].step = step

Enqueue(task) == queue' = [queue EXCEPT ![task] = @ + 1]

-----------------------------------------------------------------------------
(* The upload: createUploadIntent, the browser's PUT, completeUpload.      *)

\* The limit counts the visible photos only.
UploadBegin(h) ==
    /\ Cardinality({p \in Photos : Visible(p)}) < Cap
    /\ Begin(h, [op |-> "upload"])
    /\ UNCHANGED <<open, assets, aged, bucket, queue, spent, running>>

\* Refused by media_assets_room_id_property_id_fkey once the room is gone.
UploadCreate(h) ==
    /\ jobs[h].op = "upload"
    /\ \/ ~open /\ UNCHANGED assets
       \/ /\ open
          /\ \E p \in Photos :
                /\ assets[p].status = "none"
                /\ assets' = [assets EXCEPT ![p].status = "PENDING"]
    /\ Finish(h)
    /\ UNCHANGED <<open, aged, bucket, queue, spent, running>>

\* The browser writes the original while its URL is good: five minutes, so
\* never once the row is a day old.
BrowserPut(p) ==
    /\ Pending(p)
    /\ p \notin aged
    /\ bucket' = bucket \cup {<<p, "original">>}
    /\ UNCHANGED <<open, assets, aged, queue, spent, jobs, running>>

\* A day passes.
Age(p) ==
    /\ "delay" \in Faults
    /\ Pending(p)
    /\ aged' = aged \cup {p}
    /\ UNCHANGED <<open, assets, bucket, queue, spent, jobs, running>>

\* The browser reports what it uploaded; nothing stops it doing so twice, and
\* nothing bounds how late.
CompleteBegin(h) ==
    /\ \E p \in Photos :
          /\ Pending(p)
          /\ <<p, "original">> \in bucket
          /\ Begin(h, [op |-> "complete", photo |-> p, step |-> "count"])
    /\ UNCHANGED <<open, assets, aged, bucket, queue, spent, running>>

\* markUploaded: is there a cover yet?
CompleteCount(h) ==
    /\ At(h, "complete", "count")
    /\ Advance(h, IF \E p \in Photos : Cover(p) THEN "plain" ELSE "cover")
    /\ UNCHANGED <<open, assets, aged, bucket, queue, spent, running>>

\* Mutant of CoverIsFree: the partial unique index is missing.
NoIndex(p) == TRUE

\* media_assets_one_cover_per_property and _per_room would accept p as a cover.
CoverIsFree(p) == \A other \in Photos \ {p} : ~Cover(other)

\* The update by id.  A row that is gone throws; a cover that is taken is
\* refused, and the same update is tried again without it.
CompleteMark(h) ==
    /\ At(h, "complete", "cover") \/ At(h, "complete", "plain")
    /\ LET p == jobs[h].photo
           asCover == jobs[h].step = "cover"
       IN  \/ /\ ~HasRow(p)
              /\ Finish(h)
              /\ UNCHANGED assets
           \/ /\ HasRow(p)
              /\ asCover /\ ~CoverIsFree(p)
              /\ Advance(h, "plain")
              /\ UNCHANGED assets
           \/ /\ HasRow(p)
              /\ asCover => CoverIsFree(p)
              /\ assets' = [assets EXCEPT ![p] =
                               [status |-> "PROCESSING",
                                isCover |-> asCover \/ Cover(p)]]
              /\ Advance(h, "enqueue")
    /\ UNCHANGED <<open, aged, bucket, queue, spent, running>>

\* Mutant of CompleteEnqueue: the job is never added.
CompleteWithoutJob(h) ==
    /\ At(h, "complete", "enqueue")
    /\ Finish(h)
    /\ UNCHANGED <<open, assets, aged, bucket, queue, spent, running>>

CompleteEnqueue(h) ==
    /\ At(h, "complete", "enqueue")
    /\ Enqueue(Task("derivatives", jobs[h].photo))
    /\ Finish(h)
    /\ UNCHANGED <<open, assets, aged, bucket, spent, running>>

-----------------------------------------------------------------------------
(* setCover and remove.                                                    *)

CoverBegin(h) ==
    /\ \E p \in Photos :
          Visible(p) /\ Begin(h, [op |-> "cover", photo |-> p])
    /\ UNCHANGED <<open, assets, aged, bucket, queue, spent, running>>

OnlyCover(p) == [x \in Photos |-> [assets[x] EXCEPT !.isCover = (x = p)]]

\* Mutant of CoverWrite: the clearing is not rolled back with the setting.
CoverWriteTorn(h) ==
    /\ jobs[h].op = "cover"
    /\ assets' = IF HasRow(jobs[h].photo)
                 THEN OnlyCover(jobs[h].photo)
                 ELSE [p \in Photos |-> [assets[p] EXCEPT !.isCover = FALSE]]
    /\ Finish(h)
    /\ UNCHANGED <<open, aged, bucket, queue, spent, running>>

\* Clear and set in one transaction.  It is refused whole when the photo is
\* gone, or when another cover commits between its two statements.
CoverWrite(h) ==
    /\ jobs[h].op = "cover"
    /\ \/ UNCHANGED assets
       \/ HasRow(jobs[h].photo) /\ assets' = OnlyCover(jobs[h].photo)
    /\ Finish(h)
    /\ UNCHANGED <<open, aged, bucket, queue, spent, running>>

RemoveBegin(h) ==
    /\ \E p \in Photos :
          /\ Visible(p)
          /\ Begin(h, [op |-> "remove", photo |-> p, wasCover |-> Cover(p),
                       step |-> "delete"])
    /\ UNCHANGED <<open, assets, aged, bucket, queue, spent, running>>

RemoveDelete(h) ==
    /\ At(h, "remove", "delete")
    /\ LET p == jobs[h].photo
       IN  IF HasRow(p)
           THEN assets' = [assets EXCEPT ![p] = Gone] /\ Advance(h, "purge")
           ELSE UNCHANGED assets /\ Finish(h)
    /\ UNCHANGED <<open, aged, bucket, queue, spent, running>>

RemovePurge(h) ==
    /\ At(h, "remove", "purge")
    /\ Enqueue(Task("purge", jobs[h].photo))
    /\ IF jobs[h].wasCover THEN Advance(h, "next") ELSE Finish(h)
    /\ UNCHANGED <<open, assets, aged, bucket, spent, running>>

\* The first visible photo in the host's order, which is any of them here.
RemoveNext(h) ==
    /\ At(h, "remove", "next")
    /\ IF \E p \in Photos : Visible(p)
       THEN \E p \in Photos :
               /\ Visible(p)
               /\ jobs' = [jobs EXCEPT ![h].photo = p, ![h].step = "promote"]
       ELSE Finish(h)
    /\ UNCHANGED <<open, assets, aged, bucket, queue, spent, running>>

\* Throws when the photo is gone by now or another cover has been chosen.
RemovePromote(h) ==
    /\ At(h, "remove", "promote")
    /\ LET p == jobs[h].photo
       IN  IF HasRow(p) /\ CoverIsFree(p)
           THEN assets' = [assets EXCEPT ![p].isCover = TRUE]
           ELSE UNCHANGED assets
    /\ Finish(h)
    /\ UNCHANGED <<open, aged, bucket, queue, spent, running>>

\* RoomsService.remove deletes the room, and ON DELETE CASCADE its photos' rows.
RoomRemoved ==
    /\ OfRoom /\ open
    /\ open' = FALSE
    /\ assets' = [p \in Photos |-> IF HasRow(p) THEN Gone ELSE assets[p]]
    /\ UNCHANGED <<aged, bucket, queue, spent, jobs, running>>

\* The process stops, the connection drops or the queue refuses the job: what
\* was written stays, what was still to come does not happen.
RequestFails(h) ==
    /\ "request" \in Faults
    /\ jobs[h] # Idle
    /\ Finish(h)
    /\ UNCHANGED <<open, assets, aged, bucket, queue, spent, running>>

-----------------------------------------------------------------------------
(* MediaProcessor.                                                         *)

Working(q, op) == running[q].op = op
Rest(q)        == running' = [running EXCEPT ![q] = Idle]
Put(task, n)   == queue' = [queue EXCEPT ![task] = @ + n]

\* A job is taken; a derivatives job's first read finds its row, or it is done.
Take(q) ==
    /\ running[q] = Idle
    /\ \E t \in Tasks :
          /\ queue[t] > 0
          /\ Put(t, -1)
          /\ running' =
                [running EXCEPT ![q] =
                    CASE t.kind = "purge" -> [op |-> "purge", task |-> t]
                      [] t.kind = "derivatives" /\ HasRow(t.photo) ->
                            [op |-> "derivatives", task |-> t, step |-> 0]
                      [] OTHER -> Idle]
    /\ UNCHANGED <<open, assets, aged, bucket, spent, jobs>>

\* Mutant of AttemptFails: the listener does not hear of the last attempt.
AttemptFailsUnheard(q) ==
    LET t == running[q].task
    IN  /\ IF t.made + 1 < Attempts
           THEN queue' = [queue EXCEPT ![[t EXCEPT !.made = @ + 1]] = @ + 1]
           ELSE UNCHANGED queue
        /\ Rest(q)
        /\ UNCHANGED spent

\* A throw: the queue tries the job again until its attempts are spent, and
\* only then does the failure of a derivatives job mean something to onFailed.
AttemptFails(q) ==
    LET t == running[q].task
    IN  /\ IF t.made + 1 < Attempts
           THEN /\ queue' = [queue EXCEPT ![[t EXCEPT !.made = @ + 1]] = @ + 1]
                /\ UNCHANGED spent
           ELSE /\ spent' = IF t.kind = "derivatives"
                            THEN spent \cup {t.photo} ELSE spent
                /\ UNCHANGED queue
        /\ Rest(q)

DeriveRead(q) ==
    /\ Working(q, "derivatives") /\ running[q].step = 0
    /\ IF <<running[q].task.photo, "original">> \in bucket
       THEN running' = [running EXCEPT ![q].step = 1] /\ UNCHANGED <<queue, spent>>
       ELSE AttemptFails(q)
    /\ UNCHANGED <<open, assets, aged, bucket, jobs>>

DeriveStore(q) ==
    /\ Working(q, "derivatives") /\ running[q].step \in DOMAIN Variants
    /\ bucket' = bucket \cup {<<running[q].task.photo, Variants[running[q].step]>>}
    /\ running' = [running EXCEPT ![q].step = @ + 1]
    /\ UNCHANGED <<open, assets, aged, queue, spent, jobs>>

\* The update by id throws when the row has gone.
DeriveFinish(q) ==
    /\ Working(q, "derivatives") /\ running[q].step = LastStep
    /\ LET p == running[q].task.photo
       IN  IF HasRow(p)
           THEN /\ assets' = [assets EXCEPT ![p].status = "READY"]
                /\ Rest(q)
                /\ UNCHANGED <<queue, spent>>
           ELSE AttemptFails(q) /\ UNCHANGED assets
    /\ UNCHANGED <<open, aged, bucket, jobs>>

PurgeObjects(q) ==
    /\ Working(q, "purge")
    /\ bucket' = bucket \ AllKeys({running[q].task.photo})
    /\ Rest(q)
    /\ UNCHANGED <<open, assets, aged, queue, spent, jobs>>

\* Mutant of Abandoned: the comparison of the age is the wrong way round.
Fresh(p) == Pending(p) /\ p \notin aged

Abandoned(p) == Pending(p) /\ p \in aged

\* The scheduler's job.  A retry of one that failed runs this same code, so it
\* is a later sweep.
SweepFind(q) ==
    /\ running[q] = Idle
    /\ \E p \in Photos : Abandoned(p)
    /\ running' = [running EXCEPT ![q] =
                      [op |-> "sweep", step |-> "rows",
                       photos |-> {p \in Photos : Abandoned(p)}]]
    /\ UNCHANGED <<open, assets, aged, bucket, queue, spent, jobs>>

\* Mutant of Swept: the delete re-checks the status, as the read did; the
\* objects are deleted all the same.
StillPending(ps) == {p \in ps : Pending(p)}

\* deleteMany's where clause: the ids, whatever the rows have become.
Swept(ps) == {p \in ps : HasRow(p)}

SweepRows(q) ==
    /\ Working(q, "sweep") /\ running[q].step = "rows"
    /\ assets' = [p \in Photos |->
                     IF p \in Swept(running[q].photos) THEN Gone ELSE assets[p]]
    /\ running' = [running EXCEPT ![q].step = "objects"]
    /\ UNCHANGED <<open, aged, bucket, queue, spent, jobs>>

SweepObjects(q) ==
    /\ Working(q, "sweep") /\ running[q].step = "objects"
    /\ bucket' = bucket \ AllKeys(running[q].photos)
    /\ Rest(q)
    /\ UNCHANGED <<open, assets, aged, queue, spent, jobs>>

\* onFailed: the photo is marked, unless a later job has moved it on.
OnFailed(p) ==
    /\ p \in spent
    /\ spent' = spent \ {p}
    /\ assets' = IF assets[p].status = "PROCESSING"
                 THEN [assets EXCEPT ![p].status = "FAILED"] ELSE assets
    /\ UNCHANGED <<open, aged, bucket, queue, jobs, running>>

\* A call to the bucket throws.
StorageFails(q) ==
    /\ "storage" \in Faults
    /\ \/ /\ \/ Working(q, "purge")
             \/ Working(q, "derivatives") /\ running[q].step < LastStep
          /\ AttemptFails(q)
       \/ /\ Working(q, "sweep") /\ running[q].step = "objects"
          /\ Rest(q)
          /\ UNCHANGED <<queue, spent>>
    /\ UNCHANGED <<open, assets, aged, bucket, jobs>>

\* The process is killed in a job.  The queue notices that the job has stalled
\* and hands it out again; an interrupted sweep is the next sweep.
ProcessDies(q) ==
    /\ "process" \in Faults
    /\ running[q] # Idle
    /\ IF Working(q, "sweep") THEN UNCHANGED queue ELSE Put(running[q].task, 1)
    /\ Rest(q)
    /\ UNCHANGED <<open, assets, aged, bucket, spent, jobs>>

\* ... or between the last failure and the listener's write.
ListenerDies(p) ==
    /\ "process" \in Faults
    /\ p \in spent
    /\ spent' = spent \ {p}
    /\ UNCHANGED <<open, assets, aged, bucket, queue, jobs, running>>

-----------------------------------------------------------------------------
RequestStep(h) ==
    \/ UploadCreate(h)
    \/ CompleteCount(h) \/ CompleteMark(h) \/ CompleteEnqueue(h)
    \/ CoverWrite(h)
    \/ RemoveDelete(h) \/ RemovePurge(h) \/ RemoveNext(h) \/ RemovePromote(h)

RequestBegins(h) ==
    UploadBegin(h) \/ CompleteBegin(h) \/ CoverBegin(h) \/ RemoveBegin(h)

QueueStep(q) ==
    \/ Take(q) \/ DeriveRead(q) \/ DeriveStore(q) \/ DeriveFinish(q)
    \/ PurgeObjects(q)
    \/ SweepFind(q) \/ SweepRows(q) \/ SweepObjects(q)

Next ==
    \/ \E h \in Handlers : RequestBegins(h) \/ RequestStep(h) \/ RequestFails(h)
    \/ RoomRemoved
    \/ \E p \in Photos : BrowserPut(p) \/ Age(p) \/ OnFailed(p) \/ ListenerDies(p)
    \/ \E q \in Processes : QueueStep(q) \/ StorageFails(q) \/ ProcessDies(q)

Spec == Init /\ [][Next]_vars

\* A request in flight runs on, a worker with something to do does it (the
\* sweep is scheduled at every boot), and a listener that was called returns.
\* No host has to act, and no fault has to happen.
Fairness ==
    /\ \A h \in Handlers : WF_vars(RequestStep(h))
    /\ \A q \in Processes : WF_vars(QueueStep(q))
    /\ \A p \in Photos : WF_vars(OnFailed(p))

FairSpec == Spec /\ Fairness

-----------------------------------------------------------------------------
(* What a host and a guest may rely on.                                    *)

\* toDto: a READY photo is served from its three derivatives and any other
\* visible photo from its original.  Whatever uploads, removals, retries and
\* sweeps interleave, the objects those URLs name are in the bucket.
PhotosAreServed ==
    \A p \in Photos :
        Visible(p) =>
            IF assets[p].status = "READY"
            THEN {p} \X (Objects \ {"original"}) \subseteq bucket
            ELSE <<p, "original">> \in bucket

\* One cover at most, and one that is shown: two uploads confirmed at once, a
\* setCover and a removal's promotion never leave a listing with two.
OneVisibleCover ==
    /\ \A p \in Photos : Cover(p) => Visible(p)
    /\ \A p, r \in Photos : Cover(p) /\ Cover(r) => p = r

HasCover == \E p \in Photos : Cover(p)

\* A listing loses its cover only with the photo that was the cover: no
\* setCover that fails halfway, and no late confirmation, takes it away.
CoverGoesWithItsPhoto ==
    [][HasCover /\ ~HasCover' =>
          \E p \in Photos : Cover(p) /\ ~HasRow(p)']_vars

\* Someone will delete every object whose row is gone: a purge in the queue or
\* in hand, the removal that is about to add one, or the sweep that took the row.
ObjectsHaveAnOwner ==
    \A p \in Photos :
        \/ bucket \cap ({p} \X Objects) = {}
        \/ HasRow(p)
        \/ \E t \in Tasks : t.kind = "purge" /\ t.photo = p /\ queue[t] > 0
        \/ \E q \in Processes :
              \/ Working(q, "purge") /\ running[q].task.photo = p
              \/ Working(q, "sweep") /\ p \in running[q].photos
        \/ \E h \in Handlers : At(h, "remove", "purge") /\ jobs[h].photo = p

\* schema.prisma on PROCESSING, "derivatives and blurhash are queued": or being
\* made, or about to be queued by the confirmation still in flight, or given up
\* and waiting for onFailed to say so.
ProcessingIsQueued ==
    \A p \in Photos :
        assets[p].status = "PROCESSING" =>
            \/ p \in spent
            \/ \E t \in Tasks :
                  t.kind = "derivatives" /\ t.photo = p /\ queue[t] > 0
            \/ \E q \in Processes :
                  Working(q, "derivatives") /\ running[q].task.photo = p
            \/ \E h \in Handlers :
                  At(h, "complete", "enqueue") /\ jobs[h].photo = p

\* The derivatives replace a confirmed photo's original or the photo is marked
\* as failed or removed; it does not stay PROCESSING, though the bucket throws.
UploadsSettle ==
    \A p \in Photos :
        assets[p].status = "PROCESSING" ~> assets[p].status # "PROCESSING"

\* An upload that is still PENDING after a day is swept (or confirmed late).
AbandonedUploadsGo ==
    \A p \in Photos : Pending(p) /\ p \in aged ~> ~Pending(p)
=============================================================================
