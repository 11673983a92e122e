---------------------------- MODULE MediaProofs ----------------------------
(***************************************************************************)
(* MediaPipeline's safety, for every set of photos, requests, workers and  *)
(* faults, any cap and any number of attempts.                             *)
(***************************************************************************)
EXTENDS MediaPipeline, TLAPS

-----------------------------------------------------------------------------
(* Typing.                                                                 *)

\* What a request or a worker remembers is what its kind remembers.
LEMMA RequestTypes ==
    ASSUME TypeOK, NEW h \in Handlers
    PROVE  /\ jobs[h] \in RequestJobs
           /\ jobs[h].op = "complete" => jobs[h] \in CompleteJob
           /\ jobs[h].op = "cover" => jobs[h] \in CoverJob
           /\ jobs[h].op = "remove" => jobs[h] \in RemoveJob
  BY DEF TypeOK, RequestJobs, Idle, UploadJob, CompleteJob, CoverJob, RemoveJob

LEMMA WorkerTypes ==
    ASSUME TypeOK, NEW q \in Processes
    PROVE  /\ running[q] \in QueueJobs
           /\ Working(q, "derivatives") => running[q] \in DeriveJob
           /\ Working(q, "purge") => running[q] \in PurgeJob
           /\ Working(q, "sweep") => running[q] \in SweepJob
  BY DEF TypeOK, Working, QueueJobs, Idle, DeriveJob, PurgeJob, SweepJob

LEMMA RequestsKeepType ==
    ASSUME TypeOK, NEW h \in Handlers
    PROVE  /\ Finish(h) => jobs' \in [Handlers -> RequestJobs]
           /\ \A job \in RequestJobs :
                 Begin(h, job) => jobs' \in [Handlers -> RequestJobs]
           /\ \A step \in {"cover", "plain", "enqueue"} :
                 jobs[h].op = "complete" /\ Advance(h, step)
                    => jobs' \in [Handlers -> RequestJobs]
           /\ \A step \in {"purge", "next"} :
                 jobs[h].op = "remove" /\ Advance(h, step)
                    => jobs' \in [Handlers -> RequestJobs]
  <1>1. \A job \in RequestJobs :
           [jobs EXCEPT ![h] = job] \in [Handlers -> RequestJobs]
    BY DEF TypeOK
  <1>2. ASSUME NEW step \in {"cover", "plain", "enqueue"}, jobs[h].op = "complete"
        PROVE  [jobs[h] EXCEPT !.step = step] \in RequestJobs
    BY <1>2, RequestTypes DEF CompleteJob, RequestJobs
  <1>3. ASSUME NEW step \in {"purge", "next"}, jobs[h].op = "remove"
        PROVE  [jobs[h] EXCEPT !.step = step] \in RequestJobs
    BY <1>3, RequestTypes DEF RemoveJob, RequestJobs
  <1> QED
    BY <1>1, <1>2, <1>3 DEF Finish, Begin, Advance, RequestJobs

LEMMA TaskTypes ==
    ASSUME NEW p \in Photos, NEW kind \in {"derivatives", "purge"}
    PROVE  /\ Task(kind, p) \in Tasks
           /\ Task(kind, p).kind = kind /\ Task(kind, p).photo = p
  BY AttemptsAssumption DEF Task, Tasks

\* Adding a job to the queue, or a failed attempt's going back to it.
LEMMA EnqueueKeepsType ==
    ASSUME TypeOK, NEW t \in Tasks, Enqueue(t)
    PROVE  queue' \in [Tasks -> Nat]
  BY DEF TypeOK, Enqueue

LEMMA AttemptFailsKeepsType ==
    ASSUME TypeOK, NEW q \in Processes, running[q].task \in Tasks, AttemptFails(q)
    PROVE  /\ queue' \in [Tasks -> Nat]
           /\ spent' \subseteq Photos
           /\ running' = [running EXCEPT ![q] = Idle]
           /\ running' \in [Processes -> QueueJobs]
  <1> DEFINE t == running[q].task
  <1>1. CASE t.made + 1 < Attempts
    <2>1. [t EXCEPT !.made = @ + 1] \in Tasks
      BY <1>1, AttemptsAssumption DEF Tasks
    <2> HIDE DEF t
    <2>2. queue' = [queue EXCEPT ![[t EXCEPT !.made = @ + 1]] = @ + 1]
      BY <1>1 DEF AttemptFails, t
    <2>3. queue' \in [Tasks -> Nat]
      BY <2>1, <2>2 DEF TypeOK
    <2> QED BY <1>1, <2>3 DEF AttemptFails, TypeOK, Rest, QueueJobs, t
  <1>2. CASE ~(t.made + 1 < Attempts)
    BY <1>2 DEF AttemptFails, TypeOK, Rest, QueueJobs, Tasks
  <1> QED BY <1>1, <1>2

\* Every step keeps the types.
LEMMA Typed ==
    ASSUME TypeOK, [Next]_vars
    PROVE  TypeOK'
<1>1. ASSUME NEW h \in Handlers, RequestBegins(h) PROVE TypeOK'
  <2>1. CASE UploadBegin(h)
    <3>1. [op |-> "upload"] \in RequestJobs
      BY DEF RequestJobs, UploadJob
    <3> QED BY <2>1, <3>1, RequestsKeepType DEF UploadBegin, TypeOK
  <2>2. CASE CompleteBegin(h)
    <3>1. PICK p \in Photos :
             Begin(h, [op |-> "complete", photo |-> p, step |-> "count"])
      BY <2>2 DEF CompleteBegin
    <3>2. [op |-> "complete", photo |-> p, step |-> "count"] \in RequestJobs
      BY DEF RequestJobs, CompleteJob
    <3>3. jobs' \in [Handlers -> RequestJobs]
      BY <3>1, <3>2, RequestsKeepType
    <3> QED BY <2>2, <3>3 DEF CompleteBegin, TypeOK
  <2>3. CASE CoverBegin(h)
    <3>1. PICK p \in Photos : Begin(h, [op |-> "cover", photo |-> p])
      BY <2>3 DEF CoverBegin
    <3>2. [op |-> "cover", photo |-> p] \in RequestJobs
      BY DEF RequestJobs, CoverJob
    <3>3. jobs' \in [Handlers -> RequestJobs]
      BY <3>1, <3>2, RequestsKeepType
    <3> QED BY <2>3, <3>3 DEF CoverBegin, TypeOK
  <2>4. CASE RemoveBegin(h)
    <3>1. PICK p \in Photos :
             Begin(h, [op |-> "remove", photo |-> p, wasCover |-> Cover(p),
                       step |-> "delete"])
      BY <2>4 DEF RemoveBegin
    <3>2. Cover(p) \in BOOLEAN
      BY DEF TypeOK, AssetRow, Cover
    <3>3. [op |-> "remove", photo |-> p, wasCover |-> Cover(p),
           step |-> "delete"] \in RequestJobs
      BY <3>2 DEF RequestJobs, RemoveJob
    <3>4. jobs' \in [Handlers -> RequestJobs]
      BY <3>1, <3>3, RequestsKeepType
    <3> QED BY <2>4, <3>4 DEF RemoveBegin, TypeOK
  <2> QED BY <1>1, <2>1, <2>2, <2>3, <2>4 DEF RequestBegins
<1>2. ASSUME NEW h \in Handlers, RequestStep(h) PROVE TypeOK'
  <2>1. CASE UploadCreate(h)
    BY <2>1, RequestsKeepType DEF UploadCreate, TypeOK, AssetRow, AssetStatuses
  <2>2. CASE CompleteCount(h)
    BY <2>2, RequestsKeepType DEF CompleteCount, At, TypeOK
  <2>3. CASE CompleteMark(h)
    <3> DEFINE p == jobs[h].photo
               asCover == jobs[h].step = "cover"
    <3>1. jobs[h].op = "complete" /\ p \in Photos
      BY <2>3, RequestTypes DEF CompleteMark, At, CompleteJob
    <3>2. jobs' \in [Handlers -> RequestJobs]
      BY <2>3, <3>1, RequestsKeepType DEF CompleteMark
    <3>3. Cover(p) \in BOOLEAN
      BY <3>1 DEF TypeOK, AssetRow, Cover
    <3>4. [status |-> "PROCESSING", isCover |-> asCover \/ Cover(p)] \in AssetRow
      BY <3>3 DEF AssetRow, AssetStatuses, VisibleStatuses
    <3>5. \/ UNCHANGED assets
          \/ assets' = [assets EXCEPT ![p] =
                           [status |-> "PROCESSING", isCover |-> asCover \/ Cover(p)]]
      BY <2>3 DEF CompleteMark
    <3>6. assets' \in [Photos -> AssetRow]
      BY <3>1, <3>4, <3>5 DEF TypeOK
    <3> QED BY <2>3, <3>2, <3>6 DEF CompleteMark, TypeOK
  <2>4. CASE CompleteEnqueue(h)
    <3>1. jobs[h].photo \in Photos
      BY <2>4, RequestTypes DEF CompleteEnqueue, At, CompleteJob
    <3>2. queue' \in [Tasks -> Nat]
      BY <2>4, <3>1, TaskTypes, EnqueueKeepsType DEF CompleteEnqueue
    <3> QED BY <2>4, <3>2, RequestsKeepType DEF CompleteEnqueue, TypeOK
  <2>5. CASE CoverWrite(h)
    <3>1. ASSUME NEW p \in Photos PROVE OnlyCover(p) \in [Photos -> AssetRow]
      BY DEF OnlyCover, TypeOK, AssetRow
    <3>2. jobs[h].photo \in Photos
      BY <2>5, RequestTypes DEF CoverWrite, CoverJob
    <3> QED BY <2>5, <3>1, <3>2, RequestsKeepType DEF CoverWrite, TypeOK
  <2>6. CASE RemoveDelete(h)
    <3>1. jobs[h].op = "remove" /\ jobs[h].photo \in Photos
      BY <2>6, RequestTypes DEF RemoveDelete, At, RemoveJob
    <3>2. Gone \in AssetRow
      BY DEF Gone, AssetRow, AssetStatuses
    <3>3. assets' \in [Photos -> AssetRow]
      BY <2>6, <3>2 DEF RemoveDelete, TypeOK
    <3>4. jobs' \in [Handlers -> RequestJobs]
      BY <2>6, <3>1, RequestsKeepType DEF RemoveDelete
    <3> QED BY <2>6, <3>3, <3>4 DEF RemoveDelete, TypeOK
  <2>7. CASE RemovePurge(h)
    <3>1. jobs[h].op = "remove" /\ jobs[h].photo \in Photos
      BY <2>7, RequestTypes DEF RemovePurge, At, RemoveJob
    <3>2. queue' \in [Tasks -> Nat]
      BY <2>7, <3>1, TaskTypes, EnqueueKeepsType DEF RemovePurge
    <3> QED BY <2>7, <3>1, <3>2, RequestsKeepType DEF RemovePurge, TypeOK
  <2>8. CASE RemoveNext(h)
    <3>1. CASE \E p \in Photos : Visible(p)
      <4>1. PICK p \in Photos :
               jobs' = [jobs EXCEPT ![h].photo = p, ![h].step = "promote"]
        BY <2>8, <3>1 DEF RemoveNext
      <4>2. [jobs[h] EXCEPT !.photo = p, !.step = "promote"] \in RequestJobs
        BY <2>8, RequestTypes DEF RemoveNext, At, RemoveJob, RequestJobs
      <4> QED BY <2>8, <4>1, <4>2 DEF RemoveNext, TypeOK
    <3>2. CASE ~\E p \in Photos : Visible(p)
      BY <2>8, <3>2, RequestsKeepType DEF RemoveNext, TypeOK
    <3> QED BY <3>1, <3>2
  <2>9. CASE RemovePromote(h)
    <3>1. jobs' \in [Handlers -> RequestJobs]
      BY <2>9, RequestsKeepType DEF RemovePromote
    <3>2. \/ UNCHANGED assets
          \/ assets' = [assets EXCEPT ![jobs[h].photo].isCover = TRUE]
      BY <2>9 DEF RemovePromote
    <3>3. assets' \in [Photos -> AssetRow]
      BY <3>2 DEF TypeOK, AssetRow
    <3> QED BY <2>9, <3>1, <3>3 DEF RemovePromote, TypeOK
  <2> QED
    BY <1>2, <2>1, <2>2, <2>3, <2>4, <2>5, <2>6, <2>7, <2>8, <2>9 DEF RequestStep
<1>3. ASSUME NEW q \in Processes, QueueStep(q) \/ StorageFails(q) \/ ProcessDies(q)
      PROVE  TypeOK'
  <2>1. CASE Take(q)
    <3>1. PICK t \in Tasks :
            /\ queue[t] > 0
            /\ queue' = [queue EXCEPT ![t] = @ + -1]
            /\ running' =
                  [running EXCEPT ![q] =
                      CASE t.kind = "purge" -> [op |-> "purge", task |-> t]
                        [] t.kind = "derivatives" /\ HasRow(t.photo) ->
                              [op |-> "derivatives", task |-> t, step |-> 0]
                        [] OTHER -> Idle]
      BY <2>1 DEF Take, Put
    <3>2. queue' \in [Tasks -> Nat]
      BY <3>1 DEF TypeOK
    <3>3. /\ [op |-> "purge", task |-> t] \in QueueJobs
          /\ [op |-> "derivatives", task |-> t, step |-> 0] \in QueueJobs
          /\ Idle \in QueueJobs
      BY DEF QueueJobs, PurgeJob, DeriveJob, LastStep, Variants
    <3>4. running' \in [Processes -> QueueJobs]
      BY <3>1, <3>3 DEF TypeOK
    <3> QED BY <2>1, <3>2, <3>4 DEF Take, TypeOK
  <2>2. CASE DeriveRead(q)
    <3>1. running[q] \in DeriveJob
      BY <2>2, WorkerTypes DEF DeriveRead
    <3>2. [running[q] EXCEPT !.step = 1] \in QueueJobs
      BY <3>1 DEF DeriveJob, QueueJobs, LastStep, Variants
    <3>3. CASE running' = [running EXCEPT ![q].step = 1] /\ UNCHANGED <<queue, spent>>
      BY <2>2, <3>2, <3>3 DEF DeriveRead, TypeOK
    <3>4. CASE AttemptFails(q)
      <4>1. running[q].task \in Tasks
        BY <3>1 DEF DeriveJob
      <4> QED BY <2>2, <3>4, <4>1, AttemptFailsKeepsType DEF DeriveRead, TypeOK
    <3> QED BY <2>2, <3>3, <3>4 DEF DeriveRead
  <2>3. CASE DeriveStore(q)
    <3>1. running[q] \in DeriveJob
      BY <2>3, WorkerTypes DEF DeriveStore
    <3>2. running[q].step \in {1, 2, 3}
      BY <2>3 DEF DeriveStore, Variants
    <3>3. [running[q] EXCEPT !.step = @ + 1] \in QueueJobs
      BY <3>1, <3>2 DEF DeriveJob, QueueJobs, LastStep, Variants
    <3>4. running' \in [Processes -> QueueJobs]
      BY <2>3, <3>3 DEF DeriveStore, TypeOK
    <3>5. <<running[q].task.photo, Variants[running[q].step]>> \in Photos \X Objects
      BY <3>1, <3>2 DEF DeriveJob, Tasks, Variants, Objects
    <3> QED BY <2>3, <3>4, <3>5 DEF DeriveStore, TypeOK
  <2>4. CASE DeriveFinish(q)
    <3>1. running[q] \in DeriveJob /\ running[q].task \in Tasks
      BY <2>4, WorkerTypes DEF DeriveFinish, DeriveJob
    <3>2. CASE HasRow(running[q].task.photo)
      BY <2>4, <3>1, <3>2 DEF DeriveFinish, TypeOK, Rest, QueueJobs, AssetRow,
                              AssetStatuses, VisibleStatuses
    <3>3. CASE ~HasRow(running[q].task.photo)
      BY <2>4, <3>1, <3>3, AttemptFailsKeepsType DEF DeriveFinish, TypeOK
    <3> QED BY <3>2, <3>3
  <2>5. CASE PurgeObjects(q)
    BY <2>5 DEF PurgeObjects, TypeOK, Rest, QueueJobs
  <2>6. CASE SweepFind(q)
    <3>1. [op |-> "sweep", step |-> "rows",
           photos |-> {p \in Photos : Abandoned(p)}] \in QueueJobs
      BY DEF QueueJobs, SweepJob
    <3> QED BY <2>6, <3>1 DEF SweepFind, TypeOK
  <2>7. CASE SweepRows(q)
    <3>1. running[q] \in SweepJob
      BY <2>7, WorkerTypes DEF SweepRows
    <3>2. [running[q] EXCEPT !.step = "objects"] \in QueueJobs
      BY <3>1 DEF SweepJob, QueueJobs
    <3>3. running' \in [Processes -> QueueJobs]
      BY <2>7, <3>2 DEF SweepRows, TypeOK
    <3>4. assets' \in [Photos -> AssetRow]
      BY <2>7 DEF SweepRows, TypeOK, Gone, AssetRow, AssetStatuses
    <3> QED BY <2>7, <3>3, <3>4 DEF SweepRows, TypeOK
  <2>8. CASE SweepObjects(q)
    BY <2>8 DEF SweepObjects, TypeOK, Rest, QueueJobs
  <2>9. CASE StorageFails(q)
    <3>1. CASE AttemptFails(q) /\ (Working(q, "purge") \/ Working(q, "derivatives"))
      <4>1. running[q].task \in Tasks
        BY <3>1, WorkerTypes DEF PurgeJob, DeriveJob
      <4> QED BY <2>9, <3>1, <4>1, AttemptFailsKeepsType DEF StorageFails, TypeOK
    <3>2. CASE Rest(q) /\ UNCHANGED <<queue, spent>>
      BY <2>9, <3>2 DEF StorageFails, TypeOK, Rest, QueueJobs
    <3> QED BY <2>9, <3>1, <3>2 DEF StorageFails
  <2>10. CASE ProcessDies(q)
    <3>1. ~Working(q, "sweep") => running[q].task \in Tasks
      BY <2>10, WorkerTypes DEF ProcessDies, QueueJobs, Working, DeriveJob,
                                PurgeJob, SweepJob
    <3>2. queue' \in [Tasks -> Nat]
      BY <2>10, <3>1 DEF ProcessDies, Put, TypeOK
    <3> QED BY <2>10, <3>2 DEF ProcessDies, TypeOK, Rest, QueueJobs
  <2> QED
    BY <1>3, <2>1, <2>2, <2>3, <2>4, <2>5, <2>6, <2>7, <2>8, <2>9, <2>10
       DEF QueueStep
<1>4. ASSUME NEW p \in Photos, BrowserPut(p) \/ Age(p) \/ OnFailed(p) \/ ListenerDies(p)
      PROVE  TypeOK'
  <2>1. CASE BrowserPut(p)
    BY <2>1 DEF BrowserPut, TypeOK, Objects
  <2>2. CASE Age(p)
    BY <2>2 DEF Age, TypeOK
  <2>3. CASE OnFailed(p)
    BY <2>3 DEF OnFailed, TypeOK, AssetRow, AssetStatuses, VisibleStatuses
  <2>4. CASE ListenerDies(p)
    BY <2>4 DEF ListenerDies, TypeOK
  <2> QED BY <1>4, <2>1, <2>2, <2>3, <2>4
<1>5. CASE RoomRemoved
  BY <1>5 DEF RoomRemoved, TypeOK, Gone, AssetRow, AssetStatuses
<1>6. ASSUME NEW h \in Handlers, RequestFails(h) PROVE TypeOK'
  BY <1>6, RequestsKeepType DEF RequestFails, TypeOK
<1>7. CASE UNCHANGED vars
  BY <1>7 DEF vars, TypeOK
<1> QED BY <1>1, <1>2, <1>3, <1>4, <1>5, <1>6, <1>7 DEF Next

\* Tables, bucket, queue and everyone's memory are well typed, always.
THEOREM Typing == Spec => []TypeOK
<1>1. Init => TypeOK
  <2>1. \A t \in Tasks : 0 \in Nat
    OBVIOUS
  <2> QED BY <2>1 DEF Init, TypeOK, AssetRow, AssetStatuses, RequestJobs, QueueJobs
<1>2. TypeOK /\ [Next]_vars => TypeOK'
  BY Typed
<1> QED BY <1>1, <1>2, PTL DEF Spec

-----------------------------------------------------------------------------
(* The inductive invariant.                                                *)

IsGone(p) == assets[p].status = "gone"

\* Whoever is about to delete the objects of p.
AboutToPurge(p) ==
    \E h \in Handlers : At(h, "remove", "purge") /\ jobs[h].photo = p
PurgeQueued(p) ==
    \E t \in Tasks : t.kind = "purge" /\ t.photo = p /\ queue[t] > 0
PurgeRunning(p) ==
    \E q \in Processes : Working(q, "purge") /\ running[q].task.photo = p
BeingSwept(p) ==
    \E q \in Processes : /\ Working(q, "sweep") /\ running[q].step = "objects"
                         /\ p \in running[q].photos

Doomed(p) ==
    AboutToPurge(p) \/ PurgeQueued(p) \/ PurgeRunning(p) \/ BeingSwept(p)

OnlyTheGoneAreDoomed == \A p \in Photos : Doomed(p) => IsGone(p)

\* A worker does with a job what the job asks for.
WorkersFollowKinds ==
    \A q \in Processes :
        running[q].op \in {"derivatives", "purge"} =>
            running[q].task.kind = running[q].op

\* A sweep's list names uploads that had a row; none of them gets another.
ListsNameRealRows ==
    \A q \in Processes : Working(q, "sweep") =>
        \A p \in running[q].photos : assets[p].status # "none"

\* A confirmation in flight is of a photo whose original is stored, and a
\* derivatives job has stored the variants it has passed; or the row is gone.
ConfirmedHaveBytes ==
    \A h \in Handlers : jobs[h].op = "complete" =>
        IsGone(jobs[h].photo) \/ <<jobs[h].photo, "original">> \in bucket

StoredSoFar ==
    \A q \in Processes : Working(q, "derivatives") =>
        LET p == running[q].task.photo
        IN  \/ IsGone(p)
            \/ \A n \in DOMAIN Variants :
                  n < running[q].step => <<p, Variants[n]>> \in bucket

\* setCover and remove only ever hold photos that are visible or gone.
CoversInHand ==
    \A h \in Handlers : jobs[h].op \in {"cover", "remove"} =>
        Visible(jobs[h].photo) \/ IsGone(jobs[h].photo)

MediaInv ==
    /\ PhotosAreServed
    /\ OneVisibleCover
    /\ OnlyTheGoneAreDoomed
    /\ WorkersFollowKinds
    /\ ListsNameRealRows
    /\ ConfirmedHaveBytes
    /\ StoredSoFar
    /\ CoversInHand

IInv == TypeOK /\ MediaInv

-----------------------------------------------------------------------------
(* What one step does to one row, one request and one worker.              *)

\* The only ways a row's status moves.
StatusMoves(p) ==
    \/ assets'[p].status = assets[p].status
    \/ assets[p].status = "none" /\ assets'[p].status = "PENDING"
    \/ /\ HasRow(p)
       /\ \/ assets'[p].status = "gone"
          \/ /\ assets'[p].status = "PROCESSING"
             /\ \E h \in Handlers : jobs[h].op = "complete" /\ jobs[h].photo = p
          \/ /\ assets'[p].status = "READY"
             /\ \E q \in Processes : /\ Working(q, "derivatives")
                                     /\ running[q].step = LastStep
                                     /\ running[q].task.photo = p
          \/ assets[p].status = "PROCESSING" /\ assets'[p].status = "FAILED"

LEMMA StatusSteps ==
    ASSUME TypeOK, [Next]_vars, NEW p \in Photos
    PROVE  StatusMoves(p)
<1>1. ASSUME NEW h \in Handlers, RequestStep(h) PROVE StatusMoves(p)
  <2>1. CASE UploadCreate(h)
    BY <2>1 DEF UploadCreate, StatusMoves, TypeOK, AssetRow
  <2>2. CASE CompleteMark(h)
    <3>1. jobs[h].op = "complete"
      BY <2>2 DEF CompleteMark, At
    <3>2. \/ UNCHANGED assets
          \/ /\ HasRow(jobs[h].photo)
             /\ assets' = [assets EXCEPT ![jobs[h].photo] =
                              [status |-> "PROCESSING",
                               isCover |-> jobs[h].step = "cover" \/ Cover(jobs[h].photo)]]
      BY <2>2 DEF CompleteMark
    <3>3. assets'[p] = assets[p] \/ /\ p = jobs[h].photo /\ HasRow(p)
                                    /\ assets'[p].status = "PROCESSING"
      BY <3>2 DEF TypeOK
    <3> QED BY <3>1, <3>3 DEF StatusMoves
  <2>3. CASE CoverWrite(h)
    BY <2>3 DEF CoverWrite, OnlyCover, StatusMoves, TypeOK, AssetRow
  <2>4. CASE RemoveDelete(h)
    <3>1. \/ UNCHANGED assets
          \/ HasRow(jobs[h].photo) /\ assets' = [assets EXCEPT ![jobs[h].photo] = Gone]
      BY <2>4 DEF RemoveDelete
    <3> QED BY <3>1 DEF Gone, StatusMoves, TypeOK
  <2>5. CASE RemovePromote(h)
    BY <2>5 DEF RemovePromote, StatusMoves, TypeOK, AssetRow
  <2>6. CASE CompleteCount(h) \/ CompleteEnqueue(h) \/ RemovePurge(h) \/ RemoveNext(h)
    BY <2>6 DEF CompleteCount, CompleteEnqueue, RemovePurge, RemoveNext, StatusMoves
  <2> QED BY <1>1, <2>1, <2>2, <2>3, <2>4, <2>5, <2>6 DEF RequestStep
<1>2. ASSUME NEW h \in Handlers, RequestBegins(h) \/ RequestFails(h)
      PROVE  StatusMoves(p)
  BY <1>2 DEF RequestBegins, UploadBegin, CompleteBegin, CoverBegin, RemoveBegin,
              RequestFails, StatusMoves
<1>3. ASSUME NEW q \in Processes, QueueStep(q) PROVE StatusMoves(p)
  <2>1. CASE DeriveFinish(q)
    BY <2>1 DEF DeriveFinish, StatusMoves, TypeOK, AssetRow
  <2>2. CASE SweepRows(q)
    BY <2>2 DEF SweepRows, Swept, Gone, StatusMoves
  <2>3. CASE Take(q) \/ DeriveRead(q) \/ DeriveStore(q) \/ PurgeObjects(q)
    BY <2>3 DEF Take, DeriveRead, DeriveStore, PurgeObjects, StatusMoves
  <2>4. CASE SweepFind(q) \/ SweepObjects(q)
    BY <2>4 DEF SweepFind, SweepObjects, StatusMoves
  <2> QED BY <1>3, <2>1, <2>2, <2>3, <2>4 DEF QueueStep
<1>4. ASSUME NEW q \in Processes, StorageFails(q) \/ ProcessDies(q)
      PROVE  StatusMoves(p)
  BY <1>4 DEF StorageFails, ProcessDies, StatusMoves
<1>5. ASSUME NEW r \in Photos, BrowserPut(r) \/ Age(r) \/ ListenerDies(r)
      PROVE  StatusMoves(p)
  BY <1>5 DEF BrowserPut, Age, ListenerDies, StatusMoves
<1>6. ASSUME NEW r \in Photos, OnFailed(r) PROVE StatusMoves(p)
  BY <1>6 DEF OnFailed, StatusMoves, TypeOK, AssetRow, HasRow
<1>7. CASE RoomRemoved
  BY <1>7 DEF RoomRemoved, Gone, StatusMoves
<1>8. CASE UNCHANGED vars
  BY <1>8 DEF vars, StatusMoves
<1> QED BY <1>1, <1>2, <1>3, <1>4, <1>5, <1>6, <1>7, <1>8 DEF Next

\* A row that is gone stays gone, an id is not handed out twice, and a visible
\* photo is visible until it is gone.
LEMMA RowsAreFinal ==
    ASSUME TypeOK, [Next]_vars, NEW p \in Photos
    PROVE  /\ IsGone(p) => IsGone(p)'
           /\ assets[p].status # "none" => assets'[p].status # "none"
           /\ Visible(p) => Visible(p)' \/ IsGone(p)'
  BY StatusSteps DEF StatusMoves, IsGone, HasRow, Visible, VisibleStatuses

\* The only ways a request in flight moves.
RequestMoves(h) ==
    LET now == jobs[h]
        next == jobs'[h]
    IN  \/ next = now
        \/ next.op \in {"idle", "upload"}
        \/ /\ next.op = "complete"
           /\ \/ now.op = "complete" /\ next.photo = now.photo
              \/ <<next.photo, "original">> \in bucket /\ UNCHANGED bucket
        \/ /\ next.op = "cover"
           /\ Visible(next.photo) /\ UNCHANGED assets
        \/ /\ next.op = "remove" /\ next.step # "purge"
           /\ \/ now.op = "remove" /\ next.photo = now.photo
              \/ Visible(next.photo) /\ UNCHANGED assets
        \/ /\ next.op = "remove" /\ next.step = "purge"
           /\ now.op = "remove" /\ next.photo = now.photo
           /\ assets'[next.photo].status = "gone"

LEMMA RequestSteps ==
    ASSUME TypeOK, [Next]_vars, NEW h \in Handlers
    PROVE  RequestMoves(h)
<1>1. ASSUME NEW g \in Handlers, Finish(g) PROVE RequestMoves(h)
  BY <1>1 DEF Finish, RequestMoves, Idle, TypeOK
<1>2. ASSUME NEW g \in Handlers, NEW step, Advance(g, step), jobs[g].op = "complete"
      PROVE  RequestMoves(h)
  <2>1. jobs[g] \in CompleteJob
    BY <1>2, RequestTypes
  <2>2. h # g => jobs'[h] = jobs[h]
    BY <1>2 DEF Advance, TypeOK
  <2>3. jobs'[g] = [jobs[g] EXCEPT !.step = step]
    BY <1>2 DEF Advance, TypeOK
  <2>4. jobs'[g].op = "complete" /\ jobs'[g].photo = jobs[g].photo
    BY <2>1, <2>3, <1>2 DEF CompleteJob
  <2> QED BY <1>2, <2>2, <2>4 DEF RequestMoves
<1>3. ASSUME NEW g \in Handlers, NEW step, Advance(g, step), jobs[g].op = "remove",
             step # "purge"
      PROVE  RequestMoves(h)
  <2>1. jobs[g] \in RemoveJob
    BY <1>3, RequestTypes
  <2>2. h # g => jobs'[h] = jobs[h]
    BY <1>3 DEF Advance, TypeOK
  <2>3. jobs'[g] = [jobs[g] EXCEPT !.step = step]
    BY <1>3 DEF Advance, TypeOK
  <2>4. /\ jobs'[g].op = "remove" /\ jobs'[g].photo = jobs[g].photo
        /\ jobs'[g].step = step
    BY <2>1, <2>3, <1>3 DEF RemoveJob
  <2> QED BY <1>3, <2>2, <2>4 DEF RequestMoves
<1>4. ASSUME UNCHANGED jobs PROVE RequestMoves(h)
  BY <1>4 DEF RequestMoves
<1>5. ASSUME NEW g \in Handlers, RequestBegins(g) PROVE RequestMoves(h)
  <2>1. CASE UploadBegin(g)
    BY <2>1 DEF UploadBegin, Begin, RequestMoves, TypeOK
  <2>2. CASE CompleteBegin(g)
    <3>1. PICK p \in Photos :
             /\ <<p, "original">> \in bucket
             /\ jobs' = [jobs EXCEPT ![g] = [op |-> "complete", photo |-> p,
                                             step |-> "count"]]
      BY <2>2 DEF CompleteBegin, Begin
    <3> QED BY <2>2, <3>1 DEF CompleteBegin, RequestMoves, TypeOK
  <2>3. CASE CoverBegin(g)
    BY <2>3 DEF CoverBegin, Begin, RequestMoves, TypeOK
  <2>4. CASE RemoveBegin(g)
    BY <2>4 DEF RemoveBegin, Begin, RequestMoves, TypeOK
  <2> QED BY <1>5, <2>1, <2>2, <2>3, <2>4 DEF RequestBegins
<1>6. ASSUME NEW g \in Handlers, RequestStep(g) PROVE RequestMoves(h)
  <2>1. CASE UploadCreate(g) \/ CompleteEnqueue(g) \/ CoverWrite(g) \/ RemovePromote(g)
    BY <2>1, <1>1 DEF UploadCreate, CompleteEnqueue, CoverWrite, RemovePromote
  <2>2. CASE CompleteCount(g) \/ CompleteMark(g)
    BY <2>2, <1>1, <1>2 DEF CompleteCount, CompleteMark, At
  <2>3. CASE RemoveDelete(g)
    <3>1. CASE HasRow(jobs[g].photo)
      <4>1. jobs[g].op = "remove" /\ jobs[g].photo \in Photos
        BY <2>3, RequestTypes DEF RemoveDelete, At, RemoveJob
      <4>2. assets' = [assets EXCEPT ![jobs[g].photo] = Gone] /\ Advance(g, "purge")
        BY <2>3, <3>1 DEF RemoveDelete
      <4>3. h # g => jobs'[h] = jobs[h]
        BY <4>2 DEF Advance, TypeOK
      <4>4. jobs'[g] = [jobs[g] EXCEPT !.step = "purge"]
        BY <4>2 DEF Advance, TypeOK
      <4>5. /\ jobs'[g].op = "remove" /\ jobs'[g].photo = jobs[g].photo
            /\ jobs'[g].step = "purge"
        BY <4>1, <4>4, RequestTypes DEF RemoveJob
      <4>6. assets'[jobs'[g].photo].status = "gone"
        BY <4>1, <4>2, <4>5 DEF Gone, TypeOK
      <4> QED BY <4>1, <4>3, <4>5, <4>6 DEF RequestMoves
    <3>2. CASE ~HasRow(jobs[g].photo)
      BY <2>3, <3>2, <1>1 DEF RemoveDelete
    <3> QED BY <3>1, <3>2
  <2>4. CASE RemovePurge(g)
    BY <2>4, <1>1, <1>3 DEF RemovePurge, At
  <2>5. CASE RemoveNext(g)
    <3>1. CASE Finish(g)
      BY <3>1, <1>1
    <3>2. ASSUME NEW p \in Photos, Visible(p),
                 jobs' = [jobs EXCEPT ![g].photo = p, ![g].step = "promote"]
          PROVE  RequestMoves(h)
      <4>1. jobs[g] \in RemoveJob /\ jobs[g].op = "remove"
        BY <2>5, RequestTypes DEF RemoveNext, At
      <4>2. h # g => jobs'[h] = jobs[h]
        BY <3>2 DEF TypeOK
      <4>3. jobs'[g] = [jobs[g] EXCEPT !.photo = p, !.step = "promote"]
        BY <3>2 DEF TypeOK
      <4>4. /\ jobs'[g].op = "remove" /\ jobs'[g].photo = p
            /\ jobs'[g].step = "promote"
        BY <4>1, <4>3 DEF RemoveJob
      <4> QED BY <2>5, <3>2, <4>2, <4>4 DEF RemoveNext, RequestMoves
    <3> QED BY <2>5, <3>1, <3>2 DEF RemoveNext
  <2> QED BY <1>6, <2>1, <2>2, <2>3, <2>4, <2>5 DEF RequestStep
<1>7. ASSUME NEW g \in Handlers, RequestFails(g) PROVE RequestMoves(h)
  BY <1>7, <1>1 DEF RequestFails
<1>8. ASSUME NEW q \in Processes, QueueStep(q) \/ StorageFails(q) \/ ProcessDies(q)
      PROVE  UNCHANGED jobs
  BY <1>8 DEF QueueStep, Take, DeriveRead, DeriveStore, DeriveFinish, PurgeObjects,
              SweepFind, SweepRows, SweepObjects, StorageFails, ProcessDies
<1>9. ASSUME NEW p \in Photos, BrowserPut(p) \/ Age(p) \/ OnFailed(p) \/ ListenerDies(p)
      PROVE  UNCHANGED jobs
  BY <1>9 DEF BrowserPut, Age, OnFailed, ListenerDies
<1>10. CASE RoomRemoved \/ UNCHANGED vars
  BY <1>10, <1>4 DEF RoomRemoved, vars
<1> QED BY <1>4, <1>5, <1>6, <1>7, <1>8, <1>9, <1>10 DEF Next

\* The only ways a worker moves.
WorkerMoves(q) ==
    LET now == running[q]
        next == running'[q]
    IN  \/ next = now
        \/ next.op = "idle"
        \/ /\ next.op = "purge" /\ next.task.kind = "purge"
           /\ next.task \in Tasks /\ queue[next.task] > 0
        \/ /\ next.op = "derivatives" /\ next.task.kind = "derivatives"
           /\ next.step = 0 /\ HasRow(next.task.photo) /\ UNCHANGED assets
        \/ /\ next.op = "derivatives" /\ now.op = "derivatives"
           /\ next.task = now.task /\ next.step = 1
        \/ /\ next.op = "derivatives" /\ now.op = "derivatives"
           /\ next.task = now.task /\ next.step = now.step + 1
           /\ <<now.task.photo, Variants[now.step]>> \in bucket'
        \/ /\ next.op = "sweep" /\ next.step = "rows"
           /\ \A p \in next.photos : Pending(p)
           /\ UNCHANGED assets
        \/ /\ next.op = "sweep" /\ now.op = "sweep"
           /\ next.photos = now.photos
           /\ \A p \in next.photos : HasRow(p) => IsGone(p)'

LEMMA WorkerSteps ==
    ASSUME TypeOK, [Next]_vars, NEW q \in Processes
    PROVE  WorkerMoves(q)
<1>1. ASSUME NEW r \in Processes, Rest(r) PROVE WorkerMoves(q)
  BY <1>1 DEF Rest, WorkerMoves, TypeOK, Idle
<1>2. ASSUME UNCHANGED running PROVE WorkerMoves(q)
  BY <1>2 DEF WorkerMoves
<1>3. ASSUME NEW r \in Processes, AttemptFails(r) PROVE WorkerMoves(q)
  BY <1>3, <1>1 DEF AttemptFails
<1>4. ASSUME NEW r \in Processes, QueueStep(r) PROVE WorkerMoves(q)
  <2>1. CASE Take(r)
    <3>1. PICK t \in Tasks :
            /\ queue[t] > 0
            /\ running' =
                  [running EXCEPT ![r] =
                      CASE t.kind = "purge" -> [op |-> "purge", task |-> t]
                        [] t.kind = "derivatives" /\ HasRow(t.photo) ->
                              [op |-> "derivatives", task |-> t, step |-> 0]
                        [] OTHER -> Idle]
      BY <2>1 DEF Take
    <3>2. q # r => running'[q] = running[q]
      BY <3>1 DEF TypeOK
    <3>3. CASE t.kind = "purge"
      <4>1. running'[r] = [op |-> "purge", task |-> t]
        BY <3>1, <3>3 DEF TypeOK
      <4> QED BY <3>1, <3>2, <3>3, <4>1 DEF WorkerMoves
    <3>4. CASE t.kind = "derivatives" /\ HasRow(t.photo)
      <4>1. running'[r] = [op |-> "derivatives", task |-> t, step |-> 0]
        BY <3>1, <3>4 DEF TypeOK
      <4>2. UNCHANGED assets
        BY <2>1 DEF Take
      <4> QED BY <3>2, <3>4, <4>1, <4>2 DEF WorkerMoves
    <3>5. CASE t.kind # "purge" /\ ~(t.kind = "derivatives" /\ HasRow(t.photo))
      <4>1. running'[r] = Idle
        BY <3>1, <3>5 DEF TypeOK
      <4> QED BY <3>2, <4>1 DEF WorkerMoves, Idle
    <3> QED BY <3>3, <3>4, <3>5
  <2>2. CASE DeriveRead(r)
    <3>1. CASE running' = [running EXCEPT ![r].step = 1]
      <4>1. running[r] \in DeriveJob
        BY <2>2, WorkerTypes DEF DeriveRead
      <4>2. q # r => running'[q] = running[q]
        BY <3>1 DEF TypeOK
      <4>3. running'[r] = [running[r] EXCEPT !.step = 1]
        BY <3>1 DEF TypeOK
      <4>4. /\ running'[r].op = "derivatives" /\ running[r].op = "derivatives"
            /\ running'[r].task = running[r].task /\ running'[r].step = 1
        BY <4>1, <4>3 DEF DeriveJob
      <4> QED BY <4>2, <4>4 DEF WorkerMoves
    <3> QED BY <2>2, <3>1, <1>3 DEF DeriveRead
  <2>3. CASE DeriveStore(r)
    <3>1. running[r] \in DeriveJob
      BY <2>3, WorkerTypes DEF DeriveStore
    <3>2. q # r => running'[q] = running[q]
      BY <2>3 DEF DeriveStore, TypeOK
    <3>3. running'[r] = [running[r] EXCEPT !.step = @ + 1]
      BY <2>3 DEF DeriveStore, TypeOK
    <3>4. /\ running'[r].op = "derivatives" /\ running[r].op = "derivatives"
          /\ running'[r].task = running[r].task
          /\ running'[r].step = running[r].step + 1
      BY <3>1, <3>3 DEF DeriveJob
    <3>5. <<running[r].task.photo, Variants[running[r].step]>> \in bucket'
      BY <2>3 DEF DeriveStore
    <3> HIDE DEF Variants
    <3> QED BY <3>2, <3>4, <3>5 DEF WorkerMoves
  <2>4. CASE DeriveFinish(r)
    BY <2>4, <1>1, <1>3 DEF DeriveFinish
  <2>5. CASE PurgeObjects(r) \/ SweepObjects(r)
    BY <2>5, <1>1 DEF PurgeObjects, SweepObjects
  <2>6. CASE SweepFind(r)
    BY <2>6 DEF SweepFind, Abandoned, WorkerMoves, TypeOK
  <2>7. CASE SweepRows(r)
    <3>1. running[r] \in SweepJob
      BY <2>7, WorkerTypes DEF SweepRows
    <3>2. q # r => running'[q] = running[q]
      BY <2>7 DEF SweepRows, TypeOK
    <3>3. running'[r] = [running[r] EXCEPT !.step = "objects"]
      BY <2>7 DEF SweepRows, TypeOK
    <3>4. /\ running'[r].op = "sweep" /\ running[r].op = "sweep"
          /\ running'[r].photos = running[r].photos
      BY <3>1, <3>3 DEF SweepJob
    <3>5. \A p \in running[r].photos : HasRow(p) => assets'[p].status = "gone"
      BY <2>7, <3>1 DEF SweepRows, Swept, Gone, SweepJob
    <3> QED BY <3>2, <3>4, <3>5 DEF WorkerMoves, IsGone
  <2> QED BY <1>4, <2>1, <2>2, <2>3, <2>4, <2>5, <2>6, <2>7 DEF QueueStep
<1>5. ASSUME NEW r \in Processes, StorageFails(r) \/ ProcessDies(r)
      PROVE  WorkerMoves(q)
  BY <1>5, <1>1, <1>3 DEF StorageFails, ProcessDies
<1>6. ASSUME NEW h \in Handlers,
             RequestBegins(h) \/ RequestStep(h) \/ RequestFails(h)
      PROVE  UNCHANGED running
  BY <1>6 DEF RequestBegins, UploadBegin, CompleteBegin, CoverBegin, RemoveBegin,
              RequestStep, UploadCreate, CompleteCount, CompleteMark,
              CompleteEnqueue, CoverWrite, RemoveDelete, RemovePurge, RemoveNext,
              RemovePromote, RequestFails
<1>7. ASSUME NEW p \in Photos, BrowserPut(p) \/ Age(p) \/ OnFailed(p) \/ ListenerDies(p)
      PROVE  UNCHANGED running
  BY <1>7 DEF BrowserPut, Age, OnFailed, ListenerDies
<1>8. CASE RoomRemoved \/ UNCHANGED vars
  BY <1>8, <1>2 DEF RoomRemoved, vars
<1> QED BY <1>2, <1>4, <1>5, <1>6, <1>7, <1>8 DEF Next

\* A purge in the queue was there before, or is the one a removal is adding, or
\* the one a worker is putting back.
LEMMA PurgeSteps ==
    ASSUME TypeOK, WorkersFollowKinds, [Next]_vars,
           NEW t \in Tasks, t.kind = "purge", queue'[t] > 0
    PROVE  PurgeQueued(t.photo) \/ AboutToPurge(t.photo) \/ PurgeRunning(t.photo)
<1>1. CASE UNCHANGED queue
  BY <1>1 DEF PurgeQueued
<1>2. CASE queue[t] > 0
  BY <1>2 DEF PurgeQueued
<1>3. ASSUME NEW q \in Processes, queue' # queue,
             AttemptFails(q) \/ Put(running[q].task, 1),
             running[q].op \in {"derivatives", "purge"}
      PROVE  queue[t] > 0 \/ PurgeRunning(t.photo)
  <2> DEFINE done == running[q].task
             again == [done EXCEPT !.made = @ + 1]
  <2>1. done \in Tasks /\ done.kind = running[q].op
    BY <1>3, WorkerTypes DEF WorkersFollowKinds, Working, DeriveJob, PurgeJob
  <2>2. again.kind = done.kind /\ again.photo = done.photo
    BY <2>1 DEF Tasks
  <2>3. queue' = [queue EXCEPT ![again] = @ + 1] \/ queue' = [queue EXCEPT ![done] = @ + 1]
    BY <1>3 DEF AttemptFails, Put
  <2> HIDE DEF again, done
  <2>4. queue'[t] = queue[t] \/ t = again \/ t = done
    BY <2>3 DEF TypeOK
  <2>5. CASE t = again \/ t = done
    <3>1. running[q].op = "purge" /\ done.photo = t.photo
      BY <2>1, <2>2, <2>5, <1>3
    <3> QED BY <3>1 DEF PurgeRunning, Working, done
  <2> QED BY <2>4, <2>5
<1>4. ASSUME NEW h \in Handlers, RequestStep(h)
      PROVE  UNCHANGED queue \/ queue[t] > 0 \/ AboutToPurge(t.photo)
  <2>1. CASE CompleteEnqueue(h)
    <3>1. Task("derivatives", jobs[h].photo) # t
      BY DEF Task
    <3> QED BY <2>1, <3>1 DEF CompleteEnqueue, Enqueue, TypeOK
  <2>2. CASE RemovePurge(h)
    <3>1. CASE t = Task("purge", jobs[h].photo)
      <4>1. t.photo = jobs[h].photo
        BY <3>1 DEF Task
      <4> QED BY <2>2, <4>1 DEF RemovePurge, AboutToPurge
    <3>2. CASE t # Task("purge", jobs[h].photo)
      BY <2>2, <3>2 DEF RemovePurge, Enqueue, TypeOK
    <3> QED BY <3>1, <3>2
  <2> QED
    BY <1>4, <2>1, <2>2 DEF RequestStep, UploadCreate, CompleteCount, CompleteMark,
       CoverWrite, RemoveDelete, RemoveNext, RemovePromote
<1>5. ASSUME NEW q \in Processes, QueueStep(q)
      PROVE  UNCHANGED queue \/ queue[t] > 0 \/ PurgeRunning(t.photo)
  <2>1. CASE Take(q)
    BY <2>1 DEF Take, Put, TypeOK
  <2>2. CASE DeriveRead(q)
    BY <2>2, <1>3 DEF DeriveRead, Working
  <2>3. CASE DeriveFinish(q)
    BY <2>3, <1>3 DEF DeriveFinish, Working
  <2> QED
    BY <1>5, <2>1, <2>2, <2>3 DEF QueueStep, DeriveStore, PurgeObjects, SweepFind,
       SweepRows, SweepObjects
<1>6. ASSUME NEW q \in Processes, StorageFails(q)
      PROVE  UNCHANGED queue \/ queue[t] > 0 \/ PurgeRunning(t.photo)
  BY <1>6, <1>3 DEF StorageFails, Working
<1>7. ASSUME NEW q \in Processes, ProcessDies(q)
      PROVE  UNCHANGED queue \/ queue[t] > 0 \/ PurgeRunning(t.photo)
  <2>1. ~Working(q, "sweep") => running[q].op \in {"derivatives", "purge"}
    BY <1>7, WorkerTypes DEF ProcessDies, QueueJobs, DeriveJob, PurgeJob, SweepJob, Working
  <2> QED BY <1>7, <2>1, <1>3 DEF ProcessDies
<1>8. ASSUME NEW h \in Handlers, RequestBegins(h) \/ RequestFails(h)
      PROVE  UNCHANGED queue
  BY <1>8 DEF RequestBegins, UploadBegin, CompleteBegin, CoverBegin, RemoveBegin,
              RequestFails
<1>9. ASSUME NEW p \in Photos, BrowserPut(p) \/ Age(p) \/ OnFailed(p) \/ ListenerDies(p)
      PROVE  UNCHANGED queue
  BY <1>9 DEF BrowserPut, Age, OnFailed, ListenerDies
<1>10. CASE RoomRemoved \/ UNCHANGED vars
  BY <1>10, <1>1 DEF RoomRemoved, vars
<1> QED BY <1>1, <1>2, <1>4, <1>5, <1>6, <1>7, <1>8, <1>9, <1>10 DEF Next

\* An object leaves the bucket only at the hands of a purge or a sweep of its
\* photo.
LEMMA ObjectsStay ==
    ASSUME TypeOK, [Next]_vars, NEW p \in Photos, NEW object,
           <<p, object>> \in bucket
    PROVE  <<p, object>> \in bucket' \/ PurgeRunning(p) \/ BeingSwept(p)
<1>1. ASSUME NEW h \in Handlers,
             RequestBegins(h) \/ RequestStep(h) \/ RequestFails(h)
      PROVE  UNCHANGED bucket
  BY <1>1 DEF RequestBegins, UploadBegin, CompleteBegin, CoverBegin, RemoveBegin,
              RequestStep, UploadCreate, CompleteCount, CompleteMark,
              CompleteEnqueue, CoverWrite, RemoveDelete, RemovePurge, RemoveNext,
              RemovePromote, RequestFails
<1>2. ASSUME NEW r \in Photos, BrowserPut(r) \/ Age(r) \/ OnFailed(r) \/ ListenerDies(r)
      PROVE  bucket \subseteq bucket'
  BY <1>2 DEF BrowserPut, Age, OnFailed, ListenerDies
<1>3. ASSUME NEW q \in Processes, QueueStep(q)
      PROVE  <<p, object>> \in bucket' \/ PurgeRunning(p) \/ BeingSwept(p)
  <2>1. CASE PurgeObjects(q)
    BY <2>1 DEF PurgeObjects, AllKeys, PurgeRunning
  <2>2. CASE SweepObjects(q)
    BY <2>2 DEF SweepObjects, AllKeys, BeingSwept
  <2>3. CASE DeriveStore(q)
    BY <2>3 DEF DeriveStore
  <2> QED
    BY <1>3, <2>1, <2>2, <2>3 DEF QueueStep, Take, DeriveRead, DeriveFinish,
       SweepFind, SweepRows
<1>4. ASSUME NEW q \in Processes, StorageFails(q) \/ ProcessDies(q)
      PROVE  UNCHANGED bucket
  BY <1>4 DEF StorageFails, ProcessDies
<1>5. CASE RoomRemoved \/ UNCHANGED vars
  BY <1>5 DEF RoomRemoved, vars
<1> QED BY <1>1, <1>2, <1>3, <1>4, <1>5 DEF Next

-----------------------------------------------------------------------------
(* The invariant is inductive: one lemma for each part that needs one.     *)

LEMMA DoomStep ==
    ASSUME TypeOK, MediaInv, [Next]_vars
    PROVE  OnlyTheGoneAreDoomed'
<1> SUFFICES ASSUME NEW p \in Photos, Doomed(p)' PROVE IsGone(p)'
  BY DEF OnlyTheGoneAreDoomed
<1>1. Doomed(p) => IsGone(p)'
  BY RowsAreFinal DEF MediaInv, OnlyTheGoneAreDoomed
<1>2. ASSUME AboutToPurge(p)' PROVE AboutToPurge(p) \/ IsGone(p)'
  <2>1. PICK h \in Handlers : At(h, "remove", "purge")' /\ jobs'[h].photo = p
    BY <1>2 DEF AboutToPurge
  <2> QED BY <2>1, RequestSteps DEF RequestMoves, At, AboutToPurge, IsGone
<1>3. ASSUME PurgeQueued(p)' PROVE Doomed(p)
  BY <1>3, PurgeSteps DEF PurgeQueued, MediaInv, Doomed
<1>4. ASSUME PurgeRunning(p)' PROVE PurgeRunning(p) \/ PurgeQueued(p)
  <2>1. PICK q \in Processes : running'[q].op = "purge" /\ running'[q].task.photo = p
    BY <1>4 DEF PurgeRunning, Working
  <2> QED BY <2>1, WorkerSteps DEF WorkerMoves, PurgeRunning, PurgeQueued, Working
<1>5. ASSUME BeingSwept(p)' PROVE BeingSwept(p) \/ IsGone(p)'
  <2>1. PICK q \in Processes :
           /\ running'[q].op = "sweep" /\ running'[q].step = "objects"
           /\ p \in running'[q].photos
    BY <1>5 DEF BeingSwept, Working
  <2>2. CASE running'[q] = running[q]
    BY <2>1, <2>2 DEF BeingSwept, Working
  <2>3. CASE /\ running[q].op = "sweep" /\ running'[q].photos = running[q].photos
             /\ HasRow(p) => IsGone(p)'
    <3>1. assets[p].status # "none"
      BY <2>1, <2>3 DEF MediaInv, ListsNameRealRows, Working
    <3>2. HasRow(p) \/ IsGone(p)
      BY <3>1 DEF HasRow, IsGone
    <3> QED BY <2>3, <3>2, RowsAreFinal
  <2> QED BY <2>1, <2>2, <2>3, WorkerSteps DEF WorkerMoves
<1> QED BY <1>1, <1>2, <1>3, <1>4, <1>5 DEF Doomed

LEMMA WorkersStep ==
    ASSUME TypeOK, MediaInv, [Next]_vars
    PROVE  WorkersFollowKinds' /\ ListsNameRealRows'
<1>1. ASSUME NEW q \in Processes, running'[q].op \in {"derivatives", "purge"}
      PROVE  running'[q].task.kind = running'[q].op
  BY <1>1, WorkerSteps DEF WorkerMoves, MediaInv, WorkersFollowKinds
<1>2. ASSUME NEW q \in Processes, running'[q].op = "sweep", NEW p \in running'[q].photos
      PROVE  assets'[p].status # "none"
  <2>1. p \in Photos
    <3>1. TypeOK'
      BY Typed
    <3> QED BY <1>2, <3>1 DEF TypeOK, QueueJobs, Idle, DeriveJob, PurgeJob, SweepJob
  <2>2. assets[p].status # "none"
    BY <1>2, WorkerSteps DEF WorkerMoves, MediaInv, ListsNameRealRows, Working,
       Pending
  <2> QED BY <2>1, <2>2, RowsAreFinal
<1> QED BY <1>1, <1>2 DEF WorkersFollowKinds, ListsNameRealRows, Working

\* What the bucket holds for a photo it holds until the photo is gone.
LEMMA BytesStay ==
    ASSUME TypeOK, MediaInv, [Next]_vars, NEW p \in Photos, NEW object,
           <<p, object>> \in bucket
    PROVE  <<p, object>> \in bucket' \/ IsGone(p)'
<1>1. PurgeRunning(p) \/ BeingSwept(p) => IsGone(p)
  BY DEF MediaInv, OnlyTheGoneAreDoomed, Doomed
<1> QED BY <1>1, ObjectsStay, RowsAreFinal

LEMMA ConfirmedStep ==
    ASSUME TypeOK, MediaInv, [Next]_vars
    PROVE  ConfirmedHaveBytes'
<1> SUFFICES ASSUME NEW h \in Handlers, jobs'[h].op = "complete"
             PROVE  \/ assets'[jobs'[h].photo].status = "gone"
                    \/ <<jobs'[h].photo, "original">> \in bucket'
  BY DEF ConfirmedHaveBytes, IsGone
<1>1. jobs'[h].photo \in Photos
  BY Typed DEF TypeOK, RequestJobs, Idle, UploadJob, CompleteJob, CoverJob, RemoveJob
<1>2. CASE jobs[h].op = "complete" /\ jobs'[h].photo = jobs[h].photo
  <2>1. IsGone(jobs[h].photo) \/ <<jobs[h].photo, "original">> \in bucket
    BY <1>2 DEF MediaInv, ConfirmedHaveBytes
  <2>2. \A p \in Photos : IsGone(p) => IsGone(p)'
    BY RowsAreFinal
  <2>3. \A p \in Photos : <<p, "original">> \in bucket
                             => <<p, "original">> \in bucket' \/ IsGone(p)'
    BY BytesStay
  <2> QED BY <1>1, <1>2, <2>1, <2>2, <2>3 DEF IsGone
<1>3. CASE <<jobs'[h].photo, "original">> \in bucket /\ UNCHANGED bucket
  BY <1>3
<1> QED BY <1>2, <1>3, RequestSteps DEF RequestMoves

LEMMA StoredStep ==
    ASSUME TypeOK, MediaInv, [Next]_vars
    PROVE  StoredSoFar'
<1> SUFFICES ASSUME NEW q \in Processes, running'[q].op = "derivatives",
                    NEW n \in DOMAIN Variants, n < running'[q].step
             PROVE  \/ assets'[running'[q].task.photo].status = "gone"
                    \/ <<running'[q].task.photo, Variants[n]>> \in bucket'
  BY DEF StoredSoFar, IsGone, Working
<1> DEFINE p == running'[q].task.photo
<1>1. p \in Photos
  BY Typed DEF TypeOK, QueueJobs, Idle, DeriveJob, PurgeJob, SweepJob, Tasks
<1>2. n \in {1, 2, 3}
  BY DEF Variants
<1>3. running'[q].step # 0 /\ running'[q].step # 1
  BY <1>2
<1>4. /\ running[q].op = "derivatives" /\ running'[q].task = running[q].task
      /\ \/ running'[q].step = running[q].step
         \/ /\ running'[q].step = running[q].step + 1
            /\ <<running[q].task.photo, Variants[running[q].step]>> \in bucket'
  <2> HIDE DEF Variants
  <2> QED BY <1>3, WorkerSteps DEF WorkerMoves
<1>5. running[q].step \in Int
  BY <1>4, WorkerTypes DEF Working, DeriveJob, LastStep, Variants
<1>6. n < running[q].step \/ <<p, Variants[n]>> \in bucket'
  BY <1>2, <1>4, <1>5
<1>7. ASSUME n < running[q].step PROVE IsGone(p) \/ <<p, Variants[n]>> \in bucket
  BY <1>4, <1>7 DEF MediaInv, StoredSoFar, Working
<1>8. \A x \in Photos : IsGone(x) => IsGone(x)'
  BY RowsAreFinal
<1>9. \A x \in Photos : <<x, Variants[n]>> \in bucket
                           => <<x, Variants[n]>> \in bucket' \/ IsGone(x)'
  BY BytesStay
<1> HIDE DEF p
<1>10. assets'[p].status = "gone" \/ <<p, Variants[n]>> \in bucket'
  BY <1>1, <1>6, <1>7, <1>8, <1>9 DEF IsGone
<1> QED BY <1>10 DEF p

LEMMA InHandStep ==
    ASSUME TypeOK, MediaInv, [Next]_vars
    PROVE  CoversInHand'
<1> SUFFICES ASSUME NEW h \in Handlers, jobs'[h].op \in {"cover", "remove"}
             PROVE  LET s == assets'[jobs'[h].photo].status
                    IN  s \in VisibleStatuses \/ s = "gone"
  BY DEF CoversInHand, IsGone, Visible
<1>1. jobs'[h].photo \in Photos
  BY Typed DEF TypeOK, RequestJobs, Idle, UploadJob, CompleteJob, CoverJob, RemoveJob
<1>2. \/ Visible(jobs'[h].photo) /\ UNCHANGED assets
      \/ assets'[jobs'[h].photo].status = "gone"
      \/ jobs[h].op \in {"cover", "remove"} /\ jobs'[h].photo = jobs[h].photo
  BY RequestSteps DEF RequestMoves
<1>3. CASE jobs[h].op \in {"cover", "remove"} /\ jobs'[h].photo = jobs[h].photo
  <2>1. Visible(jobs[h].photo) \/ IsGone(jobs[h].photo)
    BY <1>3 DEF MediaInv, CoversInHand
  <2>2. \A p \in Photos : Visible(p) \/ IsGone(p) => Visible(p)' \/ IsGone(p)'
    BY RowsAreFinal
  <2> QED BY <1>1, <1>3, <2>1, <2>2 DEF Visible, IsGone
<1> QED BY <1>2, <1>3 DEF Visible

\* toDto's URLs go on naming objects that are there.
LEMMA ServedStep ==
    ASSUME TypeOK, MediaInv, [Next]_vars
    PROVE  PhotosAreServed'
<1> SUFFICES ASSUME NEW p \in Photos, Visible(p)'
             PROVE  IF assets'[p].status = "READY"
                    THEN {p} \X (Objects \ {"original"}) \subseteq bucket'
                    ELSE <<p, "original">> \in bucket'
  BY DEF PhotosAreServed
<1>1. ~IsGone(p)'
  BY DEF Visible, VisibleStatuses, IsGone
<1>2. \A object : <<p, object>> \in bucket => <<p, object>> \in bucket'
  BY <1>1, BytesStay
<1>3. ASSUME assets'[p].status = "READY", assets[p].status # "READY"
      PROVE  \A n \in DOMAIN Variants : <<p, Variants[n]>> \in bucket
  <2>1. PICK q \in Processes : /\ Working(q, "derivatives")
                               /\ running[q].step = LastStep
                               /\ running[q].task.photo = p
    BY <1>3, StatusSteps DEF StatusMoves
  <2>2. ~IsGone(p)
    BY <1>1, RowsAreFinal
  <2>3. \A n \in DOMAIN Variants : n < LastStep
    BY DEF Variants, LastStep
  <2> HIDE DEF Variants
  <2> QED BY <2>1, <2>2, <2>3 DEF MediaInv, StoredSoFar
<1>4. ASSUME \A n \in DOMAIN Variants : <<p, Variants[n]>> \in bucket
      PROVE  {p} \X (Objects \ {"original"}) \subseteq bucket
  <2>1. /\ 1 \in DOMAIN Variants /\ 2 \in DOMAIN Variants /\ 3 \in DOMAIN Variants
        /\ Variants[1] = "thumb" /\ Variants[2] = "card" /\ Variants[3] = "full"
    BY DEF Variants
  <2>2. <<p, "thumb">> \in bucket /\ <<p, "card">> \in bucket /\ <<p, "full">> \in bucket
    BY <1>4, <2>1
  <2> QED BY <2>2 DEF Objects
<1>5. CASE assets'[p].status = "READY"
  <2>1. {p} \X (Objects \ {"original"}) \subseteq bucket
    <3>1. CASE assets[p].status = "READY"
      BY <3>1 DEF MediaInv, PhotosAreServed, Visible, VisibleStatuses
    <3>2. CASE assets[p].status # "READY"
      BY <1>3, <1>4, <1>5, <3>2
    <3> QED BY <3>1, <3>2
  <2> QED BY <1>2, <1>5, <2>1
<1>6. CASE assets'[p].status # "READY"
  <2>1. <<p, "original">> \in bucket
    <3>1. CASE Visible(p) /\ assets[p].status # "READY"
      BY <3>1 DEF MediaInv, PhotosAreServed
    <3>2. CASE ~Visible(p) \/ assets[p].status = "READY"
      <4>1. PICK h \in Handlers : jobs[h].op = "complete" /\ jobs[h].photo = p
        BY <1>6, <3>2, StatusSteps DEF StatusMoves, Visible, VisibleStatuses
      <4>2. ~IsGone(p)
        BY <1>1, RowsAreFinal
      <4> QED BY <4>1, <4>2 DEF MediaInv, ConfirmedHaveBytes
    <3> QED BY <3>1, <3>2
  <2> QED BY <1>2, <1>6, <2>1
<1> QED BY <1>5, <1>6

\* A step adds no cover, or leaves one visible photo as the only cover.
CoverMoves ==
    \/ \A p \in Photos : Cover(p)' => Cover(p) /\ ~IsGone(p)'
    \/ \E c \in Photos : Visible(c)' /\ \A p \in Photos : Cover(p)' => p = c

LEMMA CoverSteps ==
    ASSUME TypeOK, MediaInv, [Next]_vars
    PROVE  CoverMoves
<1>0. \A p \in Photos : Cover(p) => Visible(p) /\ ~IsGone(p)
  BY DEF MediaInv, OneVisibleCover, Visible, VisibleStatuses, IsGone
<1>1. ASSUME UNCHANGED assets PROVE CoverMoves
  BY <1>0, <1>1 DEF CoverMoves, Cover, IsGone
<1>2. ASSUME NEW h \in Handlers, RequestStep(h) PROVE CoverMoves
  <2>1. CASE UploadCreate(h)
    <3>1. CASE UNCHANGED assets
      BY <3>1, <1>1
    <3>2. ASSUME NEW r \in Photos, assets[r].status = "none",
                 assets' = [assets EXCEPT ![r].status = "PENDING"]
          PROVE  CoverMoves
      BY <1>0, <3>2 DEF CoverMoves, Cover, IsGone, TypeOK, AssetRow
    <3> QED BY <2>1, <3>1, <3>2 DEF UploadCreate
  <2>2. CASE CompleteMark(h)
    <3> DEFINE c == jobs[h].photo
               asCover == jobs[h].step = "cover"
    <3>1. c \in Photos
      BY <2>2, RequestTypes DEF CompleteMark, At, CompleteJob
    <3>2. CASE UNCHANGED assets
      BY <3>2, <1>1
    <3>3. ASSUME asCover => CoverIsFree(c),
                 assets' = [assets EXCEPT ![c] =
                               [status |-> "PROCESSING", isCover |-> asCover \/ Cover(c)]]
          PROVE  CoverMoves
      <4>1. /\ assets'[c].status = "PROCESSING"
            /\ assets'[c].isCover <=> (asCover \/ Cover(c))
            /\ \A p \in Photos : p # c => assets'[p] = assets[p]
        BY <3>1, <3>3 DEF TypeOK
      <4>2. CASE asCover
        BY <3>1, <3>3, <4>1, <4>2 DEF CoverMoves, CoverIsFree, Cover, Visible,
                                      VisibleStatuses
      <4>3. CASE ~asCover
        BY <1>0, <4>1, <4>3 DEF CoverMoves, Cover, IsGone
      <4> QED BY <4>2, <4>3
    <3> QED BY <2>2, <3>2, <3>3 DEF CompleteMark
  <2>3. CASE CoverWrite(h)
    <3>1. CASE UNCHANGED assets
      BY <3>1, <1>1
    <3>2. CASE HasRow(jobs[h].photo) /\ assets' = OnlyCover(jobs[h].photo)
      <4>1. jobs[h].photo \in Photos /\ Visible(jobs[h].photo)
        BY <2>3, <3>2, RequestTypes
           DEF CoverWrite, CoverJob, MediaInv, CoversInHand, IsGone, HasRow
      <4>2. \A p \in Photos : /\ assets'[p].status = assets[p].status
                              /\ assets'[p].isCover = (p = jobs[h].photo)
        BY <3>2 DEF OnlyCover, TypeOK, AssetRow
      <4> QED BY <4>1, <4>2 DEF CoverMoves, Cover, Visible
    <3> QED BY <2>3, <3>1, <3>2 DEF CoverWrite
  <2>4. CASE RemoveDelete(h)
    <3>1. \A p \in Photos : assets'[p] = assets[p] \/ assets'[p] = Gone
      BY <2>4 DEF RemoveDelete, TypeOK
    <3> QED BY <1>0, <3>1 DEF CoverMoves, Cover, IsGone, Gone
  <2>5. CASE RemovePromote(h)
    <3> DEFINE c == jobs[h].photo
    <3>1. c \in Photos /\ (Visible(c) \/ IsGone(c))
      BY <2>5, RequestTypes DEF RemovePromote, At, RemoveJob, MediaInv, CoversInHand
    <3>2. CASE UNCHANGED assets
      BY <3>2, <1>1
    <3>3. CASE /\ HasRow(c) /\ CoverIsFree(c)
               /\ assets' = [assets EXCEPT ![c].isCover = TRUE]
      <4>1. /\ assets'[c].status = assets[c].status
            /\ \A p \in Photos : p # c => assets'[p] = assets[p]
        BY <3>1, <3>3 DEF TypeOK, AssetRow
      <4>2. assets'[c].status \in VisibleStatuses
        BY <3>1, <3>3, <4>1 DEF Visible, IsGone, HasRow
      <4> HIDE DEF c
      <4> QED BY <3>1, <3>3, <4>1, <4>2 DEF CoverMoves, CoverIsFree, Cover, Visible
    <3> QED BY <2>5, <3>2, <3>3 DEF RemovePromote
  <2>6. CASE CompleteCount(h) \/ CompleteEnqueue(h) \/ RemovePurge(h) \/ RemoveNext(h)
    BY <2>6, <1>1 DEF CompleteCount, CompleteEnqueue, RemovePurge, RemoveNext
  <2> QED BY <1>2, <2>1, <2>2, <2>3, <2>4, <2>5, <2>6 DEF RequestStep
<1>3. ASSUME NEW q \in Processes, QueueStep(q) PROVE CoverMoves
  <2>1. CASE DeriveFinish(q)
    <3>1. \A p \in Photos : /\ assets'[p].isCover = assets[p].isCover
                            /\ assets'[p].status \in {assets[p].status, "READY"}
      BY <2>1 DEF DeriveFinish, TypeOK, AssetRow
    <3> QED BY <1>0, <3>1 DEF CoverMoves, Cover, IsGone
  <2>2. CASE SweepRows(q)
    <3>1. \A p \in Photos : assets'[p] = assets[p] \/ assets'[p] = Gone
      BY <2>2 DEF SweepRows
    <3> QED BY <1>0, <3>1 DEF CoverMoves, Cover, IsGone, Gone
  <2> QED
    BY <1>1, <1>3, <2>1, <2>2 DEF QueueStep, Take, DeriveRead, DeriveStore,
       PurgeObjects, SweepFind, SweepObjects
<1>4. ASSUME NEW r \in Photos, OnFailed(r) PROVE CoverMoves
  <2>1. \A p \in Photos : /\ assets'[p].isCover = assets[p].isCover
                          /\ assets'[p].status \in {assets[p].status, "FAILED"}
    BY <1>4 DEF OnFailed, TypeOK, AssetRow
  <2> QED BY <1>0, <2>1 DEF CoverMoves, Cover, IsGone
<1>5. CASE RoomRemoved
  <2>1. \A p \in Photos : assets'[p] = assets[p] \/ assets'[p] = Gone
    BY <1>5 DEF RoomRemoved
  <2> QED BY <1>0, <2>1 DEF CoverMoves, Cover, IsGone, Gone
<1>6. ASSUME NEW h \in Handlers, RequestBegins(h) \/ RequestFails(h)
      PROVE  UNCHANGED assets
  BY <1>6 DEF RequestBegins, UploadBegin, CompleteBegin, CoverBegin, RemoveBegin,
              RequestFails
<1>7. ASSUME NEW p \in Photos, BrowserPut(p) \/ Age(p) \/ ListenerDies(p)
      PROVE  UNCHANGED assets
  BY <1>7 DEF BrowserPut, Age, ListenerDies
<1>8. ASSUME NEW q \in Processes, StorageFails(q) \/ ProcessDies(q)
      PROVE  UNCHANGED assets
  BY <1>8 DEF StorageFails, ProcessDies
<1>9. CASE UNCHANGED vars
  BY <1>9, <1>1 DEF vars
<1> QED BY <1>1, <1>2, <1>3, <1>4, <1>5, <1>6, <1>7, <1>8, <1>9 DEF Next

LEMMA CoverStep ==
    ASSUME TypeOK, MediaInv, [Next]_vars
    PROVE  OneVisibleCover'
<1>1. CASE \A p \in Photos : Cover(p)' => Cover(p) /\ ~IsGone(p)'
  <2>1. \A p \in Photos : Cover(p)' => Visible(p)'
    BY <1>1, RowsAreFinal DEF MediaInv, OneVisibleCover
  <2>2. \A p, r \in Photos : Cover(p)' /\ Cover(r)' => p = r
    BY <1>1 DEF MediaInv, OneVisibleCover
  <2> QED BY <2>1, <2>2 DEF OneVisibleCover
<1>2. CASE \E c \in Photos : Visible(c)' /\ \A p \in Photos : Cover(p)' => p = c
  BY <1>2 DEF OneVisibleCover
<1> QED BY <1>1, <1>2, CoverSteps DEF CoverMoves

\* A cover whose row survives a step leaves the listing with a cover: it is
\* still the one, or another photo has been made the cover in its place.
LEMMA CoverKept ==
    ASSUME TypeOK, MediaInv, [Next]_vars, NEW p \in Photos, Cover(p), HasRow(p)'
    PROVE  HasCover'
<1>0. assets \in [Photos -> AssetRow] /\ Visible(p)
  BY DEF TypeOK, MediaInv, OneVisibleCover
<1>1. ASSUME assets'[p].isCover PROVE HasCover'
  BY <1>1 DEF HasCover, Cover
<1>2. ASSUME assets'[p] = assets[p] PROVE HasCover'
  BY <1>1, <1>2 DEF Cover
<1>3. ASSUME assets'[p] = assets[p] \/ assets'[p] = Gone PROVE HasCover'
  BY <1>2, <1>3 DEF HasRow, Gone
<1>4. ASSUME NEW h \in Handlers, RequestStep(h) PROVE HasCover'
  <2>1. CASE UploadCreate(h)
    <3>1. assets'[p] = assets[p]
      BY <1>0, <2>1 DEF UploadCreate, Visible, VisibleStatuses
    <3> QED BY <3>1, <1>2
  <2>2. CASE CompleteMark(h)
    <3>1. assets'[p].isCover
      <4>1. CASE UNCHANGED assets
        BY <4>1 DEF Cover
      <4>2. ASSUME NEW c \in Photos, c = jobs[h].photo,
                   assets' = [assets EXCEPT ![c] =
                                 [status |-> "PROCESSING",
                                  isCover |-> jobs[h].step = "cover" \/ Cover(c)]]
            PROVE  assets'[p].isCover
        <5>1. /\ assets'[c].isCover <=> (jobs[h].step = "cover" \/ Cover(c))
              /\ p # c => assets'[p] = assets[p]
          BY <1>0, <4>2
        <5> QED BY <5>1 DEF Cover
      <4>3. jobs[h].photo \in Photos
        BY <2>2, RequestTypes DEF CompleteMark, At, CompleteJob
      <4> QED BY <2>2, <4>1, <4>2, <4>3 DEF CompleteMark
    <3> QED BY <3>1, <1>1
  <2>3. CASE CoverWrite(h)
    <3>1. CASE UNCHANGED assets
      BY <3>1, <1>2
    <3>2. CASE assets' = OnlyCover(jobs[h].photo)
      <4>1. jobs[h].photo \in Photos
        BY <2>3, RequestTypes DEF CoverWrite, CoverJob
      <4>2. assets'[jobs[h].photo].isCover
        BY <1>0, <3>2, <4>1 DEF OnlyCover, AssetRow
      <4> QED BY <4>1, <4>2 DEF HasCover, Cover
    <3> QED BY <2>3, <3>1, <3>2 DEF CoverWrite
  <2>4. CASE RemoveDelete(h)
    <3>1. assets'[p] = assets[p] \/ assets'[p] = Gone
      BY <1>0, <2>4 DEF RemoveDelete
    <3> QED BY <3>1, <1>3
  <2>5. CASE RemovePromote(h)
    <3>1. assets'[p].isCover
      <4>1. CASE UNCHANGED assets
        BY <4>1 DEF Cover
      <4>2. CASE assets' = [assets EXCEPT ![jobs[h].photo].isCover = TRUE]
        BY <1>0, <4>2 DEF Cover, AssetRow
      <4> QED BY <2>5, <4>1, <4>2 DEF RemovePromote
    <3> QED BY <3>1, <1>1
  <2>6. CASE CompleteCount(h) \/ CompleteEnqueue(h) \/ RemovePurge(h) \/ RemoveNext(h)
    BY <2>6, <1>2 DEF CompleteCount, CompleteEnqueue, RemovePurge, RemoveNext
  <2> QED BY <1>4, <2>1, <2>2, <2>3, <2>4, <2>5, <2>6 DEF RequestStep
<1>5. ASSUME NEW q \in Processes, QueueStep(q) PROVE HasCover'
  <2>1. CASE DeriveFinish(q)
    <3>1. assets'[p].isCover
      BY <1>0, <2>1 DEF DeriveFinish, Cover, AssetRow
    <3> QED BY <3>1, <1>1
  <2>2. CASE SweepRows(q)
    <3>1. assets'[p] = assets[p] \/ assets'[p] = Gone
      BY <2>2 DEF SweepRows
    <3> QED BY <3>1, <1>3
  <2> QED
    BY <1>2, <1>5, <2>1, <2>2 DEF QueueStep, Take, DeriveRead, DeriveStore,
       PurgeObjects, SweepFind, SweepObjects
<1>6. ASSUME NEW r \in Photos, OnFailed(r) PROVE HasCover'
  <2>1. assets'[p].isCover
    BY <1>0, <1>6 DEF OnFailed, Cover, AssetRow
  <2> QED BY <2>1, <1>1
<1>7. CASE RoomRemoved
  <2>1. assets'[p] = assets[p] \/ assets'[p] = Gone
    BY <1>7 DEF RoomRemoved
  <2> QED BY <2>1, <1>3
<1>8. ASSUME NEW h \in Handlers, RequestBegins(h) \/ RequestFails(h) PROVE HasCover'
  BY <1>2, <1>8 DEF RequestBegins, UploadBegin, CompleteBegin, CoverBegin,
                    RemoveBegin, RequestFails
<1>9. ASSUME NEW r \in Photos, BrowserPut(r) \/ Age(r) \/ ListenerDies(r)
      PROVE  HasCover'
  BY <1>2, <1>9 DEF BrowserPut, Age, ListenerDies
<1>10. ASSUME NEW q \in Processes, StorageFails(q) \/ ProcessDies(q) PROVE HasCover'
  BY <1>2, <1>10 DEF StorageFails, ProcessDies
<1>11. CASE UNCHANGED vars
  BY <1>2, <1>11 DEF vars
<1> QED BY <1>4, <1>5, <1>6, <1>7, <1>8, <1>9, <1>10, <1>11 DEF Next

-----------------------------------------------------------------------------
(* The theorems.                                                           *)

\* The inductive invariant holds in every reachable state.
THEOREM Invariance == Spec => []IInv
<1>1. Init => MediaInv
  BY DEF Init, MediaInv, PhotosAreServed, OneVisibleCover, OnlyTheGoneAreDoomed,
         Doomed, AboutToPurge, PurgeQueued, PurgeRunning, BeingSwept,
         WorkersFollowKinds, ListsNameRealRows, ConfirmedHaveBytes, StoredSoFar,
         CoversInHand, Visible, VisibleStatuses, Cover, Idle, At, Working
<1>2. TypeOK /\ MediaInv /\ [Next]_vars => MediaInv'
  BY ServedStep, CoverStep, DoomStep, WorkersStep, ConfirmedStep, StoredStep,
     InHandStep DEF MediaInv
<1> QED BY <1>1, <1>2, Typing, PTL DEF Spec, IInv

\* Every photo the host is shown is in the bucket under the URLs toDto builds:
\* for any number of requests, workers, attempts and faults.
THEOREM EveryPhotoIsServed == Spec => []PhotosAreServed
<1>1. IInv => PhotosAreServed
  BY DEF IInv, MediaInv
<1> QED BY <1>1, Invariance, PTL

\* Never two covers, and never a cover nobody sees.
THEOREM NeverTwoCovers == Spec => []OneVisibleCover
<1>1. IInv => OneVisibleCover
  BY DEF IInv, MediaInv
<1> QED BY <1>1, Invariance, PTL

\* A listing loses its cover only with the photo that was the cover.
THEOREM CoversGoWithTheirPhotos == Spec => CoverGoesWithItsPhoto
<1>1. IInv /\ [Next]_vars =>
         [HasCover /\ ~HasCover' =>
             \E p \in Photos : Cover(p) /\ ~HasRow(p)']_vars
  <2> SUFFICES ASSUME IInv, [Next]_vars, HasCover, ~HasCover'
               PROVE  \E p \in Photos : Cover(p) /\ ~HasRow(p)'
    OBVIOUS
  <2>1. PICK p \in Photos : Cover(p)
    BY DEF HasCover
  <2>2. ~HasRow(p)'
    BY <2>1, CoverKept DEF IInv
  <2> QED BY <2>1, <2>2
<1> QED BY <1>1, Invariance, PTL DEF Spec, CoverGoesWithItsPhoto

-----------------------------------------------------------------------------
(* What the queue owes a photo.  Nothing below holds whatever goes wrong:  *)
(* each theorem names the faults, and the deployments, it is about.        *)

DeriveQueued(p) ==
    \E t \in Tasks : t.kind = "derivatives" /\ t.photo = p /\ queue[t] > 0
DeriveRunning(p) ==
    \E q \in Processes : Working(q, "derivatives") /\ running[q].task.photo = p
AboutToQueue(p) ==
    \E h \in Handlers : At(h, "complete", "enqueue") /\ jobs[h].photo = p

\* One more job in the queue takes none out of it.
LEMMA MoreOfOne ==
    ASSUME TypeOK, NEW more, queue' = [queue EXCEPT ![more] = @ + 1],
           NEW t \in Tasks
    PROVE  /\ queue[t] > 0 => queue'[t] > 0
           /\ t = more => queue'[t] > 0
  <1>1. t = more => queue'[t] = queue[t] + 1
    BY DEF TypeOK
  <1>2. t # more => queue'[t] = queue[t]
    BY DEF TypeOK
  <1> QED BY <1>1, <1>2 DEF TypeOK

LEMMA FailureKeepsQueue ==
    ASSUME TypeOK, NEW q \in Processes, AttemptFails(q), NEW t \in Tasks, queue[t] > 0
    PROVE  queue'[t] > 0
<1> DEFINE again == [running[q].task EXCEPT !.made = @ + 1]
<1>1. UNCHANGED queue \/ queue' = [queue EXCEPT ![again] = @ + 1]
  BY DEF AttemptFails
<1> HIDE DEF again
<1> QED BY <1>1, MoreOfOne

\* A job that waits waits on until a worker takes it.
LEMMA QueuedStays ==
    ASSUME TypeOK, [Next]_vars, NEW t \in Tasks, queue[t] > 0
    PROVE  \/ queue'[t] > 0
           \/ \E q \in Processes :
                 /\ t.kind = "purge" => running'[q] = [op |-> "purge", task |-> t]
                 /\ t.kind = "derivatives" /\ HasRow(t.photo) =>
                       running'[q] = [op |-> "derivatives", task |-> t, step |-> 0]
<1>1. ASSUME NEW h \in Handlers, RequestStep(h) PROVE queue'[t] > 0
  <2>1. CASE CompleteEnqueue(h)
    BY <2>1, MoreOfOne DEF CompleteEnqueue, Enqueue
  <2>2. CASE RemovePurge(h)
    BY <2>2, MoreOfOne DEF RemovePurge, Enqueue
  <2> QED
    BY <1>1, <2>1, <2>2 DEF RequestStep, UploadCreate, CompleteCount, CompleteMark,
       CoverWrite, RemoveDelete, RemoveNext, RemovePromote
<1>2. ASSUME NEW q \in Processes, Take(q), queue'[t] = 0
      PROVE  /\ t.kind = "purge" => running'[q] = [op |-> "purge", task |-> t]
             /\ t.kind = "derivatives" /\ HasRow(t.photo) =>
                   running'[q] = [op |-> "derivatives", task |-> t, step |-> 0]
  <2>1. PICK u \in Tasks :
          /\ queue' = [queue EXCEPT ![u] = @ + -1]
          /\ running' =
                [running EXCEPT ![q] =
                    CASE u.kind = "purge" -> [op |-> "purge", task |-> u]
                      [] u.kind = "derivatives" /\ HasRow(u.photo) ->
                            [op |-> "derivatives", task |-> u, step |-> 0]
                      [] OTHER -> Idle]
    BY <1>2 DEF Take, Put
  <2>2. t = u
    BY <1>2, <2>1 DEF TypeOK
  <2>3. t.kind = "purge" => running'[q] = [op |-> "purge", task |-> t]
    BY <2>1, <2>2 DEF TypeOK
  <2>4. t.kind = "derivatives" /\ HasRow(t.photo) =>
           running'[q] = [op |-> "derivatives", task |-> t, step |-> 0]
    BY <2>1, <2>2 DEF TypeOK
  <2> QED BY <2>3, <2>4
<1>3. ASSUME NEW q \in Processes, Take(q) PROVE queue'[t] > 0 \/ queue'[t] = 0
  BY <1>3 DEF Take, Put, TypeOK
<1>4. ASSUME NEW q \in Processes, QueueStep(q) \/ StorageFails(q), ~Take(q)
      PROVE  queue'[t] > 0
  BY <1>4, FailureKeepsQueue DEF QueueStep, DeriveRead, DeriveStore, DeriveFinish,
     PurgeObjects, SweepFind, SweepRows, SweepObjects, StorageFails
<1>5. ASSUME NEW q \in Processes, ProcessDies(q) PROVE queue'[t] > 0
  BY <1>5, MoreOfOne DEF ProcessDies, Put
<1>6. ASSUME NEW h \in Handlers, RequestBegins(h) \/ RequestFails(h)
      PROVE  UNCHANGED queue
  BY <1>6 DEF RequestBegins, UploadBegin, CompleteBegin, CoverBegin, RemoveBegin,
              RequestFails
<1>7. ASSUME NEW p \in Photos, BrowserPut(p) \/ Age(p) \/ OnFailed(p) \/ ListenerDies(p)
      PROVE  UNCHANGED queue
  BY <1>7 DEF BrowserPut, Age, OnFailed, ListenerDies
<1>8. CASE RoomRemoved \/ UNCHANGED vars
  BY <1>8 DEF RoomRemoved, vars
<1> QED BY <1>1, <1>2, <1>3, <1>4, <1>5, <1>6, <1>7, <1>8 DEF Next

\* A confirmation that has marked its photo goes on to queue the job.
LEMMA ConfirmationGoesOn ==
    ASSUME TypeOK, [Next]_vars, "request" \notin Faults, NEW p \in Photos, AboutToQueue(p)
    PROVE  AboutToQueue(p)' \/ DeriveQueued(p)'
<1> PICK g \in Handlers : At(g, "complete", "enqueue") /\ jobs[g].photo = p
  BY DEF AboutToQueue
<1>1. ASSUME jobs'[g] = jobs[g] PROVE AboutToQueue(p)'
  BY <1>1 DEF AboutToQueue, At
<1>2. ASSUME NEW h \in Handlers, RequestBegins(h) PROVE jobs'[g] = jobs[g]
  <2>1. jobs[h] = Idle /\ \E job : jobs' = [jobs EXCEPT ![h] = job]
    BY <1>2, Zenon DEF RequestBegins, UploadBegin, CompleteBegin, CoverBegin, RemoveBegin,
                       Begin
  <2>2. h # g
    BY <2>1 DEF At, Idle
  <2> QED BY <2>1, <2>2 DEF TypeOK
<1>3. ASSUME NEW h \in Handlers, RequestStep(h) PROVE AboutToQueue(p)' \/ DeriveQueued(p)'
  <2>1. CASE h = g
    <3>1. CompleteEnqueue(g)
      BY <1>3, <2>1 DEF RequestStep, UploadCreate, CompleteCount, CompleteMark,
         CoverWrite, RemoveDelete, RemovePurge, RemoveNext, RemovePromote, At
    <3>2. Task("derivatives", p) \in Tasks
      BY TaskTypes
    <3>3. queue'[Task("derivatives", p)] > 0
      BY <3>1, <3>2, MoreOfOne DEF CompleteEnqueue, Enqueue
    <3> QED BY <3>2, <3>3, TaskTypes DEF DeriveQueued
  <2>2. CASE h # g
    <3>1. jobs'[g] = jobs[g]
      BY <1>3, <2>2 DEF RequestStep, UploadCreate, CompleteCount, CompleteMark,
         CompleteEnqueue, CoverWrite, RemoveDelete, RemovePurge, RemoveNext,
         RemovePromote, Finish, Advance, TypeOK
    <3> QED BY <3>1, <1>1
  <2> QED BY <2>1, <2>2
<1>4. ASSUME NEW q \in Processes, QueueStep(q) \/ StorageFails(q) \/ ProcessDies(q)
      PROVE  UNCHANGED jobs
  BY <1>4 DEF QueueStep, Take, DeriveRead, DeriveStore, DeriveFinish, PurgeObjects,
              SweepFind, SweepRows, SweepObjects, StorageFails, ProcessDies
<1>5. ASSUME NEW r \in Photos, BrowserPut(r) \/ Age(r) \/ OnFailed(r) \/ ListenerDies(r)
      PROVE  UNCHANGED jobs
  BY <1>5 DEF BrowserPut, Age, OnFailed, ListenerDies
<1>6. CASE RoomRemoved \/ UNCHANGED vars
  BY <1>6, <1>1 DEF RoomRemoved, vars
<1>7. ASSUME NEW h \in Handlers PROVE ~RequestFails(h)
  BY DEF RequestFails
<1> QED BY <1>1, <1>2, <1>3, <1>4, <1>5, <1>6, <1>7 DEF Next

\* A worker at the derivatives of a photo that stays PROCESSING stays at them, puts the
\* job back or gives it up.
LEMMA DerivingGoesOn ==
    ASSUME TypeOK, MediaInv, [Next]_vars, NEW p \in Photos, DeriveRunning(p), HasRow(p),
           assets'[p].status = "PROCESSING"
    PROVE  p \in spent' \/ DeriveQueued(p)' \/ DeriveRunning(p)'
<1> PICK q \in Processes : Working(q, "derivatives") /\ running[q].task.photo = p
  BY DEF DeriveRunning
<1>0. /\ running[q] \in DeriveJob /\ running[q].task \in Tasks
      /\ running[q].task.kind = "derivatives"
  BY WorkerTypes DEF DeriveJob, MediaInv, WorkersFollowKinds, Working
<1>1. ASSUME running'[q] = running[q] PROVE DeriveRunning(p)'
  BY <1>1 DEF DeriveRunning, Working
<1>2. ASSUME AttemptFails(q) PROVE p \in spent' \/ DeriveQueued(p)'
  <2> DEFINE t == running[q].task
             again == [t EXCEPT !.made = @ + 1]
  <2>1. CASE t.made + 1 < Attempts
    <3>1. again \in Tasks /\ again.kind = "derivatives" /\ again.photo = p
      BY <1>0, <2>1, AttemptsAssumption DEF Tasks
    <3>2. queue' = [queue EXCEPT ![again] = @ + 1]
      BY <1>2, <2>1 DEF AttemptFails
    <3> HIDE DEF again
    <3> QED BY <3>1, <3>2, MoreOfOne DEF DeriveQueued
  <2>2. CASE ~(t.made + 1 < Attempts)
    BY <1>0, <1>2, <2>2 DEF AttemptFails
  <2> QED BY <2>1, <2>2
<1>3. ASSUME NEW r \in Processes, QueueStep(r) \/ StorageFails(r) \/ ProcessDies(r), r # q
      PROVE  running'[q] = running[q]
  BY <1>3 DEF QueueStep, Take, DeriveRead, DeriveStore, DeriveFinish, PurgeObjects,
              SweepFind, SweepRows, SweepObjects, StorageFails, ProcessDies, AttemptFails,
              Rest, TypeOK
<1>4. CASE QueueStep(q)
  <2>1. CASE DeriveRead(q)
    <3>1. CASE running' = [running EXCEPT ![q].step = 1]
      <4>1. running'[q] = [running[q] EXCEPT !.step = 1]
        BY <3>1 DEF TypeOK
      <4>2. running'[q].op = "derivatives" /\ running'[q].task = running[q].task
        BY <1>0, <4>1 DEF DeriveJob
      <4> QED BY <4>2 DEF DeriveRunning, Working
    <3> QED BY <1>2, <2>1, <3>1 DEF DeriveRead
  <2>2. CASE DeriveStore(q)
    <3>1. running'[q] = [running[q] EXCEPT !.step = @ + 1]
      BY <2>2 DEF DeriveStore, TypeOK
    <3>2. running'[q].op = "derivatives" /\ running'[q].task = running[q].task
      BY <1>0, <3>1 DEF DeriveJob
    <3> QED BY <3>2 DEF DeriveRunning, Working
  <2>3. CASE DeriveFinish(q)
    BY <2>3 DEF DeriveFinish, TypeOK, AssetRow
  <2> QED
    BY <1>4, <2>1, <2>2, <2>3 DEF QueueStep, Take, PurgeObjects, SweepFind, SweepRows,
       SweepObjects, Working, Idle
<1>5. CASE StorageFails(q)
  BY <1>5, <1>2 DEF StorageFails, Working
<1>6. CASE ProcessDies(q)
  <2>1. queue' = [queue EXCEPT ![running[q].task] = @ + 1]
    BY <1>6 DEF ProcessDies, Working, Put
  <2> QED BY <1>0, <2>1, MoreOfOne DEF DeriveQueued
<1>7. ASSUME NEW h \in Handlers, RequestBegins(h) \/ RequestStep(h) \/ RequestFails(h)
      PROVE  UNCHANGED running
  BY <1>7 DEF RequestBegins, UploadBegin, CompleteBegin, CoverBegin, RemoveBegin,
              RequestStep, UploadCreate, CompleteCount, CompleteMark,
              CompleteEnqueue, CoverWrite, RemoveDelete, RemovePurge, RemoveNext,
              RemovePromote, RequestFails
<1>8. ASSUME NEW r \in Photos, BrowserPut(r) \/ Age(r) \/ OnFailed(r) \/ ListenerDies(r)
      PROVE  UNCHANGED running
  BY <1>8 DEF BrowserPut, Age, OnFailed, ListenerDies
<1>9. CASE RoomRemoved \/ UNCHANGED vars
  BY <1>9, <1>1 DEF RoomRemoved, vars
<1> QED BY <1>1, <1>3, <1>4, <1>5, <1>6, <1>7, <1>8, <1>9 DEF Next

\* A photo becomes PROCESSING at the hands of the confirmation that will queue it.
LEMMA MarkedWillBeQueued ==
    ASSUME TypeOK, [Next]_vars, NEW p \in Photos, assets[p].status # "PROCESSING",
           assets'[p].status = "PROCESSING"
    PROVE  AboutToQueue(p)'
<1>1. assets' # assets
  BY DEF TypeOK
<1>2. ASSUME NEW h \in Handlers, RequestStep(h) PROVE AboutToQueue(p)'
  <2>1. CASE CompleteMark(h)
    <3>1. /\ jobs[h].photo = p /\ Advance(h, "enqueue")
          /\ jobs[h] \in CompleteJob
      BY <2>1, <1>1, RequestTypes DEF CompleteMark, TypeOK, At
    <3>2. jobs'[h] = [jobs[h] EXCEPT !.step = "enqueue"]
      BY <3>1 DEF Advance, TypeOK
    <3>3. jobs'[h].op = "complete" /\ jobs'[h].step = "enqueue" /\ jobs'[h].photo = p
      BY <3>1, <3>2 DEF CompleteJob
    <3> QED BY <3>3 DEF AboutToQueue, At
  <2>2. CASE CoverWrite(h)
    BY <2>2 DEF CoverWrite, OnlyCover, TypeOK, AssetRow
  <2>3. CASE UploadCreate(h) \/ RemoveDelete(h) \/ RemovePromote(h)
    BY <2>3 DEF UploadCreate, RemoveDelete, RemovePromote, Gone, TypeOK, AssetRow
  <2> QED
    BY <1>1, <1>2, <2>1, <2>2, <2>3 DEF RequestStep, CompleteCount, CompleteEnqueue,
       RemovePurge, RemoveNext
<1>3. ASSUME NEW q \in Processes, QueueStep(q) PROVE FALSE
  <2>1. CASE DeriveFinish(q)
    BY <2>1 DEF DeriveFinish, TypeOK, AssetRow
  <2>2. CASE SweepRows(q)
    BY <2>2 DEF SweepRows, Gone
  <2> QED
    BY <1>1, <1>3, <2>1, <2>2 DEF QueueStep, Take, DeriveRead, DeriveStore,
       PurgeObjects, SweepFind, SweepObjects
<1>4. ASSUME NEW r \in Photos, OnFailed(r) PROVE FALSE
  BY <1>4 DEF OnFailed, TypeOK, AssetRow
<1>5. CASE RoomRemoved
  BY <1>5 DEF RoomRemoved, Gone
<1>6. ASSUME NEW h \in Handlers, RequestBegins(h) \/ RequestFails(h) PROVE FALSE
  BY <1>1, <1>6 DEF RequestBegins, UploadBegin, CompleteBegin, CoverBegin, RemoveBegin,
                    RequestFails
<1>7. ASSUME NEW r \in Photos, BrowserPut(r) \/ Age(r) \/ ListenerDies(r) PROVE FALSE
  BY <1>1, <1>7 DEF BrowserPut, Age, ListenerDies
<1>8. ASSUME NEW q \in Processes, StorageFails(q) \/ ProcessDies(q) PROVE FALSE
  BY <1>1, <1>8 DEF StorageFails, ProcessDies
<1>9. ~UNCHANGED vars
  BY <1>1 DEF vars
<1> QED BY <1>2, <1>3, <1>4, <1>5, <1>6, <1>7, <1>8, <1>9 DEF Next

\* A photo that was given up waits for the listener, which ends its being PROCESSING.
LEMMA GivenUpWaits ==
    ASSUME TypeOK, [Next]_vars, "process" \notin Faults, NEW p \in Photos, p \in spent,
           assets'[p].status = "PROCESSING"
    PROVE  p \in spent'
<1>1. ASSUME NEW q \in Processes, AttemptFails(q) PROVE p \in spent'
  BY <1>1 DEF AttemptFails
<1>2. ASSUME NEW q \in Processes, QueueStep(q) \/ StorageFails(q) \/ ProcessDies(q)
      PROVE  p \in spent'
  BY <1>2, <1>1 DEF QueueStep, Take, DeriveRead, DeriveStore, DeriveFinish, PurgeObjects,
     SweepFind, SweepRows, SweepObjects, StorageFails, ProcessDies
<1>3. ASSUME NEW h \in Handlers, RequestBegins(h) \/ RequestStep(h) \/ RequestFails(h)
      PROVE  UNCHANGED spent
  BY <1>3 DEF RequestBegins, UploadBegin, CompleteBegin, CoverBegin, RemoveBegin,
              RequestStep, UploadCreate, CompleteCount, CompleteMark,
              CompleteEnqueue, CoverWrite, RemoveDelete, RemovePurge, RemoveNext,
              RemovePromote, RequestFails
<1>4. ASSUME NEW r \in Photos, BrowserPut(r) \/ Age(r) \/ OnFailed(r) \/ ListenerDies(r)
      PROVE  p \in spent'
  BY <1>4 DEF BrowserPut, Age, OnFailed, ListenerDies, TypeOK, AssetRow
<1>5. CASE RoomRemoved \/ UNCHANGED vars
  BY <1>5 DEF RoomRemoved, vars
<1> QED BY <1>2, <1>3, <1>4, <1>5 DEF Next

LEMMA ProcessingStep ==
    ASSUME TypeOK, MediaInv, ProcessingIsQueued, [Next]_vars,
           "request" \notin Faults, "process" \notin Faults
    PROVE  ProcessingIsQueued'
<1> SUFFICES ASSUME NEW p \in Photos, assets'[p].status = "PROCESSING"
             PROVE  p \in spent' \/ DeriveQueued(p)' \/ DeriveRunning(p)' \/ AboutToQueue(p)'
  BY DEF ProcessingIsQueued, DeriveQueued, DeriveRunning, AboutToQueue
<1>1. CASE assets[p].status # "PROCESSING"
  BY <1>1, MarkedWillBeQueued
<1>2. CASE assets[p].status = "PROCESSING"
  <2>1. p \in spent \/ DeriveQueued(p) \/ DeriveRunning(p) \/ AboutToQueue(p)
    BY <1>2 DEF ProcessingIsQueued, DeriveQueued, DeriveRunning, AboutToQueue
  <2>2. HasRow(p)
    BY <1>2 DEF HasRow
  <2>3. ASSUME DeriveQueued(p) PROVE DeriveQueued(p)' \/ DeriveRunning(p)'
    <3>1. PICK t \in Tasks : t.kind = "derivatives" /\ t.photo = p /\ queue[t] > 0
      BY <2>3 DEF DeriveQueued
    <3>2. \/ queue'[t] > 0
          \/ \E q \in Processes :
                running'[q] = [op |-> "derivatives", task |-> t, step |-> 0]
      BY <2>2, <3>1, QueuedStays
    <3> QED BY <3>1, <3>2 DEF DeriveQueued, DeriveRunning, Working
  <2> QED BY <2>1, <2>2, <2>3, GivenUpWaits, DerivingGoesOn, ConfirmationGoesOn
<1> QED BY <1>1, <1>2

\* ProcessingIsQueued (schema.prisma on PROCESSING; media.service.ts, media.processor.ts):
\* as long as no request and no process dies in between, and though the bucket throws, a
\* PROCESSING photo's job is queued, running, about to be queued or given up.
THEOREM ProcessingPhotosAreQueued ==
    ASSUME "request" \notin Faults, "process" \notin Faults
    PROVE  Spec => []ProcessingIsQueued
<1>1. Init => ProcessingIsQueued
  BY DEF Init, ProcessingIsQueued
<1>2. IInv /\ ProcessingIsQueued /\ [Next]_vars => ProcessingIsQueued'
  BY ProcessingStep DEF IInv
<1> QED BY <1>1, <1>2, Invariance, PTL DEF Spec

-----------------------------------------------------------------------------
(* The objects of a property's own photos, while nothing fails and one     *)
(* worker runs: with a second one, a purge may overtake the derivatives of *)
(* the photo it purges, and what these store afterwards is nobody's.       *)

Sweeping(p) == \E q \in Processes : Working(q, "sweep") /\ p \in running[q].photos

Owned(p) ==
    HasRow(p) \/ PurgeQueued(p) \/ PurgeRunning(p) \/ Sweeping(p) \/ AboutToPurge(p)

\* What a worker still stores has a row, or a purge that comes after it.
DerivedAreOwned ==
    \A q \in Processes : Working(q, "derivatives") =>
        LET p == running[q].task.photo
        IN  HasRow(p) \/ PurgeQueued(p) \/ AboutToPurge(p)

\* A removal that has deleted the row goes on to queue the purge.
LEMMA RemovalGoesOn ==
    ASSUME TypeOK, [Next]_vars, "request" \notin Faults, NEW p \in Photos, AboutToPurge(p)
    PROVE  AboutToPurge(p)' \/ PurgeQueued(p)'
<1> PICK g \in Handlers : At(g, "remove", "purge") /\ jobs[g].photo = p
  BY DEF AboutToPurge
<1>1. ASSUME jobs'[g] = jobs[g] PROVE AboutToPurge(p)'
  BY <1>1 DEF AboutToPurge, At
<1>2. ASSUME NEW h \in Handlers, RequestBegins(h) PROVE jobs'[g] = jobs[g]
  <2>1. jobs[h] = Idle /\ \E job : jobs' = [jobs EXCEPT ![h] = job]
    BY <1>2, Zenon DEF RequestBegins, UploadBegin, CompleteBegin, CoverBegin, RemoveBegin,
                       Begin
  <2>2. h # g
    BY <2>1 DEF At, Idle
  <2> QED BY <2>1, <2>2 DEF TypeOK
<1>3. ASSUME NEW h \in Handlers, RequestStep(h) PROVE AboutToPurge(p)' \/ PurgeQueued(p)'
  <2>1. CASE h = g
    <3>1. RemovePurge(g)
      BY <1>3, <2>1 DEF RequestStep, UploadCreate, CompleteCount, CompleteMark,
         CompleteEnqueue, CoverWrite, RemoveDelete, RemoveNext, RemovePromote, At
    <3>2. Task("purge", p) \in Tasks
      BY TaskTypes
    <3>3. queue'[Task("purge", p)] > 0
      BY <3>1, <3>2, MoreOfOne DEF RemovePurge, Enqueue
    <3> QED BY <3>2, <3>3, TaskTypes DEF PurgeQueued
  <2>2. CASE h # g
    <3>1. jobs'[g] = jobs[g]
      BY <1>3, <2>2 DEF RequestStep, UploadCreate, CompleteCount, CompleteMark,
         CompleteEnqueue, CoverWrite, RemoveDelete, RemovePurge, RemoveNext,
         RemovePromote, Finish, Advance, TypeOK
    <3> QED BY <3>1, <1>1
  <2> QED BY <2>1, <2>2
<1>4. ASSUME NEW q \in Processes, QueueStep(q) \/ StorageFails(q) \/ ProcessDies(q)
      PROVE  UNCHANGED jobs
  BY <1>4 DEF QueueStep, Take, DeriveRead, DeriveStore, DeriveFinish, PurgeObjects,
              SweepFind, SweepRows, SweepObjects, StorageFails, ProcessDies
<1>5. ASSUME NEW r \in Photos, BrowserPut(r) \/ Age(r) \/ OnFailed(r) \/ ListenerDies(r)
      PROVE  UNCHANGED jobs
  BY <1>5 DEF BrowserPut, Age, OnFailed, ListenerDies
<1>6. CASE RoomRemoved \/ UNCHANGED vars
  BY <1>6, <1>1 DEF RoomRemoved, vars
<1>7. ASSUME NEW h \in Handlers PROVE ~RequestFails(h)
  BY DEF RequestFails
<1> QED BY <1>1, <1>2, <1>3, <1>4, <1>5, <1>6, <1>7 DEF Next

\* A worker that deletes objects goes on until they are deleted.
LEMMA DeletionGoesOn ==
    ASSUME TypeOK, [Next]_vars, Faults \subseteq {"delay"}, NEW p \in Photos,
           PurgeRunning(p) \/ Sweeping(p)
    PROVE  PurgeRunning(p)' \/ Sweeping(p)' \/ bucket' \cap ({p} \X Objects) = {}
<1> PICK q \in Processes : \/ Working(q, "purge") /\ running[q].task.photo = p
                           \/ Working(q, "sweep") /\ p \in running[q].photos
  BY DEF PurgeRunning, Sweeping
<1>1. ASSUME running'[q] = running[q] PROVE PurgeRunning(p)' \/ Sweeping(p)'
  BY <1>1 DEF PurgeRunning, Sweeping, Working
<1>2. ASSUME NEW r \in Processes PROVE ~StorageFails(r) /\ ~ProcessDies(r)
  BY DEF StorageFails, ProcessDies
<1>3. ASSUME NEW r \in Processes, QueueStep(r), r # q PROVE running'[q] = running[q]
  BY <1>3 DEF QueueStep, Take, DeriveRead, DeriveStore, DeriveFinish, PurgeObjects,
              SweepFind, SweepRows, SweepObjects, AttemptFails, Rest, TypeOK
<1>4. ASSUME QueueStep(q)
      PROVE  PurgeRunning(p)' \/ Sweeping(p)' \/ bucket' \cap ({p} \X Objects) = {}
  <2>1. CASE PurgeObjects(q)
    BY <2>1 DEF PurgeObjects, AllKeys, Working
  <2>2. CASE SweepObjects(q)
    BY <2>2 DEF SweepObjects, AllKeys, Working
  <2>3. CASE SweepRows(q)
    <3>1. running[q] \in SweepJob
      BY <2>3, WorkerTypes DEF SweepRows
    <3>2. running'[q] = [running[q] EXCEPT !.step = "objects"]
      BY <2>3 DEF SweepRows, TypeOK
    <3>3. running'[q].op = "sweep" /\ running'[q].photos = running[q].photos
      BY <3>1, <3>2 DEF SweepJob
    <3> QED BY <2>3, <3>3 DEF SweepRows, Sweeping, Working
  <2> QED
    BY <1>4, <2>1, <2>2, <2>3 DEF QueueStep, Take, DeriveRead, DeriveStore,
       DeriveFinish, SweepFind, Working, Idle
<1>5. ASSUME NEW h \in Handlers, RequestBegins(h) \/ RequestStep(h) \/ RequestFails(h)
      PROVE  UNCHANGED running
  BY <1>5 DEF RequestBegins, UploadBegin, CompleteBegin, CoverBegin, RemoveBegin,
              RequestStep, UploadCreate, CompleteCount, CompleteMark,
              CompleteEnqueue, CoverWrite, RemoveDelete, RemovePurge, RemoveNext,
              RemovePromote, RequestFails
<1>6. ASSUME NEW r \in Photos, BrowserPut(r) \/ Age(r) \/ OnFailed(r) \/ ListenerDies(r)
      PROVE  UNCHANGED running
  BY <1>6 DEF BrowserPut, Age, OnFailed, ListenerDies
<1>7. CASE RoomRemoved \/ UNCHANGED vars
  BY <1>7, <1>1 DEF RoomRemoved, vars
<1> QED BY <1>1, <1>2, <1>3, <1>4, <1>5, <1>6, <1>7 DEF Next

\* A row goes with a removal that will purge its objects, or with the sweep that will.
LEMMA RowsGoOwned ==
    ASSUME TypeOK, [Next]_vars, OfRoom = FALSE, NEW p \in Photos, HasRow(p), ~HasRow(p)'
    PROVE  AboutToPurge(p)' \/ Sweeping(p)'
<1>1. assets' # assets
  BY DEF HasRow
<1>2. ASSUME NEW h \in Handlers, RequestStep(h) PROVE AboutToPurge(p)'
  <2>1. CASE RemoveDelete(h)
    <3>1. jobs[h].photo = p /\ Advance(h, "purge") /\ jobs[h] \in RemoveJob
      BY <2>1, <1>1, RequestTypes DEF RemoveDelete, HasRow, TypeOK, At
    <3>2. jobs'[h] = [jobs[h] EXCEPT !.step = "purge"]
      BY <3>1 DEF Advance, TypeOK
    <3>3. jobs'[h].op = "remove" /\ jobs'[h].step = "purge" /\ jobs'[h].photo = p
      BY <3>1, <3>2 DEF RemoveJob
    <3> QED BY <3>3 DEF AboutToPurge, At
  <2>2. CASE CompleteMark(h)
    <3>1. \/ assets'[p] = assets[p]
          \/ assets'[p].status = "PROCESSING"
      BY <2>2 DEF CompleteMark, TypeOK
    <3> QED BY <3>1 DEF HasRow
  <2>3. CASE UploadCreate(h) \/ CoverWrite(h) \/ RemovePromote(h)
    <3>1. assets'[p].status \in {assets[p].status, "PENDING"}
      BY <2>3 DEF UploadCreate, CoverWrite, OnlyCover, RemovePromote, TypeOK, AssetRow
    <3> QED BY <3>1 DEF HasRow
  <2> QED
    BY <1>1, <1>2, <2>1, <2>2, <2>3 DEF RequestStep, CompleteCount, CompleteEnqueue,
       RemovePurge, RemoveNext
<1>3. ASSUME NEW q \in Processes, QueueStep(q) PROVE Sweeping(p)'
  <2>1. CASE DeriveFinish(q)
    BY <2>1 DEF DeriveFinish, TypeOK, AssetRow, HasRow
  <2>2. CASE SweepRows(q)
    <3>1. p \in running[q].photos /\ running[q] \in SweepJob
      BY <2>2, WorkerTypes DEF SweepRows, Swept, HasRow
    <3>2. running'[q] = [running[q] EXCEPT !.step = "objects"]
      BY <2>2 DEF SweepRows, TypeOK
    <3>3. running'[q].op = "sweep" /\ running'[q].photos = running[q].photos
      BY <3>1, <3>2, <2>2 DEF SweepJob
    <3> QED BY <3>1, <3>3 DEF Sweeping, Working
  <2> QED
    BY <1>1, <1>3, <2>1, <2>2 DEF QueueStep, Take, DeriveRead, DeriveStore,
       PurgeObjects, SweepFind, SweepObjects
<1>4. ASSUME NEW r \in Photos, OnFailed(r) PROVE FALSE
  BY <1>4 DEF OnFailed, TypeOK, AssetRow, HasRow
<1>5. ~RoomRemoved
  BY DEF RoomRemoved
<1>6. ASSUME NEW h \in Handlers, RequestBegins(h) \/ RequestFails(h) PROVE FALSE
  BY <1>1, <1>6 DEF RequestBegins, UploadBegin, CompleteBegin, CoverBegin, RemoveBegin,
                    RequestFails
<1>7. ASSUME NEW r \in Photos, BrowserPut(r) \/ Age(r) \/ ListenerDies(r) PROVE FALSE
  BY <1>1, <1>7 DEF BrowserPut, Age, ListenerDies
<1>8. ASSUME NEW q \in Processes, StorageFails(q) \/ ProcessDies(q) PROVE FALSE
  BY <1>1, <1>8 DEF StorageFails, ProcessDies
<1>9. ~UNCHANGED vars
  BY <1>1 DEF vars
<1> QED BY <1>2, <1>3, <1>4, <1>5, <1>6, <1>7, <1>8, <1>9 DEF Next

\* An object is put in the bucket by the browser, for a row, or by a worker that derives.
LEMMA ObjectsAreStoredFor ==
    ASSUME TypeOK, [Next]_vars, NEW p \in Photos, NEW object,
           <<p, object>> \in bucket', <<p, object>> \notin bucket
    PROVE  HasRow(p) \/ DeriveRunning(p)
<1>1. ASSUME NEW r \in Photos, BrowserPut(r) \/ Age(r) \/ OnFailed(r) \/ ListenerDies(r)
      PROVE  HasRow(p)
  BY <1>1 DEF BrowserPut, Age, OnFailed, ListenerDies, Pending, HasRow
<1>2. ASSUME NEW q \in Processes, QueueStep(q) PROVE DeriveRunning(p)
  <2>1. CASE DeriveStore(q)
    BY <2>1 DEF DeriveStore, DeriveRunning
  <2> QED
    BY <1>2, <2>1 DEF QueueStep, Take, DeriveRead, DeriveFinish, PurgeObjects, SweepFind,
       SweepRows, SweepObjects
<1>3. ASSUME NEW q \in Processes, StorageFails(q) \/ ProcessDies(q) PROVE FALSE
  BY <1>3 DEF StorageFails, ProcessDies
<1>4. ASSUME NEW h \in Handlers, RequestBegins(h) \/ RequestStep(h) \/ RequestFails(h)
      PROVE  FALSE
  BY <1>4 DEF RequestBegins, UploadBegin, CompleteBegin, CoverBegin, RemoveBegin,
              RequestStep, UploadCreate, CompleteCount, CompleteMark,
              CompleteEnqueue, CoverWrite, RemoveDelete, RemovePurge, RemoveNext,
              RemovePromote, RequestFails
<1>5. ~(RoomRemoved \/ UNCHANGED vars)
  BY DEF RoomRemoved, vars
<1> QED BY <1>1, <1>2, <1>3, <1>4, <1>5 DEF Next

\* Whoever owns the objects of a photo hands them on, or deletes them.
LEMMA OwnersHandOn ==
    ASSUME TypeOK, [Next]_vars, OfRoom = FALSE, Faults \subseteq {"delay"},
           NEW p \in Photos, Owned(p)
    PROVE  Owned(p)' \/ bucket' \cap ({p} \X Objects) = {}
<1>1. ASSUME PurgeQueued(p) PROVE PurgeQueued(p)' \/ PurgeRunning(p)'
  <2>1. PICK t \in Tasks : t.kind = "purge" /\ t.photo = p /\ queue[t] > 0
    BY <1>1 DEF PurgeQueued
  <2>2. queue'[t] > 0 \/ \E q \in Processes : running'[q] = [op |-> "purge", task |-> t]
    BY <2>1, QueuedStays
  <2> QED BY <2>1, <2>2 DEF PurgeQueued, PurgeRunning, Working
<1>2. "request" \notin Faults
  OBVIOUS
<1> QED BY <1>1, <1>2, RemovalGoesOn, DeletionGoesOn, RowsGoOwned DEF Owned

\* The one worker that derives a photo is not the one that purges or sweeps it.
LEMMA DerivedStep ==
    ASSUME TypeOK, MediaInv, DerivedAreOwned, [Next]_vars,
           OfRoom = FALSE, Faults \subseteq {"delay"}, \A q, r \in Processes : q = r
    PROVE  DerivedAreOwned'
<1> SUFFICES ASSUME NEW q \in Processes, running'[q].op = "derivatives",
                    NEW p, p = running'[q].task.photo
             PROVE  HasRow(p)' \/ PurgeQueued(p)' \/ AboutToPurge(p)'
  BY DEF DerivedAreOwned, Working, HasRow, PurgeQueued, AboutToPurge
<1>1. p \in Photos
  BY Typed DEF TypeOK, QueueJobs, Idle, DeriveJob, PurgeJob, SweepJob, Tasks
<1>2. \A r \in Processes : running'[r].op = "derivatives"
  OBVIOUS
<1>3. ~PurgeRunning(p)' /\ ~Sweeping(p)'
  BY <1>2 DEF PurgeRunning, Sweeping, Working
<1>4. CASE HasRow(p) /\ UNCHANGED assets
  BY <1>4 DEF HasRow
<1>5. CASE running[q].op = "derivatives" /\ running'[q].task = running[q].task
  <2>1. HasRow(p) \/ PurgeQueued(p) \/ AboutToPurge(p)
    BY <1>5 DEF DerivedAreOwned, Working
  <2>2. CASE HasRow(p)
    BY <1>1, <1>3, <2>2, RowsGoOwned
  <2>3. CASE PurgeQueued(p)
    <3>1. PICK t \in Tasks : t.kind = "purge" /\ t.photo = p /\ queue[t] > 0
      BY <2>3 DEF PurgeQueued
    <3>2. queue'[t] > 0 \/ \E r \in Processes : running'[r] = [op |-> "purge", task |-> t]
      BY <3>1, QueuedStays
    <3> QED BY <1>2, <3>1, <3>2 DEF PurgeQueued
  <2>4. CASE AboutToPurge(p)
    <3>1. "request" \notin Faults
      OBVIOUS
    <3> QED BY <1>1, <2>4, <3>1, RemovalGoesOn
  <2> QED BY <2>1, <2>2, <2>3, <2>4
<1> QED
  <2>1. WorkerMoves(q)
    BY WorkerSteps
  <2> HIDE DEF Variants
  <2> QED BY <1>4, <1>5, <2>1 DEF WorkerMoves

LEMMA OwnerStep ==
    ASSUME TypeOK, MediaInv, DerivedAreOwned, ObjectsHaveAnOwner, [Next]_vars,
           OfRoom = FALSE, Faults \subseteq {"delay"}
    PROVE  ObjectsHaveAnOwner'
<1> SUFFICES ASSUME NEW p \in Photos, NEW object, <<p, object>> \in bucket',
                    object \in Objects
             PROVE  Owned(p)'
  BY DEF ObjectsHaveAnOwner, Owned, PurgeQueued, PurgeRunning, Sweeping, AboutToPurge
<1>1. Owned(p)
  <2>1. CASE <<p, object>> \in bucket
    BY <2>1 DEF ObjectsHaveAnOwner, Owned, PurgeQueued, PurgeRunning, Sweeping, AboutToPurge
  <2>2. CASE <<p, object>> \notin bucket
    BY <2>2, ObjectsAreStoredFor DEF DerivedAreOwned, DeriveRunning, Owned
  <2> QED BY <2>1, <2>2
<1>2. <<p, object>> \in bucket' \cap ({p} \X Objects)
  OBVIOUS
<1> QED BY <1>1, <1>2, OwnersHandOn

\* ObjectsHaveAnOwner (media.service.ts, media.processor.ts): while nothing fails, one
\* worker runs and the photos are the property's own, no object is left behind.
THEOREM NoObjectIsLeft ==
    ASSUME OfRoom = FALSE, Faults \subseteq {"delay"}, \A q, r \in Processes : q = r
    PROVE  Spec => []ObjectsHaveAnOwner
<1>1. Init => DerivedAreOwned /\ ObjectsHaveAnOwner
  BY DEF Init, DerivedAreOwned, ObjectsHaveAnOwner, Working, Idle
<1>2. /\ IInv /\ DerivedAreOwned /\ ObjectsHaveAnOwner /\ [Next]_vars
      => DerivedAreOwned' /\ ObjectsHaveAnOwner'
  BY DerivedStep, OwnerStep DEF IInv
<1> QED BY <1>1, <1>2, Invariance, PTL DEF Spec

=============================================================================
