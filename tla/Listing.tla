------------------------------ MODULE Listing ------------------------------
(***************************************************************************)
(* A property on its way to being published: the setup wizard that two     *)
(* devices of a host have open, the saves of its steps, submitForReview    *)
(* with its check and its write, the operator's verdict, and the rooms and *)
(* photos the check counts.  A detail is given or not; its text is left    *)
(* out.  What the database keeps and what each device shows are different  *)
(* variables: devices learn of a change from answers and refetches.        *)
(***************************************************************************)
EXTENDS Integers, FiniteSetsExt, SequencesExt

CONSTANTS Devices,      \* screens of the wizard
          Rooms,        \* ids of rooms
          Steps,        \* the steps of the wizard, in order, "review" the last
          MaxChanges,   \* bound: saves, and photos and rooms that change
          MaxDecisions  \* bound: verdicts of an operator

ASSUME StepsAssumption == Last(Steps) = "review"

VARIABLES given,     \* the details of the property that are not null
          photos,    \* whether it has a photo
          rooms, active,             \* the rooms there are, and those in service
          status, reason,            \* reason: whether a rejection reason is set
          device,    \* [Devices -> what a screen shows and awaits]
          changes, decisions,        \* counters
          sinceCheck                 \* something changed after the last check passed

content  == <<given, photos, rooms, active>>
counters == <<changes, decisions, sinceCheck>>
vars == <<content, status, reason, device, counters>>

-----------------------------------------------------------------------------
(* The details, by the step that saves them.  "gst" is gstEnabled.         *)

BasicsStep     == {"description"}
LocationStep   == {"pin", "address"}
StayStep       == {"times", "mealPlan"}
HouseStep      == {"house"}
ComplianceStep == {"gst", "gstin"}

SliceOf(step) == CASE step = "basics" -> BasicsStep
                   [] step = "location" -> LocationStep
                   [] step = "stay" -> StayStep
                   [] step = "house" -> HouseStep
                   [] step = "compliance" -> ComplianceStep
                   [] OTHER -> {}
SavingSteps == {"basics", "location", "stay", "house", "compliance"}
Details     == UNION {SliceOf(s) : s \in SavingSteps}

Required(g) == {"description", "pin", "address", "times", "mealPlan"}
               \cup {f \in {"gstin"} : "gst" \in g}

\* mutant: a GSTIN is never asked for
MissingNoGstin(g, hasPhotos, hasRooms) ==
    (Required({}) \ g) \cup {f \in {"photos"} : ~hasPhotos}
                       \cup {f \in {"rooms"} : ~hasRooms}

\* missingRequiredFields; photos and rooms stand for themselves.
Missing(g, hasPhotos, hasRooms) ==
    (Required(g) \ g) \cup {f \in {"photos"} : ~hasPhotos}
                      \cup {f \in {"rooms"} : ~hasRooms}

NotInTheQueue(s) == s # "PENDING_REVIEW"    \* mutant: a published one may be sent in

SUBMITTABLE_STATUSES(s) == s \in {"DRAFT", "REJECTED"}

\* toDetail: what an answer says of the property, as far as the wizard acts on it.
Detail == [status |-> status, missing |-> Missing(given, photos, active # {})]

-----------------------------------------------------------------------------
Overview == 0
Idle == [kind |-> "none"]

\* PropertySetupForm, from the property the page was rendered with.
Screen == [step |-> IF status = "DRAFT" THEN 1 ELSE Overview,
           opensAsOverview |-> status # "DRAFT", seen |-> Detail,
           update |-> Idle, submit |-> Idle]

Init ==
    /\ given \in {g \in SUBSET Details :
                    Details \ UNION {SliceOf(Steps[i]) : i \in DOMAIN Steps} \subseteq g}
    /\ photos \in BOOLEAN
    /\ rooms \in SUBSET Rooms /\ active = rooms
    /\ status = "DRAFT" /\ reason = FALSE
    /\ device = [d \in Devices |-> Screen]
    /\ changes = 0 /\ decisions = 0 /\ sinceCheck = FALSE

Touch == changes < MaxChanges /\ changes' = changes + 1 /\ sinceCheck' = TRUE
Database == <<content, status, reason, counters>>
Show(d, f, v) == device' = [device EXCEPT ![d][f] = v]

-----------------------------------------------------------------------------
(* The wizard.                                                             *)

Step(d)  == Steps[device[d].step]
Quiet(d) == device[d].update = Idle /\ device[d].submit = Idle

\* The page is opened anew: what was typed and not saved is gone.  (A request of
\* the old page that is still to reach the API is one of another device.)
Open(d) == Quiet(d) /\ device' = [device EXCEPT ![d] = Screen] /\ UNCHANGED Database

EditSection(d) == /\ device[d].step = Overview
                  /\ \E i \in 1 .. Len(Steps) - 1 : Show(d, "step", i)
                  /\ UNCHANGED Database

ToOverview(d) == /\ device[d].opensAsOverview /\ device[d].step # Overview
                 /\ Show(d, "step", Overview) /\ UNCHANGED Database

Back(d) == /\ device[d].step > 1 /\ Show(d, "step", device[d].step - 1)
           /\ UNCHANGED Database

\* The photos step saves as the host acts; its footer only moves on.
ContinueFromPhotos(d) ==
    /\ device[d].step # Overview /\ Step(d) = "photos"
    /\ Show(d, "step", device[d].step + 1) /\ UNCHANGED Database

\* A step saves the whole of its slice, and nothing else.
PressSave(d) ==
    /\ device[d].step # Overview /\ Step(d) \in SavingSteps
    /\ device[d].update = Idle
    /\ \E values \in SUBSET SliceOf(Step(d)) :
          Show(d, "update", [kind |-> "save", step |-> device[d].step, values |-> values])
    /\ UNCHANGED Database

IsSubmittableByStatus(seen) == SUBMITTABLE_STATUSES(seen.status)    \* mutant

\* A tap on an enabled button: the screen's copy decides that.
IsSubmittable(seen) == SUBMITTABLE_STATUSES(seen.status) /\ seen.missing = {}

PressSubmit(d) ==
    /\ \/ device[d].step = Overview
       \/ device[d].step # Overview /\ Step(d) = "review"
    /\ device[d].submit = Idle /\ IsSubmittable(device[d].seen)
    /\ Show(d, "submit", [kind |-> "submit", shown |-> device[d].seen])
    /\ UNCHANGED Database

\* The query behind the screen refetches when the window is focused.  (An answer
\* that is late leaves an old copy on the screen, as no refetch at all does.)
Refetch(d) == Show(d, "seen", Detail) /\ UNCHANGED Database

-----------------------------------------------------------------------------
(* The API.                                                                *)

\* update: one statement, whatever the status.
Update(d) ==
    LET r == device[d].update IN
    /\ r.kind = "save" /\ Touch
    /\ given' = (given \ SliceOf(Steps[r.step])) \cup r.values
    /\ UNCHANGED <<photos, rooms, active, status, reason, decisions>>
    /\ Show(d, "update", [kind |-> "answer", step |-> r.step, detail |-> Detail'])

\* submitForReview reads the property and what is counted with it ...
Check(d) ==
    /\ device[d].submit.kind = "submit"
    /\ IF SUBMITTABLE_STATUSES(status) /\ Missing(given, photos, active # {}) = {}
       THEN /\ Show(d, "submit", [kind |-> "checked", decisions |-> decisions])
            /\ sinceCheck' = FALSE
       ELSE /\ Show(d, "submit", [kind |-> "refused"])
            /\ UNCHANGED sinceCheck
    /\ UNCHANGED <<content, status, reason, changes, decisions>>

\* ... and then writes the row, which may have changed: READ COMMITTED.
Enqueue(d) ==
    /\ device[d].submit.kind = "checked"
    /\ status' = "PENDING_REVIEW" /\ reason' = FALSE
    /\ Show(d, "submit", [kind |-> "written"])
    /\ UNCHANGED <<content, counters>>

\* findById, after the transaction.
ReadBack(d) ==
    /\ device[d].submit.kind = "written"
    /\ Show(d, "submit", [kind |-> "answer", detail |-> Detail])
    /\ UNCHANGED Database

\* onSuccess writes the answer into the query; a save then moves to the step after
\* the one it was sent from, wherever the host is by now.
Saved(d) ==
    /\ device[d].update.kind = "answer"
    /\ device' = [device EXCEPT ![d].seen = device[d].update.detail, ![d].update = Idle,
                                ![d].step = device[d].update.step + 1]
    /\ UNCHANGED Database

Submitted(d) ==
    /\ device[d].submit.kind = "answer"
    /\ device' = [device EXCEPT ![d].seen = device[d].submit.detail, ![d].submit = Idle]
    /\ UNCHANGED Database

\* A refusal, or an answer that never came: the screen stays as it is.
Failed(d) ==
    /\ \/ device[d].update.kind = "answer" /\ Show(d, "update", Idle)
       \/ device[d].submit.kind \in {"refused", "answer"} /\ Show(d, "submit", Idle)
    /\ UNCHANGED Database

-----------------------------------------------------------------------------
(* Around it.                                                              *)

Decide == /\ status = "PENDING_REVIEW" /\ decisions < MaxDecisions
          /\ \/ status' = "PUBLISHED" /\ reason' = FALSE
             \/ status' = "REJECTED" /\ reason' = TRUE
          /\ decisions' = decisions + 1
          /\ UNCHANGED <<content, device, changes, sinceCheck>>

PhotosChange == /\ Touch /\ photos' = ~photos
                /\ UNCHANGED <<given, rooms, active, status, reason, device, decisions>>

\* create of rooms, the moment its row is inserted (RoomLocks has what precedes it).
CreateRoom(r) == /\ r \notin rooms /\ Touch
                 /\ rooms' = rooms \cup {r} /\ active' = active \cup {r}
                 /\ UNCHANGED <<given, photos, status, reason, device, decisions>>

SetActive(r) == /\ r \in rooms /\ Touch
                /\ active' = SymDiff(active, {r})
                /\ UNCHANGED <<given, photos, rooms, status, reason, device, decisions>>

RemoveRoom(r) == /\ r \in rooms /\ Touch
                 /\ rooms' = rooms \ {r}
                 /\ active' = active \ {r}
                 /\ UNCHANGED <<given, photos, status, reason, device, decisions>>

-----------------------------------------------------------------------------
Wizard(d) == \/ Open(d) \/ EditSection(d) \/ ToOverview(d) \/ Back(d)
             \/ ContinueFromPhotos(d) \/ PressSave(d) \/ PressSubmit(d)
             \/ Refetch(d) \/ Saved(d) \/ Submitted(d) \/ Failed(d)
Api(d)    == Update(d) \/ Check(d) \/ Enqueue(d) \/ ReadBack(d)

Next == \/ \E d \in Devices : Wizard(d) \/ Api(d)
        \/ \E r \in Rooms : CreateRoom(r) \/ SetActive(r) \/ RemoveRoom(r)
        \/ PhotosChange \/ Decide

Spec == Init /\ [][Next]_vars
-----------------------------------------------------------------------------
(* Properties.                                                             *)

\* An operator finds a property in the queue that lacks something only if it was
\* changed after a check passed: submitForReview lets no incomplete one in itself.
QueuedOnesWereComplete ==
    status = "PENDING_REVIEW" /\ ~sinceCheck =>
        /\ {"description", "pin", "address", "times", "mealPlan"} \subseteq given
        /\ "gst" \in given => "gstin" \in given
        /\ photos /\ active # {}

\* A verdict is taken back only by a submission whose check ran before it: the
\* check and the write of submitForReview are apart, and nothing else undoes it.
VerdictsStand ==
    [][status = "PUBLISHED" /\ status' # "PUBLISHED" =>
          \E d \in Devices : /\ device[d].submit.kind = "checked"
                             /\ device[d].submit.decisions < decisions]_vars

\* A host whose screen shows the property as it is, is not refused: the wizard's
\* button and the API's check agree on what may be sent in.
RefusalsAreNews ==
    [][\A d \in Devices :
          device[d].submit.kind = "submit" /\ device'[d].submit.kind = "refused" =>
              device[d].submit.shown # Detail]_vars
=============================================================================
