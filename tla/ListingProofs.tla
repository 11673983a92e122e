--------------------------- MODULE ListingProofs ---------------------------
(***************************************************************************)
(* What holds of Listing for any number of screens and rooms, any order of *)
(* the wizard's steps and without the bounds of the runs.                  *)
(***************************************************************************)
EXTENDS Listing, TLAPS

IsChecked(d) == device[d].submit.kind = "checked"

Complete == Missing(given, photos, active # {}) = {}

\* A screen has a request to submit, or none.
ScreensOK == /\ DOMAIN device = Devices /\ decisions \in Nat
             /\ \A d \in Devices : {"submit", "update", "seen", "step"} \subseteq DOMAIN device[d]

\* A tap is sent from a copy that could be submitted.
TapsOK == \A d \in Devices :
    device[d].submit.kind = "submit" => IsSubmittable(device[d].submit.shown)

\* A submission that passed its check, and no verdict came since, has no published
\* property before it.
ChecksOK == \A d \in Devices : IsChecked(d) =>
    /\ device[d].submit.decisions \in Nat /\ device[d].submit.decisions <= decisions
    /\ device[d].submit.decisions = decisions => status # "PUBLISHED"

\* What was let in, or is about to be, was complete when it was checked.
QueueOK == (status # "DRAFT" \/ \E d \in Devices : IsChecked(d)) /\ ~sinceCheck => Complete

IInv == ScreensOK /\ TapsOK /\ ChecksOK /\ QueueOK

-----------------------------------------------------------------------------
LEMMA InitIsFine == Init => IInv
<1> SUFFICES ASSUME Init PROVE IInv
  OBVIOUS
<1>1. \A d \in Devices : device[d] = Screen
  BY DEF Init
<1>2. {"submit", "update", "seen", "step"} \subseteq DOMAIN Screen /\ Screen.submit.kind = "none"
  BY DEF Screen, Idle
<1> QED
  BY <1>1, <1>2 DEF Init, IInv, ScreensOK, TapsOK, ChecksOK, QueueOK, IsChecked

\* One field of one screen changes.
LEMMA ShowKeepsScreens ==
    ASSUME ScreensOK, NEW d \in Devices, NEW f \in {"submit", "update", "seen", "step"}, NEW v,
           Show(d, f, v)
    PROVE  /\ DOMAIN device' = Devices
           /\ \A e \in Devices : {"submit", "update", "seen", "step"} \subseteq DOMAIN device'[e]
           /\ device'[d].submit = IF f = "submit" THEN v ELSE device[d].submit
           /\ \A e \in Devices \ {d} : device'[e] = device[e]
<1>1. device'[d] = [device[d] EXCEPT ![f] = v]
  BY DEF Show, ScreensOK
<1>2. DOMAIN device'[d] = DOMAIN device[d]
  BY <1>1
<1>3. device'[d].submit = IF f = "submit" THEN v ELSE device[d].submit
  BY <1>1 DEF ScreensOK
<1>4. DOMAIN device' = Devices /\ \A e \in Devices \ {d} : device'[e] = device[e]
  BY DEF Show, ScreensOK
<1> QED
  BY <1>2, <1>3, <1>4 DEF ScreensOK

\* Nothing new is asked of the API or checked: the screens' other doings are theirs.
LEMMA OwnDoingsAreFine ==
    ASSUME IInv, ScreensOK', UNCHANGED Database,
           \A e \in Devices : \/ device'[e].submit = device[e].submit
                              \/ device'[e].submit.kind \notin {"submit", "checked"}
    PROVE  IInv'
<1>1. TapsOK'
  BY DEF IInv, TapsOK, IsSubmittable, SUBMITTABLE_STATUSES
<1>2. ChecksOK'
  BY DEF IInv, ChecksOK, IsChecked, Database, counters
<1>3. QueueOK'
  BY DEF IInv, QueueOK, IsChecked, Complete, Missing, Required, Database, content, counters
<1> QED
  BY <1>1, <1>2, <1>3 DEF IInv

LEMMA ShownIsFine ==
    ASSUME IInv, NEW d \in Devices, NEW f \in {"submit", "update", "seen", "step"}, NEW v,
           Show(d, f, v), UNCHANGED Database,
           f = "submit" => v.kind \notin {"submit", "checked"}
    PROVE  IInv'
<1>1. ScreensOK'
  BY ShowKeepsScreens DEF IInv, ScreensOK, Database, counters
<1>2. \A e \in Devices : \/ device'[e].submit = device[e].submit
                         \/ device'[e].submit.kind \notin {"submit", "checked"}
  BY ShowKeepsScreens DEF IInv
<1> QED
  BY <1>1, <1>2, OwnDoingsAreFine

LEMMA WizardIsFine == ASSUME IInv, NEW d \in Devices, Wizard(d) PROVE IInv'
<1>1. CASE Open(d)
  <2>1. device'[d] = Screen /\ DOMAIN device' = Devices
        /\ \A e \in Devices \ {d} : device'[e] = device[e]
    BY <1>1 DEF Open, IInv, ScreensOK
  <2>2. {"submit", "update", "seen", "step"} \subseteq DOMAIN Screen
        /\ Screen.submit.kind = "none"
    BY DEF Screen, Idle
  <2>3. UNCHANGED Database
    BY <1>1 DEF Open
  <2>4. ScreensOK'
    BY <2>1, <2>2, <2>3 DEF IInv, ScreensOK, Database, counters
  <2> QED
    BY <2>1, <2>2, <2>3, <2>4, OwnDoingsAreFine
<1>2. CASE EditSection(d) \/ ToOverview(d) \/ Back(d) \/ ContinueFromPhotos(d)
  BY <1>2, ShownIsFine DEF EditSection, ToOverview, Back, ContinueFromPhotos
<1>3. CASE PressSave(d) \/ Refetch(d)
  BY <1>3, ShownIsFine DEF PressSave, Refetch
<1>4. CASE PressSubmit(d)
  <2> DEFINE tap == [kind |-> "submit", shown |-> device[d].seen]
  <2>1. Show(d, "submit", tap) /\ UNCHANGED Database /\ IsSubmittable(tap.shown)
    BY <1>4 DEF PressSubmit
  <2>2. tap.kind = "submit"
    OBVIOUS
  <2> HIDE DEF tap
  <2>3. device'[d].submit = tap /\ \A e \in Devices \ {d} : device'[e] = device[e]
    BY <2>1, ShowKeepsScreens DEF IInv
  <2>4. ScreensOK'
    BY <2>1, ShowKeepsScreens DEF IInv, ScreensOK, Database, counters
  <2>5. TapsOK'
    BY <2>1, <2>3 DEF IInv, TapsOK, IsSubmittable, SUBMITTABLE_STATUSES
  <2>6. ChecksOK'
    BY <2>1, <2>2, <2>3 DEF IInv, ChecksOK, IsChecked, Database, counters
  <2>7. QueueOK'
    BY <2>1, <2>2, <2>3
    DEF IInv, QueueOK, IsChecked, Complete, Missing, Required, Database, content, counters
  <2> QED
    BY <2>4, <2>5, <2>6, <2>7 DEF IInv
<1>5. CASE Saved(d)
  <2>1. /\ DOMAIN device' = Devices /\ DOMAIN device'[d] = DOMAIN device[d]
        /\ device'[d].submit = device[d].submit
        /\ \A e \in Devices \ {d} : device'[e] = device[e]
    BY <1>5 DEF Saved, IInv, ScreensOK
  <2>2. UNCHANGED Database
    BY <1>5 DEF Saved
  <2>3. ScreensOK'
    BY <2>1, <2>2 DEF IInv, ScreensOK, Database, counters
  <2> QED
    BY <2>1, <2>2, <2>3, OwnDoingsAreFine
<1>6. CASE Submitted(d)
  <2>1. /\ DOMAIN device' = Devices /\ DOMAIN device'[d] = DOMAIN device[d]
        /\ device'[d].submit = Idle
        /\ \A e \in Devices \ {d} : device'[e] = device[e]
    BY <1>6 DEF Submitted, IInv, ScreensOK
  <2>2. UNCHANGED Database
    BY <1>6 DEF Submitted
  <2>3. ScreensOK'
    BY <2>1, <2>2 DEF IInv, ScreensOK, Database, counters
  <2>4. Idle.kind = "none"
    BY DEF Idle
  <2> QED
    BY <2>1, <2>2, <2>3, <2>4, OwnDoingsAreFine
<1>7. CASE Failed(d)
  <2>1. Idle.kind = "none"
    BY DEF Idle
  <2> QED
    BY <1>7, <2>1, ShownIsFine DEF Failed
<1> QED
  BY <1>1, <1>2, <1>3, <1>4, <1>5, <1>6, <1>7 DEF Wizard

\* Content that changes says so; a verdict, a row or a photo is not a screen's.
LEMMA TouchedIsFine ==
    ASSUME IInv, ScreensOK', sinceCheck' = TRUE, UNCHANGED <<status, decisions>>,
           \A e \in Devices : device'[e].submit = device[e].submit
    PROVE  IInv'
<1>1. TapsOK'
  BY DEF IInv, TapsOK, IsSubmittable, SUBMITTABLE_STATUSES
<1>2. ChecksOK'
  BY DEF IInv, ChecksOK, IsChecked
<1>3. QueueOK'
  BY DEF QueueOK
<1> QED
  BY <1>1, <1>2, <1>3 DEF IInv

LEMMA CheckIsFine == ASSUME IInv, NEW d \in Devices, Check(d) PROVE IInv'
<1>1. UNCHANGED <<content, status, reason, changes, decisions>>
  BY DEF Check
<1>2. CASE /\ SUBMITTABLE_STATUSES(status) /\ Complete
           /\ Show(d, "submit", [kind |-> "checked", decisions |-> decisions])
           /\ sinceCheck' = FALSE
  <2> DEFINE checked == [kind |-> "checked", decisions |-> decisions]
  <2>1. checked.kind = "checked" /\ checked.decisions = decisions
    OBVIOUS
  <2>2. Show(d, "submit", checked)
    BY <1>2
  <2> HIDE DEF checked
  <2>3. device'[d].submit = checked /\ \A e \in Devices \ {d} : device'[e] = device[e]
    BY <2>2, ShowKeepsScreens DEF IInv
  <2>4. ScreensOK'
    BY <1>1, <2>2, ShowKeepsScreens DEF IInv, ScreensOK
  <2>5. TapsOK'
    BY <2>1, <2>3 DEF IInv, TapsOK, IsSubmittable, SUBMITTABLE_STATUSES
  <2>6. status # "PUBLISHED"
    BY <1>2 DEF SUBMITTABLE_STATUSES
  <2>7. ChecksOK'
    BY <1>1, <2>1, <2>3, <2>6 DEF IInv, ChecksOK, IsChecked, ScreensOK
  <2>8. QueueOK'
    BY <1>1, <1>2 DEF QueueOK, Complete, Missing, Required, content
  <2> QED
    BY <2>4, <2>5, <2>7, <2>8 DEF IInv
<1>3. CASE Show(d, "submit", [kind |-> "refused"]) /\ UNCHANGED sinceCheck
  <2>1. UNCHANGED Database
    BY <1>1, <1>3 DEF Database, counters
  <2> QED
    BY <1>3, <2>1, ShownIsFine
<1> QED
  BY <1>2, <1>3 DEF Check, Complete

LEMMA EnqueueIsFine == ASSUME IInv, NEW d \in Devices, Enqueue(d) PROVE IInv'
<1> DEFINE written == [kind |-> "written"]
<1>1. written.kind = "written" /\ Show(d, "submit", written)
  BY DEF Enqueue
<1> HIDE DEF written
<1>2. device'[d].submit = written /\ \A e \in Devices \ {d} : device'[e] = device[e]
  BY <1>1, ShowKeepsScreens DEF IInv
<1>3. UNCHANGED <<content, counters>> /\ status' = "PENDING_REVIEW"
  BY DEF Enqueue
<1>4. ScreensOK'
  BY <1>1, <1>3, ShowKeepsScreens DEF IInv, ScreensOK, counters
<1>5. TapsOK'
  BY <1>1, <1>2 DEF IInv, TapsOK, IsSubmittable, SUBMITTABLE_STATUSES
<1>6. ChecksOK'
  BY <1>1, <1>2, <1>3 DEF IInv, ChecksOK, IsChecked, counters
<1>7. QueueOK'
  BY <1>1, <1>2, <1>3
  DEF IInv, QueueOK, IsChecked, Complete, Missing, Required, content, counters, Enqueue
<1> QED
  BY <1>4, <1>5, <1>6, <1>7 DEF IInv

LEMMA ApiIsFine == ASSUME IInv, NEW d \in Devices, Api(d) PROVE IInv'
<1>1. CASE Update(d)
  <2>1. /\ sinceCheck' = TRUE /\ UNCHANGED <<status, decisions>>
        /\ Show(d, "update", [kind |-> "answer", step |-> device[d].update.step,
                              detail |-> Detail'])
    BY <1>1 DEF Update, Touch
  <2>2. ScreensOK' /\ \A e \in Devices : device'[e].submit = device[e].submit
    BY <2>1, ShowKeepsScreens DEF IInv, ScreensOK
  <2> QED
    BY <2>1, <2>2, TouchedIsFine
<1>2. CASE ReadBack(d)
  BY <1>2, ShownIsFine DEF ReadBack
<1> QED
  BY <1>1, <1>2, CheckIsFine, EnqueueIsFine DEF Api

LEMMA NextIsFine == IInv /\ [Next]_vars => IInv'
<1> SUFFICES ASSUME IInv, [Next]_vars PROVE IInv'
  OBVIOUS
<1>1. ASSUME UNCHANGED device, UNCHANGED <<status, decisions>>, sinceCheck' = TRUE PROVE IInv'
  BY <1>1, TouchedIsFine DEF IInv, ScreensOK
<1>2. ASSUME UNCHANGED <<content, status, device, counters>> PROVE IInv'
  BY <1>2 DEF IInv, ScreensOK, TapsOK, IsSubmittable, SUBMITTABLE_STATUSES, ChecksOK, IsChecked,
              QueueOK, Complete, Missing, Required, content, counters
<1>3. CASE Decide
  <2>1. /\ UNCHANGED <<content, device, sinceCheck>> /\ decisions' = decisions + 1
        /\ status = "PENDING_REVIEW"
    BY <1>3 DEF Decide
  <2>2. ScreensOK' /\ TapsOK'
    BY <2>1 DEF IInv, ScreensOK, TapsOK, IsSubmittable, SUBMITTABLE_STATUSES
  <2>3. ChecksOK'
    BY <2>1 DEF IInv, ScreensOK, ChecksOK, IsChecked
  <2>4. QueueOK'
    BY <2>1 DEF IInv, QueueOK, IsChecked, Complete, Missing, Required, content
  <2> QED
    BY <2>2, <2>3, <2>4 DEF IInv
<1>4. CASE PhotosChange
  BY <1>1, <1>4 DEF PhotosChange, Touch
<1>5. ASSUME NEW r \in Rooms, CreateRoom(r) \/ SetActive(r) \/ RemoveRoom(r) PROVE IInv'
  BY <1>1, <1>5 DEF CreateRoom, SetActive, RemoveRoom, Touch
<1>6. CASE UNCHANGED vars
  BY <1>2, <1>6 DEF vars
<1> QED
  BY <1>3, <1>4, <1>5, <1>6, WizardIsFine, ApiIsFine DEF Next

-----------------------------------------------------------------------------
\* What a screen sent, what a check saw and what the queue holds, together.
THEOREM Invariance == Spec => []IInv
  BY InitIsFine, NextIsFine, PTL DEF Spec

\* What an operator finds in the queue was complete when it was checked, whatever
\* number of screens, rooms and photos change around it.
THEOREM QueuedOnesWereAllComplete == Spec => []QueuedOnesWereComplete
<1>1. IInv => QueuedOnesWereComplete
  BY DEF IInv, QueueOK, Complete, Missing, Required, QueuedOnesWereComplete
<1> QED
  BY <1>1, Invariance, PTL
\* The status is written by a check that passed and by an operator's verdict alone.
LEMMA TakenBackByACheck ==
    ASSUME IInv, [Next]_vars, status = "PUBLISHED", status' # "PUBLISHED"
    PROVE  \E d \in Devices : /\ device[d].submit.kind = "checked"
                              /\ device[d].submit.decisions < decisions
<1>1. ASSUME NEW d \in Devices, Wizard(d) PROVE FALSE
  BY <1>1 DEF Wizard, Open, EditSection, ToOverview, Back, ContinueFromPhotos, PressSave,
              PressSubmit, Refetch, Saved, Submitted, Failed, Database
<1>2. ASSUME NEW d \in Devices, Update(d) \/ Check(d) \/ ReadBack(d) PROVE FALSE
  BY <1>2 DEF Update, Check, ReadBack, Database
<1>3. ASSUME NEW d \in Devices, Enqueue(d)
      PROVE  device[d].submit.kind = "checked" /\ device[d].submit.decisions < decisions
  BY <1>3 DEF Enqueue, IInv, ScreensOK, ChecksOK, IsChecked
<1>4. ~Decide
  BY DEF Decide
<1>5. ASSUME PhotosChange \/ UNCHANGED vars PROVE FALSE
  BY <1>5 DEF PhotosChange, vars
<1>6. ASSUME NEW r \in Rooms, CreateRoom(r) \/ SetActive(r) \/ RemoveRoom(r) PROVE FALSE
  BY <1>6 DEF CreateRoom, SetActive, RemoveRoom
<1> QED
  BY <1>1, <1>2, <1>3, <1>4, <1>5, <1>6 DEF Next, Api

\* A verdict is taken back only by a submission that was checked before it.
THEOREM VerdictsAlwaysStand == Spec => VerdictsStand
<1>1. IInv /\ [Next]_vars =>
        (status = "PUBLISHED" /\ status' # "PUBLISHED" =>
            \E d \in Devices : /\ device[d].submit.kind = "checked"
                               /\ device[d].submit.decisions < decisions)
  BY TakenBackByACheck
<1> QED
  BY <1>1, Invariance, PTL DEF Spec, VerdictsStand
Refused(d) == device[d].submit.kind = "submit" /\ device'[d].submit.kind = "refused"

\* Only a check that finds something amiss refuses.
LEMMA RefusedByACheck ==
    ASSUME IInv, [Next]_vars, NEW d \in Devices, Refused(d)
    PROVE  ~IsSubmittable(Detail)
<1>1. device'[d].submit # device[d].submit
  BY DEF Refused
<1>2. ASSUME NEW e \in Devices, Wizard(e) PROVE FALSE
  <2>1. CASE Open(e)
    <3>1. device'[e].submit.kind = "none" /\ \A x \in Devices \ {e} : device'[x] = device[x]
      BY <2>1 DEF Open, Screen, Idle, IInv, ScreensOK
    <3> QED
      BY <3>1, <1>1 DEF Refused
  <2>2. CASE EditSection(e) \/ ToOverview(e) \/ Back(e) \/ ContinueFromPhotos(e)
    BY <2>2, <1>1, ShowKeepsScreens DEF EditSection, ToOverview, Back, ContinueFromPhotos, IInv
  <2>3. CASE PressSave(e) \/ Refetch(e)
    BY <2>3, <1>1, ShowKeepsScreens DEF PressSave, Refetch, IInv
  <2>4. CASE PressSubmit(e)
    <3>1. device[e].submit.kind = "none" /\ \A x \in Devices \ {e} : device'[x] = device[x]
      BY <2>4, ShowKeepsScreens DEF PressSubmit, Idle, IInv
    <3> QED
      BY <3>1, <1>1 DEF Refused
  <2>5. CASE Saved(e)
    BY <2>5, <1>1 DEF Saved, IInv, ScreensOK
  <2>6. CASE Submitted(e)
    <3>1. device[e].submit.kind = "answer" /\ \A x \in Devices \ {e} : device'[x] = device[x]
      BY <2>6 DEF Submitted, IInv, ScreensOK
    <3> QED
      BY <3>1, <1>1 DEF Refused
  <2>7. CASE Failed(e)
    <3>1. CASE Show(e, "update", Idle)
      BY <3>1, <1>1, ShowKeepsScreens DEF IInv
    <3>2. CASE device[e].submit.kind \in {"refused", "answer"} /\ Show(e, "submit", Idle)
      <4>1. \A x \in Devices \ {e} : device'[x] = device[x]
        BY <3>2, ShowKeepsScreens DEF IInv
      <4> QED
        BY <3>2, <4>1, <1>1 DEF Refused
    <3> QED
      BY <2>7, <3>1, <3>2 DEF Failed
  <2> QED
    BY <1>2, <2>1, <2>2, <2>3, <2>4, <2>5, <2>6, <2>7 DEF Wizard
<1>3. ASSUME NEW e \in Devices, Update(e) \/ Enqueue(e) \/ ReadBack(e) PROVE FALSE
  <2>1. CASE Update(e)
    BY <2>1, <1>1, ShowKeepsScreens DEF Update, IInv
  <2>2. CASE Enqueue(e) \/ ReadBack(e)
    <3>1. /\ device[e].submit.kind \in {"checked", "written"}
          /\ \A x \in Devices \ {e} : device'[x] = device[x]
      BY <2>2, ShowKeepsScreens DEF Enqueue, ReadBack, IInv
    <3> QED
      BY <3>1, <1>1 DEF Refused
  <2> QED
    BY <1>3, <2>1, <2>2
<1>4. ASSUME NEW e \in Devices, Check(e) PROVE ~IsSubmittable(Detail)
  <2>1. e = d
    BY <1>1, <1>4, ShowKeepsScreens DEF Check, IInv
  <2>2. CASE SUBMITTABLE_STATUSES(status) /\ Missing(given, photos, active # {}) = {}
    <3>1. device'[d].submit = [kind |-> "checked", decisions |-> decisions]
      BY <1>4, <2>1, <2>2, ShowKeepsScreens DEF Check, IInv
    <3> QED
      BY <3>1 DEF Refused
  <2>3. CASE ~(SUBMITTABLE_STATUSES(status) /\ Missing(given, photos, active # {}) = {})
    BY <2>3 DEF IsSubmittable, Detail
  <2> QED
    BY <2>2, <2>3
<1>5. ASSUME UNCHANGED device PROVE FALSE
  BY <1>1, <1>5
<1>6. ASSUME PhotosChange \/ Decide PROVE FALSE
  BY <1>5, <1>6 DEF PhotosChange, Decide
<1>7. ASSUME NEW r \in Rooms, CreateRoom(r) \/ SetActive(r) \/ RemoveRoom(r) PROVE FALSE
  BY <1>5, <1>7 DEF CreateRoom, SetActive, RemoveRoom
<1> QED
  BY <1>2, <1>3, <1>4, <1>5, <1>6, <1>7 DEF Next, Api, vars

\* The button and the check agree: a screen that shows what there is, is let in.
THEOREM RefusalsAreAlwaysNews == Spec => RefusalsAreNews
<1>1. IInv /\ [Next]_vars =>
        \A d \in Devices :
            device[d].submit.kind = "submit" /\ device'[d].submit.kind = "refused" =>
                device[d].submit.shown # Detail
  BY RefusedByACheck DEF Refused, IInv, TapsOK
<1> QED
  BY <1>1, Invariance, PTL DEF Spec, RefusalsAreNews
=============================================================================
