--------------------------- MODULE GesturesProofs ---------------------------
(***************************************************************************)
(* What holds of Gestures on a grid of any size, with any number of        *)
(* pointers down at once.                                                  *)
(***************************************************************************)
EXTENDS Gestures, TLAPS

Cells == [roomId : Rooms, date : Int]
Runs  == [roomId : Rooms, from : Int, to : Int]

\* What the hook and the screen keep.
ShapesOK ==
    /\ month \in Int
    /\ at \in [Pointers -> Places \cup {Off, Up, Scrolling}]
    /\ pressedOn \in [Pointers -> Cells \cup {None}]
    /\ DOMAIN timers \subseteq Fingers /\ \A p \in DOMAIN timers : timers[p] \in Cells
    /\ anchor \in Cells \cup {None} /\ pending \in Runs \cup {None}

\* While no two pointers have met, the one that is down is the only one there is ...
OneAtATime ==
    ~crowded => \A p, q \in Pointers : at[p] # Up /\ at[q] # Up => p = q

\* ... its timer, if it waits for one, is the one the ref holds ...
TimerOfTheHeld ==
    ~crowded => \A p \in DOMAIN timers : /\ longPress = p /\ Held(p)
                                         /\ CellAt(at[p]) = timers[p]
                                         /\ timers[p] = pressedOn[p]

\* ... and the row that is armed, if one is, is the row it was put on.
ArmedOfTheHeld ==
    ~crowded /\ anchor # None =>
        /\ DOMAIN timers = {}
        /\ \E p \in Pointers : Held(p)
        /\ \A p \in Pointers : Held(p) => pressedOn[p] = anchor

IInv == /\ ShapesOK /\ RunHangsFromAnchor
        /\ OneAtATime /\ TimerOfTheHeld /\ ArmedOfTheHeld

-----------------------------------------------------------------------------
(* Cells and runs.                                                         *)

LEMMA PlacesDiffer == /\ Off \notin Places /\ Up \notin Places /\ Scrolling \notin Places
                      /\ Off # Up /\ Off # Scrolling /\ Up # Scrolling
  BY DEF Off, Up, Scrolling, Places

LEMMA CellsAreCells ==
    ASSUME month \in Int, NEW place \in Places
    PROVE  CellAt(place) \in Cells /\ CellAt(place) # None
<1>1. place[1] \in Rooms /\ place[2] \in Int
  BY DEF Places
<1>2. (month - 1) * Nights + place[2] \in Int
  BY <1>1, SizeAssumption
<1>3. CellAt(place) = [roomId |-> place[1], date |-> (month - 1) * Nights + place[2]]
  BY PlacesDiffer DEF CellAt
<1> QED
  BY <1>1, <1>2, <1>3, NoneAssumption DEF Cells

LEMMA OffIsNoCell == CellAt(Off) = None
  BY DEF CellAt

\* A run from a cell hangs from it.
LEMMA ExtendedHangs ==
    ASSUME NEW start \in Cells, NEW cell \in Cells, NEW now \in Runs,
           now.roomId = start.roomId, now.from <= now.to, start.date \in {now.from, now.to}
    PROVE  LET run == Extended(start, cell, now)
           IN  /\ run \in Runs /\ run # None
               /\ run.roomId = start.roomId /\ run.from <= run.to
               /\ start.date \in {run.from, run.to}
  BY NoneAssumption DEF Cells, Runs, Extended

LEMMA ArmedHangs ==
    ASSUME NEW cell \in Cells
    PROVE  LET run == Extended(cell, cell, None)
           IN  /\ run \in Runs /\ run # None
               /\ run.roomId = cell.roomId /\ run.from <= run.to
               /\ cell.date \in {run.from, run.to}
  BY NoneAssumption DEF Cells, Runs, Extended

LEMMA ArmIsFine ==
    ASSUME NEW cell \in Cells, Arm(cell)
    PROVE  /\ anchor' \in Cells /\ anchor' # None /\ pending' \in Runs
           /\ RunHangsFromAnchor'
  BY ArmedHangs, NoneAssumption DEF Arm, RunHangsFromAnchor, Cells

LEMMA DisarmIsFine ==
    ASSUME Disarm PROVE anchor' = None /\ pending' = None /\ RunHangsFromAnchor'
  BY DEF Disarm, RunHangsFromAnchor

\* The grid hears of a move: nothing is armed by it, and a timer is only called off.
LEMMA MovesAreFine ==
    ASSUME IInv, NEW place \in Places \cup {Off}, OnPointerMove(place)
    PROVE  /\ anchor' = anchor /\ pending' \in Runs \cup {None} /\ RunHangsFromAnchor'
           /\ DOMAIN timers' \subseteq DOMAIN timers
           /\ \A p \in DOMAIN timers' : timers'[p] = timers[p]
           /\ ~crowded => DOMAIN timers' = {}
<1>1. CASE anchor # None
  <2>1. /\ DOMAIN timers' = DOMAIN timers /\ UNCHANGED <<timers, anchor>>
        /\ anchor \in Cells /\ pending \in Runs
    BY <1>1 DEF OnPointerMove, DragOn, IInv, ShapesOK, RunHangsFromAnchor
  <2>2. pending' \in Runs /\ RunHangsFromAnchor'
    <3>1. CASE place = Off
      BY <1>1, <2>1, <3>1 DEF OnPointerMove, DragOn, IInv, RunHangsFromAnchor
    <3>2. CASE place # Off
      <4>1. CellAt(place) \in Cells
        BY <3>2, CellsAreCells DEF IInv, ShapesOK
      <4>2. pending' = Extended(anchor, CellAt(place), pending)
        BY <1>1, <3>2 DEF OnPointerMove, DragOn
      <4>3. /\ pending.roomId = anchor.roomId /\ pending.from <= pending.to
            /\ anchor.date \in {pending.from, pending.to}
        BY <1>1 DEF IInv, RunHangsFromAnchor
      <4> DEFINE run == Extended(anchor, CellAt(place), pending)
      <4>4. /\ run \in Runs /\ run # None /\ run.roomId = anchor.roomId
            /\ run.from <= run.to /\ anchor.date \in {run.from, run.to}
        BY <2>1, <4>1, <4>3, ExtendedHangs
      <4> HIDE DEF run
      <4> QED
        BY <1>1, <2>1, <4>2, <4>4 DEF run, RunHangsFromAnchor
    <3> QED
      BY <3>1, <3>2
  <2> QED
    BY <1>1, <2>1, <2>2 DEF IInv, ArmedOfTheHeld
<1>2. CASE anchor = None
  <2>1. timers' = Cancelled /\ UNCHANGED <<anchor, pending>>
    BY <1>2 DEF OnPointerMove
  <2>2. RunHangsFromAnchor' /\ pending' \in Runs \cup {None}
    BY <2>1 DEF IInv, ShapesOK, RunHangsFromAnchor
  <2> QED
    BY <2>1, <2>2 DEF Cancelled, Restrict, IInv, TimerOfTheHeld
<1> QED
  BY <1>1, <1>2
-----------------------------------------------------------------------------
(* Every event.                                                            *)

LEMMA InitIsFine == Init => IInv
<1> SUFFICES ASSUME Init PROVE IInv
  OBVIOUS
<1>1. DOMAIN timers = {} /\ anchor = None /\ pending = None
  BY DEF Init
<1>2. ShapesOK
  BY <1>1 DEF Init, ShapesOK
<1>3. RunHangsFromAnchor /\ OneAtATime /\ TimerOfTheHeld /\ ArmedOfTheHeld
  BY <1>1 DEF Init, RunHangsFromAnchor, OneAtATime, TimerOfTheHeld, ArmedOfTheHeld
<1> QED
  BY <1>2, <1>3 DEF IInv

\* Where the calendar comes to rest nothing is held, so nothing can be amiss.
LEMMA RestIsFine ==
    ASSUME AtRest PROVE OneAtATime' /\ TimerOfTheHeld' /\ ArmedOfTheHeld'
<1>1. DOMAIN timers' = {}
  BY DEF AtRest
<1> QED
  BY <1>1 DEF AtRest, OneAtATime, TimerOfTheHeld, ArmedOfTheHeld

LEMMA PressIsFine == ASSUME IInv, NEW p \in Pointers, Press(p) PROVE IInv'
<1> PICK place \in Places \cup {Off} :
    /\ at[p] = Up /\ p \notin DOMAIN timers
    /\ at' = [at EXCEPT ![p] = place] /\ Meets(p)
    /\ pressedOn' = [pressedOn EXCEPT ![p] = CellAt(place)]
    /\ IF place = Off THEN Clear
       ELSE /\ hasMoved' = FALSE
            /\ IF p = Mouse
               THEN Arm(CellAt(place)) /\ UNCHANGED <<timers, longPress>>
               ELSE /\ timers' = [q \in DOMAIN timers \cup {p} |->
                                     IF q = p THEN CellAt(place) ELSE timers[q]]
                    /\ longPress' = p
                    /\ UNCHANGED <<anchor, pending>>
    /\ UNCHANGED <<month, sheet>>
  BY DEF Press
<1>1. /\ at' \in [Pointers -> Places \cup {Off, Up, Scrolling}]
      /\ at'[p] = place /\ \A q \in Pointers \ {p} : at'[q] = at[q]
  BY DEF IInv, ShapesOK
<1>2. place # Off => CellAt(place) \in Cells /\ CellAt(place) # None
  BY CellsAreCells DEF IInv, ShapesOK
<1>3. /\ pressedOn' \in [Pointers -> Cells \cup {None}]
      /\ pressedOn'[p] = CellAt(place)
      /\ CellAt(place)' = CellAt(place) /\ month' \in Int
  BY <1>2, OffIsNoCell DEF IInv, ShapesOK, CellAt
\* With no other pointer down, nothing waits or is armed.
<1>4. ~crowded' => /\ ~crowded /\ \A q \in Pointers : at[q] = Up
  BY DEF Meets
<1>5. ~crowded' => DOMAIN timers = {} /\ anchor = None
  BY <1>4, PlacesDiffer DEF IInv, ShapesOK, TimerOfTheHeld, ArmedOfTheHeld, Held, Pointers
<1>6. OneAtATime'
  BY <1>1, <1>4 DEF OneAtATime
<1>7. Held(p)' /\ (~crowded' => \A q \in Pointers : Held(q)' => q = p)
  BY <1>1, <1>4, PlacesDiffer DEF Held
<1>8. CASE place = Off
  <2>1. timers' = Cancelled /\ Disarm
    BY <1>8 DEF Clear
  <2>2. /\ anchor' = None /\ pending' = None /\ RunHangsFromAnchor'
        /\ DOMAIN timers' \subseteq DOMAIN timers
        /\ \A q \in DOMAIN timers' : timers'[q] = timers[q]
    BY <2>1, DisarmIsFine DEF Cancelled, Restrict
  <2>3. ShapesOK'
    BY <1>1, <1>3, <2>2 DEF IInv, ShapesOK
  <2>4. TimerOfTheHeld' /\ ArmedOfTheHeld'
    BY <1>5, <2>2 DEF TimerOfTheHeld, ArmedOfTheHeld
  <2> QED
    BY <1>6, <2>2, <2>3, <2>4 DEF IInv
<1>9. CASE place # Off /\ p = Mouse
  <2>1. Arm(CellAt(place)) /\ UNCHANGED timers
    BY <1>9
  <2>2. anchor' = CellAt(place) /\ anchor' \in Cells /\ pending' \in Runs /\ RunHangsFromAnchor'
    BY <1>2, <1>9, <2>1, ArmIsFine DEF Arm
  <2>3. ShapesOK'
    BY <1>1, <1>3, <2>1, <2>2 DEF IInv, ShapesOK
  <2>4. TimerOfTheHeld' /\ ArmedOfTheHeld'
    BY <1>3, <1>5, <1>7, <2>1, <2>2 DEF TimerOfTheHeld, ArmedOfTheHeld
  <2> QED
    BY <1>6, <2>2, <2>3, <2>4 DEF IInv
<1>10. CASE place # Off /\ p # Mouse
  <2>1. /\ timers' = [q \in DOMAIN timers \cup {p} |->
                         IF q = p THEN CellAt(place) ELSE timers[q]]
        /\ longPress' = p /\ UNCHANGED <<anchor, pending>> /\ p \in Fingers
    BY <1>10 DEF Pointers
  <2>2. ShapesOK'
    BY <1>1, <1>2, <1>3, <1>10, <2>1 DEF IInv, ShapesOK
  <2>3. RunHangsFromAnchor'
    BY <2>1 DEF IInv, RunHangsFromAnchor
  <2>4. TimerOfTheHeld' /\ ArmedOfTheHeld'
    BY <1>1, <1>3, <1>5, <1>7, <2>1 DEF TimerOfTheHeld, ArmedOfTheHeld, CellAt
  <2> QED
    BY <1>6, <2>2, <2>3, <2>4 DEF IInv
<1> QED
  BY <1>8, <1>9, <1>10

LEMMA RestedIsFine == ASSUME IInv, NEW p \in Fingers, Rested(p) PROVE IInv'
<1>1. /\ p \in DOMAIN timers /\ timers[p] \in Cells
      /\ Arm(timers[p]) /\ UNCHANGED <<month, at, pressedOn, crowded>>
      /\ DOMAIN timers' = DOMAIN timers \ {p}
      /\ \A q \in DOMAIN timers' : timers'[q] = timers[q]
  BY DEF Rested, Restrict, IInv, ShapesOK
<1>2. anchor' = timers[p] /\ anchor' \in Cells /\ pending' \in Runs /\ RunHangsFromAnchor'
  BY <1>1, ArmIsFine DEF Arm
<1>3. ShapesOK'
  BY <1>1, <1>2 DEF IInv, ShapesOK
<1>4. OneAtATime'
  BY <1>1 DEF IInv, OneAtATime
<1>5. ~crowded => DOMAIN timers' = {}
  BY <1>1 DEF IInv, TimerOfTheHeld
<1>6. TimerOfTheHeld'
  BY <1>1, <1>5 DEF TimerOfTheHeld
<1>7. ASSUME ~crowded
      PROVE  /\ p \in Pointers /\ Held(p) /\ pressedOn[p] = timers[p]
             /\ \A q \in Pointers : Held(q) => q = p
  BY <1>1, <1>7, PlacesDiffer DEF IInv, ShapesOK, TimerOfTheHeld, OneAtATime, Held, Pointers
<1>8. ArmedOfTheHeld'
  BY <1>1, <1>2, <1>5, <1>7 DEF ArmedOfTheHeld, Held
<1> QED
  BY <1>2, <1>3, <1>4, <1>6, <1>8 DEF IInv

LEMMA MoveIsFine == ASSUME IInv, NEW p \in Pointers, Move(p) PROVE IInv'
<1> PICK place \in Places \cup {Off} :
    /\ Held(p) /\ at' = [at EXCEPT ![p] = place]
    /\ OnPointerMove(place)
    /\ UNCHANGED <<month, pressedOn, crowded>>
  BY DEF Move
<1>1. /\ anchor' = anchor /\ pending' \in Runs \cup {None} /\ RunHangsFromAnchor'
      /\ DOMAIN timers' \subseteq DOMAIN timers
      /\ \A q \in DOMAIN timers' : timers'[q] = timers[q]
      /\ ~crowded => DOMAIN timers' = {}
  BY MovesAreFine
<1>2. /\ at' \in [Pointers -> Places \cup {Off, Up, Scrolling}]
      /\ at'[p] = place /\ \A q \in Pointers \ {p} : at'[q] = at[q]
      /\ Held(p)'
  BY DEF IInv, ShapesOK, Held
<1>3. ShapesOK'
  BY <1>1, <1>2 DEF IInv, ShapesOK
<1>4. OneAtATime'
  BY <1>2, PlacesDiffer DEF IInv, OneAtATime, Held
<1>5. TimerOfTheHeld' /\ ArmedOfTheHeld'
  BY <1>1, <1>2 DEF IInv, TimerOfTheHeld, ArmedOfTheHeld, Held
<1> QED
  BY <1>1, <1>3, <1>4, <1>5 DEF IInv

LEMMA HoverIsFine == ASSUME IInv, Hover PROVE IInv'
<1> PICK place \in Places :
    OnPointerMove(place) /\ UNCHANGED <<month, at, pressedOn>> /\ Calms
  BY DEF Hover
<1>1. /\ anchor' = anchor /\ pending' \in Runs \cup {None} /\ RunHangsFromAnchor'
      /\ DOMAIN timers' \subseteq DOMAIN timers
      /\ \A q \in DOMAIN timers' : timers'[q] = timers[q]
      /\ ~crowded => DOMAIN timers' = {}
  BY MovesAreFine
<1>2. ShapesOK'
  BY <1>1 DEF IInv, ShapesOK
<1>3. CASE ~crowded
  BY <1>1, <1>2, <1>3
  DEF IInv, OneAtATime, TimerOfTheHeld, ArmedOfTheHeld, Held, Calms
<1>4. CASE AtRest
  BY <1>1, <1>2, <1>4, RestIsFine DEF IInv
<1> QED
  BY <1>1, <1>2, <1>3, <1>4 DEF Calms, IInv, OneAtATime, TimerOfTheHeld, ArmedOfTheHeld

\* A pointer goes and takes with it what waited for it or was armed.
LEMMA EndIsFine ==
    ASSUME IInv, NEW p \in Pointers, at[p] # Up, NEW there \in {Up, Scrolling},
           at' = [at EXCEPT ![p] = there], month' \in Int, Calms,
           timers' = Cancelled, Disarm,
           pressedOn' \in [Pointers -> Cells \cup {None}]
    PROVE  IInv'
<1>1. /\ at' \in [Pointers -> Places \cup {Off, Up, Scrolling}]
      /\ at'[p] = there /\ \A q \in Pointers \ {p} : at'[q] = at[q]
  BY DEF IInv, ShapesOK
<1>2. anchor' = None /\ pending' = None /\ RunHangsFromAnchor'
  BY DisarmIsFine
<1>3. /\ DOMAIN timers' \subseteq DOMAIN timers
      /\ \A q \in DOMAIN timers' : timers'[q] = timers[q]
      /\ ~crowded => DOMAIN timers' = {}
  BY DEF Cancelled, Restrict, IInv, TimerOfTheHeld
<1>4. ShapesOK'
  BY <1>1, <1>2, <1>3 DEF IInv, ShapesOK
<1>5. CASE ~crowded
  <2>1. OneAtATime'
    BY <1>1, <1>5 DEF IInv, OneAtATime
  <2> QED
    BY <1>2, <1>3, <1>4, <1>5, <2>1 DEF IInv, TimerOfTheHeld, ArmedOfTheHeld
<1>6. CASE AtRest
  BY <1>2, <1>4, <1>6, RestIsFine DEF IInv
<1> QED
  BY <1>2, <1>4, <1>5, <1>6 DEF Calms, IInv, OneAtATime, TimerOfTheHeld, ArmedOfTheHeld

LEMMA SwipesAreMonths == ASSUME IInv, NEW p \in Pointers, month' \in SwipeTo(p) PROVE month' \in Int
  BY SizeAssumption DEF IInv, ShapesOK, SwipeTo

LEMMA ForgottenIsFine ==
    ASSUME IInv, NEW p \in Pointers, Forget(p)
    PROVE  pressedOn' \in [Pointers -> Cells \cup {None}]
  BY DEF IInv, ShapesOK, Forget

LEMMA ReleaseIsFine == ASSUME IInv, NEW p \in Pointers, Release(p) PROVE IInv'
<1>1. at[p] # Up
  BY PlacesDiffer DEF Release, Held
<1> QED
  BY <1>1, EndIsFine, SwipesAreMonths, ForgottenIsFine DEF Release

LEMMA TakenOverIsFine == ASSUME IInv, NEW p \in Fingers, TakenOver(p) PROVE IInv'
<1>1. p \in Pointers /\ at[p] # Up
  BY PlacesDiffer DEF TakenOver, Held, Pointers
<1>2. month' \in Int /\ pressedOn' \in [Pointers -> Cells \cup {None}]
  BY DEF TakenOver, IInv, ShapesOK
<1> QED
  BY <1>1, <1>2, EndIsFine DEF TakenOver, Clear

\* A finger the browser had taken over left nothing armed and nothing waiting.
LEMMA LiftIsFine == ASSUME IInv, NEW p \in Fingers, Lift(p) PROVE IInv'
<1>1. p \in Pointers /\ at[p] = Scrolling /\ at[p] # Up /\ ~Held(p)
  BY PlacesDiffer DEF Lift, Held, Pointers
<1>2. /\ at' \in [Pointers -> Places \cup {Off, Up, Scrolling}]
      /\ at'[p] = Up /\ \A q \in Pointers \ {p} : at'[q] = at[q]
  BY <1>1 DEF Lift, IInv, ShapesOK
<1>3. UNCHANGED <<timers, longPress, anchor, pending>> /\ Calms
  BY DEF Lift
<1>4. ShapesOK'
  BY <1>1, <1>2, <1>3, SwipesAreMonths, ForgottenIsFine DEF IInv, ShapesOK, Lift
<1>5. RunHangsFromAnchor'
  BY <1>3 DEF IInv, RunHangsFromAnchor
<1>6. CASE ~crowded
  <2>1. \A q \in Pointers : ~Held(q)
    BY <1>1, <1>6, PlacesDiffer DEF IInv, OneAtATime, Held
  <2>2. DOMAIN timers = {} /\ anchor = None
    BY <1>6, <2>1 DEF IInv, ShapesOK, TimerOfTheHeld, ArmedOfTheHeld, Pointers
  <2>3. OneAtATime'
    BY <1>2, <1>6 DEF IInv, OneAtATime
  <2> QED
    BY <1>3, <1>4, <1>5, <2>2, <2>3 DEF IInv, TimerOfTheHeld, ArmedOfTheHeld
<1>7. CASE AtRest
  BY <1>4, <1>5, <1>7, RestIsFine DEF IInv
<1> QED
  BY <1>3, <1>4, <1>5, <1>6, <1>7
  DEF Calms, IInv, OneAtATime, TimerOfTheHeld, ArmedOfTheHeld

LEMMA GoToMonthIsFine == ASSUME IInv, GoToMonth PROVE IInv'
<1>1. UNCHANGED <<at, timers, longPress, anchor, pending, pressedOn>> /\ month' \in Int
  BY SizeAssumption DEF GoToMonth
<1>2. ShapesOK' /\ RunHangsFromAnchor'
  BY <1>1 DEF IInv, ShapesOK, RunHangsFromAnchor
<1>3. ASSUME ~crowded' PROVE ~crowded /\ DOMAIN timers = {} /\ anchor = None
  <2>1. ~crowded /\ \A q \in Pointers : at[q] = Up
    BY <1>3 DEF GoToMonth
  <2> QED
    BY <2>1, PlacesDiffer DEF IInv, ShapesOK, TimerOfTheHeld, ArmedOfTheHeld, Held, Pointers
<1>4. OneAtATime' /\ TimerOfTheHeld' /\ ArmedOfTheHeld'
  BY <1>1, <1>3 DEF IInv, OneAtATime, TimerOfTheHeld, ArmedOfTheHeld
<1> QED
  BY <1>2, <1>4 DEF IInv

LEMMA NextIsFine == IInv /\ [Next]_vars => IInv'
<1> SUFFICES ASSUME IInv, [Next]_vars PROVE IInv'
  OBVIOUS
<1>1. CASE Close \/ UNCHANGED vars
  <2>1. UNCHANGED <<month, at, timers, longPress, anchor, pending, pressedOn, crowded>>
    BY <1>1 DEF Close, vars
  <2> QED
    BY <2>1 DEF IInv, ShapesOK, RunHangsFromAnchor, OneAtATime, TimerOfTheHeld,
                ArmedOfTheHeld, Held, CellAt
<1> QED
  BY <1>1, PressIsFine, MoveIsFine, ReleaseIsFine, RestedIsFine, TakenOverIsFine, LiftIsFine,
     HoverIsFine, GoToMonthIsFine DEF Next

-----------------------------------------------------------------------------
\* Pointers, timers and the row that is armed, together.
THEOREM Invariance == Spec => []IInv
  BY InitIsFine, NextIsFine, PTL DEF Spec

\* The run that is drawn hangs from its anchor, with any number of pointers down.
THEOREM RunsAlwaysHang == Spec => []RunHangsFromAnchor
<1>1. IInv => RunHangsFromAnchor
  BY DEF IInv
<1> QED
  BY <1>1, Invariance, PTL

\* No release, scroll or turn of the month leaves a row armed with nothing held.
THEOREM ArmedRowsAreHeld == Spec => []ArmedRowIsHeld
<1>1. IInv => ArmedRowIsHeld
  BY DEF IInv, ArmedOfTheHeld, ArmedRowIsHeld
<1> QED
  BY <1>1, Invariance, PTL

\* A finger that moves or is taken over has no long press left to come due.
THEOREM OnlyRestingFingersWait == Spec => []RestingFingersOnly
<1>1. IInv => RestingFingersOnly
  BY DEF IInv, TimerOfTheHeld, RestingFingersOnly
<1> QED
  BY <1>1, Invariance, PTL

\* Only a release takes up a pointer that was held.
LEMMA PickIsOfTheAnchor ==
    ASSUME IInv, [Next]_vars, NEW p \in Pointers,
           Held(p), at'[p] = Up, anchor # None, ~crowded
    PROVE  /\ pressedOn[p] # None
           /\ pending.roomId = pressedOn[p].roomId
           /\ pressedOn[p].date \in pending.from .. pending.to
<1>1. pressedOn[p] = anchor /\ anchor \in Cells /\ pending \in Runs
  BY DEF IInv, ShapesOK, ArmedOfTheHeld, RunHangsFromAnchor
<1> QED
  BY <1>1 DEF IInv, RunHangsFromAnchor, Cells, Runs

\* What a host settles on has the night the pointer was put on in it.
THEOREM PicksAlwaysStartWherePressed == Spec => PicksStartWherePressed
<1>1. IInv /\ [Next]_vars =>
        \A p \in Pointers :
          (Held(p) /\ at'[p] = Up /\ anchor # None /\ sheet' # sheet /\ ~crowded) =>
              /\ pressedOn[p] # None
              /\ pending.roomId = pressedOn[p].roomId
              /\ pressedOn[p].date \in pending.from .. pending.to
  BY PickIsOfTheAnchor
<1> QED
  BY <1>1, Invariance, PTL DEF Spec, PicksStartWherePressed
=============================================================================
