------------------------------ MODULE Gestures ------------------------------
(***************************************************************************)
(* Picking nights on the month calendar: useRangeSelection, useMonthSwipe  *)
(* and the part of CalendarScreen that they call.  The browser's events    *)
(* are the actions; a mouse arms a row at once, a finger by resting on a   *)
(* cell, and the same finger scrolls the grid or turns the month.          *)
(* isArmed is anchor # None, and the drawn selection is pending.           *)
(***************************************************************************)
EXTENDS Integers, FiniteSets, Functions

CONSTANTS Rooms,            \* rows of the grid
          Nights, Months,   \* nights of a month, and how many months there are
          Mouse, Fingers,   \* pointers; a finger that comes back is another one
          MaxAtOnce,        \* bound: fingers that are down at once; a mouse is alone
          None

ASSUME SizeAssumption == Nights \in Nat \ {0} /\ Months \in Nat \ {0}
ASSUME NoneAssumption == /\ None \notin [roomId : Rooms, date : Int]
                         /\ None \notin [roomId : Rooms, from : Int, to : Int]

VARIABLES month,
          at,        \* [Pointers -> the place it is held at, Up or Scrolling]
          timers,    \* [fingers that rest -> the cell that is to be armed]
          longPress, \* the finger whose timer the ref holds
          anchor, pending, hasMoved,
          edges,     \* the edges the grid was against when the touch began
          sheet,     \* what is open over the calendar
          pressedOn, \* [Pointers that are down -> the cell it was pressed on]
          crowded    \* two pointers met since the calendar was last at rest

vars == <<month, at, timers, longPress, anchor, pending, hasMoved, edges, sheet,
          pressedOn, crowded>>

Pointers  == {Mouse} \cup Fingers
Up        == <<"up">>
Scrolling == <<"scrolling">>  \* the browser has taken the finger over
Off       == <<"off">>        \* the header, the room column, or outside the grid
Places    == Rooms \X (1 .. Nights)

\* cellAt: the cell under a place of the screen, in the month that is shown.
CellAt(place) == IF place = Off THEN None
                 ELSE [roomId |-> place[1], date |-> (month - 1) * Nights + place[2]]

Held(p) == at[p] \in Places \cup {Off}

\* mutant: any row extends the run
ExtendAnyRow(start, cell, now) ==
    [roomId |-> cell.roomId,
     from |-> IF start.date <= cell.date THEN start.date ELSE cell.date,
     to   |-> IF start.date <= cell.date THEN cell.date ELSE start.date]

\* extendTo: the run from the anchor, unless the cell is of another row.
Extended(start, cell, now) ==
    IF start.roomId # cell.roomId THEN now
    ELSE [roomId |-> cell.roomId,
          from |-> IF start.date <= cell.date THEN start.date ELSE cell.date,
          to   |-> IF start.date <= cell.date THEN cell.date ELSE start.date]

Init == /\ month = 1 /\ at = [p \in Pointers |-> Up]
        /\ timers = <<>> /\ longPress = None
        /\ anchor = None /\ pending = None /\ hasMoved = FALSE
        /\ edges = {} /\ sheet = None
        /\ pressedOn = [p \in Pointers |-> None] /\ crowded = FALSE

-----------------------------------------------------------------------------
\* cancelLongPress: only the timer the ref holds.
Cancelled == Restrict(timers, DOMAIN timers \ {longPress})

Disarm == anchor' = None /\ pending' = None

Clear == timers' = Cancelled /\ longPress' = None /\ Disarm /\ hasMoved' = FALSE

Arm(cell) == anchor' = cell /\ pending' = Extended(cell, cell, None)

Meets(p) == crowded' = (crowded \/ \E q \in Pointers \ {p} : at[q] # Up)

\* Nothing is held, waited for or picked: the next gesture starts afresh.
AtRest == /\ \A p \in Pointers : at'[p] = Up
          /\ timers' = <<>> /\ anchor' = None
Calms  == crowded' = (crowded /\ ~AtRest)

\* What the touch and the press left behind is not read again.
Forget(p) == /\ pressedOn' = [pressedOn EXCEPT ![p] = None]
             /\ edges' = IF \A q \in Fingers : at'[q] = Up THEN {} ELSE edges

\* onPointerDown, and touchstart with it.
Press(p) == \E place \in Places \cup {Off} :
    /\ at[p] = Up /\ p \notin DOMAIN timers /\ sheet = None
    /\ Cardinality({q \in Pointers : at[q] # Up}) < MaxAtOnce
    /\ \A q \in Pointers : at[q] # Up => q \in Fingers /\ p \in Fingers
    /\ at' = [at EXCEPT ![p] = place] /\ Meets(p)
    /\ IF \E q \in Fingers \ {p} : at[q] # Up THEN edges' = edges
       ELSE IF p = Mouse THEN edges' = edges
       ELSE edges' \in SUBSET {"start", "end"}
    /\ pressedOn' = [pressedOn EXCEPT ![p] = CellAt(place)]
    /\ IF place = Off THEN Clear
       ELSE /\ hasMoved' = FALSE
            /\ IF p = Mouse
               THEN Arm(CellAt(place)) /\ UNCHANGED <<timers, longPress>>
               ELSE /\ timers' = [q \in DOMAIN timers \cup {p} |->
                                     IF q = p THEN CellAt(place) ELSE timers[q]]
                    /\ longPress' = p
                    /\ UNCHANGED <<anchor, pending>>
    /\ UNCHANGED <<month, sheet>>

\* The finger has rested for LONG_PRESS_MS.
Rested(p) ==
    /\ p \in DOMAIN timers
    /\ timers' = Restrict(timers, DOMAIN timers \ {p}) /\ longPress' = None
    /\ Arm(timers[p])
    /\ UNCHANGED <<month, at, hasMoved, edges, sheet, pressedOn, crowded>>

\* mutant: the anchor follows the pointer
DragAnchor(place) ==
    /\ hasMoved' = TRUE
    /\ pending' = IF place = Off THEN pending ELSE Extended(CellAt(place), CellAt(place), pending)
    /\ anchor' = IF place = Off THEN anchor ELSE CellAt(place)
    /\ UNCHANGED <<timers, longPress>>

\* A move of an armed row.
DragOn(place) ==
    /\ hasMoved' = TRUE
    /\ pending' = IF place = Off THEN pending ELSE Extended(anchor, CellAt(place), pending)
    /\ UNCHANGED <<timers, longPress, anchor>>

\* mutant: a movement does not call the long press off
OnlyDrag(place) ==
    IF anchor # None THEN DragOn(place)
    ELSE UNCHANGED <<timers, longPress, anchor, pending, hasMoved>>

\* onPointerMove: of an armed row, or what tells a scroll from a press.
OnPointerMove(place) ==
    IF anchor # None THEN DragOn(place)
    ELSE timers' = Cancelled /\ longPress' = None /\ UNCHANGED <<anchor, pending, hasMoved>>

Move(p) == \E place \in Places \cup {Off} :
    /\ Held(p) /\ place # at[p] /\ at' = [at EXCEPT ![p] = place]
    /\ OnPointerMove(place)
    /\ UNCHANGED <<month, edges, sheet, pressedOn, crowded>>

\* A mouse that is not pressed moves over the grid.
Hover == \E place \in Places :
    /\ at[Mouse] = Up /\ sheet = None /\ OnPointerMove(place)
    /\ UNCHANGED <<month, at, edges, sheet, pressedOn>> /\ Calms

-----------------------------------------------------------------------------
\* onSelect and onOpen: the run that was picked, if only a night of it, opens as
\* the night that was tapped does.
Opens(p) ==
    IF anchor # None THEN (IF pending.from = pending.to THEN "night" ELSE "run")
    ELSE IF CellAt(at[p]) # None /\ ~hasMoved THEN "night" ELSE sheet

\* touchend: a swipe that began at an edge and went on past it turns the month.
SwipeTo(p) ==
    {month} \cup (IF p = Mouse THEN {}
                  ELSE {m \in 1 .. Months : \/ m = month + 1 /\ "end" \in edges
                                            \/ m = month - 1 /\ "start" \in edges})

\* mutant: a release outside the grid is not heard
ReleaseInside(p) ==
    /\ Held(p) /\ at' = [at EXCEPT ![p] = Up]
    /\ IF at[p] = Off THEN UNCHANGED <<timers, longPress, anchor, pending, sheet>>
       ELSE timers' = Cancelled /\ longPress' = None /\ Disarm /\ sheet' = Opens(p)
    /\ month' \in SwipeTo(p)
    /\ UNCHANGED hasMoved /\ Forget(p) /\ Calms

\* onPointerUp, then touchend.
Release(p) ==
    /\ Held(p) /\ at' = [at EXCEPT ![p] = Up]
    /\ timers' = Cancelled /\ longPress' = None /\ Disarm
    /\ sheet' = Opens(p)
    /\ month' \in SwipeTo(p)
    /\ UNCHANGED hasMoved /\ Forget(p) /\ Calms

\* pointercancel: the browser scrolls the grid with this finger ...
TakenOver(p) ==
    /\ Held(p) /\ at' = [at EXCEPT ![p] = Scrolling] /\ Clear
    /\ UNCHANGED <<month, edges, sheet, pressedOn>> /\ Calms

\* ... until it is lifted.
Lift(p) == /\ at[p] = Scrolling /\ at' = [at EXCEPT ![p] = Up]
           /\ month' \in SwipeTo(p)
           /\ UNCHANGED <<timers, longPress, anchor, pending, hasMoved, sheet>>
           /\ Forget(p) /\ Calms

\* The buttons over the grid; with a finger on the grid it takes another pointer.
GoToMonth == /\ sheet = None /\ month' \in (1 .. Months) \cap {month - 1, month + 1}
             /\ crowded' = (crowded \/ \E p \in Pointers : at[p] # Up)
             /\ UNCHANGED <<at, timers, longPress, anchor, pending, hasMoved, edges,
                            sheet, pressedOn>>

Close == /\ sheet # None /\ sheet' = None
         /\ UNCHANGED <<month, at, timers, longPress, anchor, pending, hasMoved,
                        edges, pressedOn, crowded>>

Next == \/ \E p \in Pointers : Press(p) \/ Move(p) \/ Release(p)
        \/ \E p \in Fingers : Rested(p) \/ TakenOver(p) \/ Lift(p)
        \/ Hover \/ GoToMonth \/ Close

Spec == Init /\ [][Next]_vars
-----------------------------------------------------------------------------
(* Properties.                                                             *)

\* The run that is drawn is of the anchor's row and begins or ends at the anchor,
\* whichever pointers armed it, crossed it or turned the month under it.
RunHangsFromAnchor ==
    /\ (anchor = None) <=> (pending = None)
    /\ anchor # None => /\ pending.roomId = anchor.roomId
                        /\ pending.from <= pending.to
                        /\ anchor.date \in {pending.from, pending.to}

\* "must not leave the row armed": unless two pointers met, a row is armed only
\* while one is held, wherever on the screen that one has got to.
ArmedRowIsHeld == anchor # None /\ ~crowded => \E p \in Pointers : Held(p)

\* A swipe that scrolls selects nothing: a long press that has yet to come due is
\* of a finger that is still on the cell it was put on.
RestingFingersOnly ==
    ~crowded => \A p \in DOMAIN timers : Held(p) /\ CellAt(at[p]) = timers[p]

\* The run a host settles on has the night the pointer was put on in it, and it is
\* of that room, however far the pointer went before it was released.
PicksStartWherePressed ==
    [][\A p \in Pointers :
          (Held(p) /\ at'[p] = Up /\ anchor # None /\ sheet' # sheet /\ ~crowded) =>
              /\ pressedOn[p] # None
              /\ pending.roomId = pressedOn[p].roomId
              /\ pressedOn[p].date \in pending.from .. pending.to]_vars
=============================================================================
