-------------------------- MODULE BookingLifecycle --------------------------
(***************************************************************************)
(* The status graph of a booking (packages/domain/src/booking.ts): one     *)
(* copy shared by the server, which refuses a move the graph does not      *)
(* have, and by the host's screen, which offers only the moves it has.     *)
(***************************************************************************)

Statuses == {"PENDING", "CONFIRMED", "CHECKED_IN", "CHECKED_OUT",
             "CANCELLED", "NO_SHOW"}

\* TRANSITIONS: the statuses a booking may move to from each status.
Transitions ==
    [status \in Statuses |->
        CASE status = "PENDING"    -> {"CONFIRMED", "CANCELLED", "NO_SHOW"}
          [] status = "CONFIRMED"  -> {"CHECKED_IN", "CANCELLED", "NO_SHOW"}
          [] status = "CHECKED_IN" -> {"CHECKED_OUT"}
          [] OTHER                 -> {}]

\* OCCUPYING and occupiesRooms: the statuses whose stays consume their rooms.
Occupying == {"PENDING", "CONFIRMED", "CHECKED_IN"}

OccupiesRooms(status) == status \in Occupying

CanTransition(from, to) == to \in Transitions[from]
=============================================================================
