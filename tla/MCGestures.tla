----------------------------- MODULE MCGestures -----------------------------
(* Gestures with the rooms, and the fingers, told apart by nothing. *)
EXTENDS Gestures, TLC

Symmetry == Permutations(Rooms) \cup Permutations(Fingers)
=============================================================================
