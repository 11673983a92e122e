----------------------------- MODULE MCListing -----------------------------
(* Listing with a wizard of three steps: the details of the others are given. *)
EXTENDS Listing, TLC

MCSteps == <<"photos", "compliance", "review">>

Symmetry == Permutations(Devices) \cup Permutations(Rooms)
=============================================================================
