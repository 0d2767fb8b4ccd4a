--------------------------- MODULE MCBookingDetails ---------------------------
(* Instances of BookingDetails for TLC. *)
EXTENDS BookingDetails, TLC

(* Page loads are alike, and so are payments, whose clients vary. *)
Symmetry == Permutations(Loads) \cup Permutations(Payments)
==============================================================================
