----------------------- MODULE MCCorporateAutoBooking -----------------------
(* Instances of CorporateAutoBooking for TLC. *)
EXTENDS CorporateAutoBooking, SequencesExt

(* Every list of one to three options. *)
ShortLists == BoundedSeq(Options, 3) \ {<<>>}
==============================================================================
