--------------------------- MODULE MCDongleInput ---------------------------
(* DongleInput with one key of every class and a mouse ring of two entries, so  *)
(* that two frames fill it.                                                     *)
EXTENDS DongleInput
=============================================================================
