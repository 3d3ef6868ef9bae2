----------------------------- MODULE MCHostOta -----------------------------
(* HostOta with an image that fits and the size an erased header reads as: its *)
(* time-out is 5 + 5 * 255, which is 0 in eight bits.                          *)
EXTENDS HostOta

MCImages == {2, 510}
=============================================================================
