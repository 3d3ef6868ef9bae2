----------------------------- MODULE MCOtaBoot ------------------------------
(* OtaBoot with sectors of two pages, areas of six and a 64K limit of      *)
(* five pages: images of less than a sector, of one and two sectors and a  *)
(* half, and one that is over the limit.                                   *)
EXTENDS OtaBoot

MCSizes == {1, 3, 5, 6}
=============================================================================
