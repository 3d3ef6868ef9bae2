---------------------------- MODULE MCBondTable -----------------------------
(* BondTable with three remotes, a table of two, a sector of five areas    *)
(* that start-up cleans from the third on, and two areas of the next one.  *)
EXTENDS BondTable, TLC

MCAddr == {"a", "b", "c"}
=============================================================================
