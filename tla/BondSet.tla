------------------------------ MODULE BondSet ------------------------------
(***************************************************************************)
(* What the dongle's bond table promises of the bonds that survive a power *)
(* cut: a list of at most MaxBonds, oldest first, that changes one bond at *)
(* a time.  A new bond is known to exist before its address is; bonds go   *)
(* one by one; power lost while the list is moved in flash (start-up       *)
(* cleaning) keeps the oldest of them.                                     *)
(***************************************************************************)
EXTENDS Integers, Sequences, SequencesExt

CONSTANTS
  Addresses,   \* of remote controls
  Unknown,     \* the address of a bond begun and not completed
  MaxBonds

VARIABLES
  bonds,     \* the bonds, oldest first
  moving     \* they are being moved to another place

vars == <<bonds, moving>>

Init == bonds = <<>> /\ moving = FALSE

Begin == Len(bonds) < MaxBonds /\ bonds' = Append(bonds, Unknown)

Complete ==
  /\ bonds # <<>> /\ Last(bonds) = Unknown
  /\ \E a \in Addresses : bonds' = Append(Front(bonds), a)

Forget == \E j \in DOMAIN bonds : bonds' = RemoveAt(bonds, j)

\* One bond more, its address, or one bond less, while they stay in their place.
Change == ~moving /\ (Begin \/ Complete \/ Forget) /\ UNCHANGED moving

Move == UNCHANGED bonds /\ moving' = ~moving

\* The first n bonds have been moved, of the next one perhaps only that it exists.
LoseNewest ==
  /\ moving /\ moving' = FALSE
  /\ \E n \in 0 .. Len(bonds) - 1 :
       \/ bonds' = SubSeq(bonds, 1, n)
       \/ bonds' = Append(SubSeq(bonds, 1, n), Unknown)

Next == Change \/ Move \/ LoseNewest

Spec == Init /\ [][Next]_vars
=============================================================================
