----------------------------- MODULE LossyQueue -----------------------------
(***************************************************************************)
(* What the ring buffers of this firmware promise to their reader: a queue *)
(* of at most Capacity items that, when it is full, makes room for the     *)
(* newest item by dropping the oldest one.  A reader sees items in the     *)
(* order in which they were put, whole, and never one twice.               *)
(*                                                                         *)
(* One call may put an item, get one, or do both, in that order.           *)
(***************************************************************************)
EXTENDS Integers, Sequences

CONSTANTS Items, Capacity

VARIABLES
  queue,   \* items put and not yet got, the oldest first
  got      \* the item the reader got last

vars == <<queue, got>>

PutInto(q, x) == Append(IF Len(q) = Capacity THEN Tail(q) ELSE q, x)

\* every queue the call can leave before it gets: the queue itself, or with an item more
MaybePut(q) == {q} \cup {PutInto(q, x) : x \in Items}

Init == queue = <<>> /\ got \in Items

Put == queue' \in MaybePut(queue) /\ got' = got

Get ==
  \E q \in MaybePut(queue) : q # <<>> /\ got' = Head(q) /\ queue' = Tail(q)

Next == Put \/ Get

Spec == Init /\ [][Next]_vars
=============================================================================
