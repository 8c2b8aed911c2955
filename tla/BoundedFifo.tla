----------------------------- MODULE BoundedFifo -----------------------------
(***************************************************************************)
(* What a bounded first-in first-out queue promises: elements leave in the *)
(* order in which they came, none is lost, none is invented, and there are *)
(* never more than Capacity of them.  The ring buffer of module Queue is   *)
(* shown to implement it.                                                  *)
(***************************************************************************)
EXTENDS Naturals, Sequences

CONSTANTS
  Capacity,   \* how many elements fit
  Elements    \* what may be stored

VARIABLE fifo

Init == fifo = <<>>

Put(e) ==
  /\ Len(fifo) < Capacity
  /\ fifo' = Append(fifo, e)

Take ==
  /\ fifo # <<>>
  /\ fifo' = Tail(fifo)

Next == Take \/ \E e \in Elements : Put(e)

Spec == Init /\ [][Next]_fifo
==============================================================================
