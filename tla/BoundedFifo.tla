---------------------------- MODULE BoundedFifo ----------------------------
(***************************************************************************)
(* What the runtime's rings promise: a first-in first-out queue of at most *)
(* Cap elements.  Modules TaskScheduler and Channels use the rings as such *)
(* sequences.                                                              *)
(***************************************************************************)
EXTENDS Naturals, Sequences

CONSTANTS Elems, Cap

VARIABLE items

FifoInit == items = << >>

FifoPut == Len(items) < Cap /\ \E e \in Elems : items' = Append(items, e)

FifoTake == items # << >> /\ items' = Tail(items)

FifoSpec == FifoInit /\ [][FifoPut \/ FifoTake]_items
=============================================================================
