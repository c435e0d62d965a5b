----------------------------- MODULE RingQueue -----------------------------
(***************************************************************************)
(* The ring that the runtime uses five times over: the worker queues, the  *)
(* global queue, the channel buffers and the two wait lists of a channel.  *)
(* Head and tail only ever count up, in machine words, and wrap; the cell  *)
(* is the counter and a mask; the fill level is the wrapped difference.    *)
(***************************************************************************)
EXTENDS Integers, Sequences

CONSTANTS
  Elems,   \* what is queued: task numbers or payload words
  Cap,     \* cells of the ring (8, 16 or 64): a power of two
  Word     \* 2^w for w-bit counters (w = 64 on x86-64)

ASSUME RingAssumption ==
  /\ Cap \in Nat \ {0}
  /\ Word \in Nat /\ Word > Cap
  /\ Word % Cap = 0

VARIABLES head, tail, cell

ringVars == <<head, tail, cell>>

\* sub rdx, rcx in w-bit arithmetic.
Fill == (tail - head) % Word

\* Mutant of Cell: one cell too few in the mask.
CellShort(n) == n % (Cap - 1)

\* and rdx, Cap - 1.
Cell(n) == n % Cap

\* cmp rdx, Cap; jae full.
HasRoom == Fill < Cap

RingInit ==
  /\ head = 0
  /\ tail = 0
  /\ cell \in [0 .. Cap - 1 -> Elems]   \* whatever the memory holds

\* Store at the tail, then count it up.
Put(e) ==
  /\ HasRoom
  /\ cell' = [cell EXCEPT ![Cell(tail)] = e]
  /\ tail' = (tail + 1) % Word
  /\ UNCHANGED head

\* Load from the head, then count it up.
Take ==
  /\ head # tail
  /\ head' = (head + 1) % Word
  /\ UNCHANGED <<tail, cell>>

RingNext == (\E e \in Elems : Put(e)) \/ Take

RingSpec == RingInit /\ [][RingNext]_ringVars
-----------------------------------------------------------------------------
\* The sequence the ring stands for.
Contents == [i \in 1 .. Fill |-> cell[Cell(head + i - 1)]]

Fifo == INSTANCE BoundedFifo WITH items <- Contents

\* The ring is a bounded queue, also when a counter has wrapped: what was put
\* is taken once, in order, and no unread cell is overwritten.
RingIsFifo == Fifo!FifoSpec

=============================================================================
