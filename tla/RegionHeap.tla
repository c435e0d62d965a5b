----------------------------- MODULE RegionHeap -----------------------------
(***************************************************************************)
(* The REPL's region heap and its undo journal, as functions from heap to  *)
(* heap: crates/wasm-repl/src/heap.rs, journal.rs and rollback of          *)
(* session.rs.  Memory is counted in 8-byte words (every reservation is    *)
(* aligned to one); `mem' holds the words handed out so far, so that the   *)
(* arena cursor is Len(mem) and the null page has no address.              *)
(***************************************************************************)
EXTENDS Integers, Sequences, FiniteSets, SequencesExt

CONSTANTS
  Slots,    \* REGION_SLOTS (16)
  HeapCap   \* MAX_HEAP_BYTES, in words

ASSUME RegionAssumption == Slots \in Nat \ {0} /\ HeapCap \in Nat

SlotIds == 0 .. Slots - 1
NoSlot  == Slots
Dead    == [base |-> 0, size |-> 0, off |-> 0, alive |-> FALSE]

EmptyHeap == [mem |-> << >>, next |-> 0,
              regions |-> [s \in SlotIds |-> Dead], live |-> {}]

\* reserve: the arena grows by n zeroed words.
Fits(h, n)    == Len(h.mem) + n <= HeapCap
Reserve(h, n) == h.mem \o [i \in 1 .. n |-> 0]
Range8(b, n)  == [start |-> b, end |-> b + n]

\* A new live range of n words at the end of the arena.
Claim(h, n) ==
  [h EXCEPT !.mem = Reserve(h, n),
            !.live = @ \cup {Range8(Len(h.mem) + 1, n)}]

Free(h) == {s \in SlotIds : ~h.regions[s].alive}

\* region_create's choice: the first dead slot, else `next' while it is
\* below the slot count.  Nothing but that last choice ever moves `next'.
SlotFor(h) ==
  IF Free(h) # {} THEN CHOOSE s \in Free(h) : \A t \in Free(h) : s <= t
  ELSE IF h.next < Slots THEN h.next ELSE NoSlot

BumpNext(h) == IF Free(h) = {} /\ h.next < Slots
               THEN [h EXCEPT !.next = @ + 1] ELSE h

CreateFits(h, n) == SlotFor(h) # NoSlot /\ Fits(h, n)

RegionCreate(h, n) ==
  [Claim(BumpNext(h), n) EXCEPT
     !.regions[SlotFor(h)] =
        [base |-> Len(h.mem) + 1, size |-> n, off |-> 0, alive |-> TRUE]]

Live(h, s) == s \in SlotIds /\ h.regions[s].alive

RegionAlloc(h, s, n) == [h EXCEPT !.regions[s].off = @ + n]
RegionReset(h, s)    == [h EXCEPT !.regions[s].off = 0]

RegionRange(r) == Range8(r.base, r.size)

RegionDestroy(h, s) ==
  [h EXCEPT !.regions[s] = Dead, !.live = @ \ {RegionRange(h.regions[s])}]

\* The words a load or store may touch.
Accessible(h) ==
  {a \in 1 .. Len(h.mem) : \E r \in h.live : r.start <= a /\ a < r.end}

Store(h, a, v) == [h EXCEPT !.mem[a] = v]

-----------------------------------------------------------------------------
(* Compensations: each inverts one journalled effect.                      *)

Reclaim(h, old) ==
  IF old <= Len(h.mem) THEN [h EXCEPT !.mem = SubSeq(@, 1, old)] ELSE h

\* Mutant of UndoCreate: the region's range stays live.
UndoCreateKeep(h, e) ==
  Reclaim([h EXCEPT !.regions[e.slot] = Dead], e.old)

UndoCreate(h, e) ==
  LET r == h.regions[e.slot]
      gone == IF r.alive THEN {RegionRange(r)} ELSE {}
  IN  Reclaim([h EXCEPT !.regions[e.slot] = Dead, !.live = @ \ gone], e.old)

UndoDestroy(h, e) ==
  [h EXCEPT !.regions[e.slot] = e.saved,
            !.live = @ \cup {RegionRange(e.saved)}]

UndoClaim(h, e) ==
  Reclaim([h EXCEPT !.live = {r \in @ : r.start # e.addr}], e.old)

Compensate(h, e) ==
  CASE e.kind = "store"   -> [h EXCEPT !.mem[e.addr] = e.old]
    [] e.kind = "create"  -> UndoCreate(h, e)
    [] e.kind = "cursor"  -> [h EXCEPT !.regions[e.slot].off = e.old]
    [] e.kind = "destroy" -> UndoDestroy(h, e)
    [] e.kind = "claim"   -> UndoClaim(h, e)

\* The heap after a sequence of compensations, the first one first.
Replay(h, effects) ==
  LET after[k \in 0 .. Len(effects)] ==
        IF k = 0 THEN h ELSE Compensate(after[k - 1], effects[k])
  IN  after[Len(effects)]

\* Mutant of Undo: the journal is walked from its start.
UndoForward(h, journal) == Replay(h, journal)

\* rollback: the journal is walked from its end.
Undo(h, journal) == Replay(h, Reverse(journal))
=============================================================================
