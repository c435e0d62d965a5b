---------------------------- MODULE ReplProofs ------------------------------
(***************************************************************************)
(* Safety of the REPL session for every number of regions, every size of   *)
(* the arena, the buffer, the stack and the journal, and every fuel.       *)
(*                                                                         *)
(* A rollback restores the surface exactly, over any number of suspensions *)
(* and resumptions: each effect is undone by its compensation on the heap  *)
(* it left, so undoing a journal that grew by one effect undoes the        *)
(* shorter one.                                                            *)
(***************************************************************************)
EXTENDS ReplSession, SequenceTheorems, WellFoundedInduction, TLAPS

\* A non-empty set of naturals has a least element.
LEMMA LeastNatural ==
  ASSUME NEW T \in SUBSET Nat, T # {}
  PROVE  \E n \in T : \A m \in T : n <= m
<1> DEFINE R == {ss \in Nat \X Nat : ss[1] < ss[2]}
<1>1. IsWellFoundedOn(R, Nat)
  BY NatLessThanWellFounded DEF OpToRel
<1>2. PICK n \in T : \A m \in T : <<m, n>> \notin R
  <2> HIDE DEF R
  <2> QED BY <1>1, WFMin
<1>3. \A m \in T : ~(m < n)
  BY <1>2
<1> QED BY <1>3

\* A set of naturals that holds 0 and every successor holds them all.
LEMMA AllNaturals ==
  ASSUME NEW T \in SUBSET Nat, 0 \in T, \A n \in T : n + 1 \in T
  PROVE  T = Nat
<1> SUFFICES ASSUME Nat \ T # {} PROVE FALSE
  OBVIOUS
<1>1. PICK n \in Nat \ T : \A m \in Nat \ T : n <= m
  BY LeastNatural
<1>2. n # 0 /\ n - 1 \in Nat /\ n - 1 + 1 = n
  BY <1>1
<1>3. n - 1 \in T
  BY <1>1, <1>2
<1> QED BY <1>1, <1>2, <1>3

-----------------------------------------------------------------------------
\* The heaps on the way of a replay.
Steps(h, effects, n, g) ==
  g = [k \in 0 .. n |-> IF k = 0 THEN h ELSE Compensate(g[k - 1], effects[k])]

\* Such a sequence of heaps exists, of any length.
LEMMA StepsExist ==
  ASSUME NEW h, NEW effects, NEW n \in Nat
  PROVE  \E g : Steps(h, effects, n, g)
<1> DEFINE T == {m \in Nat : \E g : Steps(h, effects, m, g)}
<1>1. 0 \in T
  <2> DEFINE g == [k \in 0 .. 0 |-> h]
  <2>1. g = [k \in 0 .. 0 |-> IF k = 0 THEN h ELSE Compensate(g[k - 1], effects[k])]
    OBVIOUS
  <2> QED BY <2>1 DEF Steps
<1>2. ASSUME NEW m \in T PROVE m + 1 \in T
  <2>1. PICK g : Steps(h, effects, m, g)
    OBVIOUS
  <2> DEFINE f == [k \in 0 .. m + 1 |-> IF k = m + 1 THEN Compensate(g[m], effects[m + 1])
                                        ELSE g[k]]
  <2>2. ASSUME NEW k \in 0 .. m + 1
        PROVE  f[k] = IF k = 0 THEN h ELSE Compensate(f[k - 1], effects[k])
    <3>1. CASE k = m + 1
      <4>1. k # 0 /\ k - 1 = m /\ m \in 0 .. m + 1 /\ m # m + 1
        BY <3>1
      <4>2. f[k] = Compensate(g[m], effects[k]) /\ f[m] = g[m]
        BY <3>1, <4>1
      <4> HIDE DEF f
      <4> QED BY <4>1, <4>2
    <3>2. CASE k # m + 1
      <4>1. k \in 0 .. m /\ f[k] = g[k]
        BY <3>2
      <4>2. g[k] = IF k = 0 THEN h ELSE Compensate(g[k - 1], effects[k])
        BY <2>1, <4>1 DEF Steps
      <4>3. k # 0 => f[k - 1] = g[k - 1]
        BY <4>1
      <4> HIDE DEF f
      <4> QED BY <4>1, <4>2, <4>3
    <3> QED BY <3>1, <3>2
  <2>3. f = [k \in 0 .. m + 1 |-> IF k = 0 THEN h ELSE Compensate(f[k - 1], effects[k])]
    <3>1. f = [k \in 0 .. m + 1 |-> f[k]]
      OBVIOUS
    <3> HIDE DEF f
    <3> QED BY <2>2, <3>1
  <2> HIDE DEF f
  <2>4. m + 1 \in Nat /\ Steps(h, effects, m + 1, f)
    BY <2>3 DEF Steps
  <2> QED BY <2>4
<1>3. T = Nat
  <2> HIDE DEF T
  <2>1. T \in SUBSET Nat
    BY DEF T
  <2> QED BY <1>1, <1>2, <2>1, AllNaturals
<1> QED BY <1>3

\* Two of them agree as far as both go.
LEMMA StepsAgree ==
  ASSUME NEW h, NEW effects, NEW n \in Nat, NEW m \in Nat, NEW f, NEW g,
         Steps(h, effects, n, f), Steps(h, effects, m, g),
         NEW k \in Nat, k <= n, k <= m
  PROVE  f[k] = g[k]
<1> DEFINE T == {i \in Nat : i <= n /\ i <= m => f[i] = g[i]}
<1>1. 0 \in T
  <2>1. f[0] = h /\ g[0] = h
    BY DEF Steps
  <2> QED BY <2>1
<1>2. ASSUME NEW i \in T PROVE i + 1 \in T
  <2> SUFFICES ASSUME i + 1 <= n, i + 1 <= m PROVE f[i + 1] = g[i + 1]
    OBVIOUS
  <2>1. i + 1 \in 0 .. n /\ i + 1 \in 0 .. m /\ i + 1 # 0 /\ i + 1 - 1 = i /\ f[i] = g[i]
    OBVIOUS
  <2>2. f[i + 1] = Compensate(f[i], effects[i + 1]) /\ g[i + 1] = Compensate(g[i], effects[i + 1])
    BY <2>1 DEF Steps
  <2> QED BY <2>1, <2>2
<1>3. T = Nat
  <2> HIDE DEF T
  <2>1. T \in SUBSET Nat
    BY DEF T
  <2> QED BY <1>1, <1>2, <2>1, AllNaturals
<1> QED BY <1>3

\* Replay is the last heap of such a sequence.
LEMMA ReplaySteps ==
  ASSUME NEW h, NEW effects, Len(effects) \in Nat
  PROVE  \E g : Steps(h, effects, Len(effects), g) /\ Replay(h, effects) = g[Len(effects)]
<1> DEFINE G == CHOOSE g : Steps(h, effects, Len(effects), g)
<1>1. Steps(h, effects, Len(effects), G)
  BY StepsExist
<1>2. Replay(h, effects) = G[Len(effects)]
  BY DEF Replay, Steps
<1> QED BY <1>1, <1>2

\* One heap of the way after the other.
LEMMA NextStep ==
  ASSUME NEW h, NEW effects, NEW n \in Nat, NEW g, Steps(h, effects, n, g),
         NEW k \in 1 .. n
  PROVE  g[k] = Compensate(g[k - 1], effects[k])
<1>1. k \in 0 .. n /\ k # 0
  OBVIOUS
<1> QED BY <1>1 DEF Steps

\* Nothing to undo.
LEMMA UndoNothing == \A h : Undo(h, <<>>) = h
<1> SUFFICES ASSUME NEW h PROVE Undo(h, <<>>) = h
  OBVIOUS
<1>1. Len(Reverse(<<>>)) = 0
  BY DEF Reverse
<1>2. PICK g : Steps(h, Reverse(<<>>), 0, g) /\ Replay(h, Reverse(<<>>)) = g[0]
  BY <1>1, ReplaySteps
<1>3. g[0] = h
  BY <1>2 DEF Steps
<1> QED BY <1>2, <1>3 DEF Undo

\* A journal is undone from its last effect.
LEMMA UndoLast ==
  ASSUME NEW h, NEW S, NEW journal \in Seq(S), NEW e \in S
  PROVE  Undo(h, Append(journal, e)) = Undo(Compensate(h, e), journal)
<1> DEFINE n == Len(journal)
           J == Reverse(Append(journal, e))
           K == Reverse(journal)
           h2 == Compensate(h, e)
<1>1. n \in Nat /\ Len(J) = n + 1 /\ Len(K) = n
  BY DEF Reverse
<1>2. J[1] = e
  BY <1>1 DEF Reverse
<1>3. ASSUME NEW k \in 1 .. n PROVE J[k + 1] = K[k]
  <2>1. k + 1 \in 1 .. n + 1 /\ n + 1 - (k + 1) + 1 = n - k + 1 /\ n - k + 1 \in 1 .. n
    BY <1>1
  <2>2. J[k + 1] = Append(journal, e)[n - k + 1]
    BY <1>1, <2>1 DEF Reverse
  <2> QED BY <2>1, <2>2 DEF Reverse
<1> HIDE DEF n, J, K
<1>4. PICK g : Steps(h, J, n + 1, g) /\ Replay(h, J) = g[n + 1]
  BY <1>1, ReplaySteps
<1>5. PICK f : Steps(h2, K, n, f) /\ Replay(h2, K) = f[n]
  BY <1>1, ReplaySteps
<1> DEFINE T == {k \in Nat : k <= n => g[k + 1] = f[k]}
<1>6. 0 \in T
  <2>1. f[0] = h2 /\ g[0] = h /\ 0 \in 0 .. n + 1 /\ 1 \in 0 .. n + 1
    BY <1>1, <1>4, <1>5 DEF Steps
  <2>2. g[1] = Compensate(g[0], J[1])
    BY <1>4, <2>1 DEF Steps
  <2> QED BY <1>2, <2>1, <2>2
<1>7. ASSUME NEW k \in T PROVE k + 1 \in T
  <2> SUFFICES ASSUME k + 1 <= n PROVE g[k + 2] = f[k + 1]
    OBVIOUS
  <2>1. k \in Nat /\ g[k + 1] = f[k] /\ k + 1 \in 1 .. n /\ k + 1 \in 0 .. n /\ k + 2 \in 1 .. n + 1 /\ n + 1 \in Nat
        /\ k + 1 # 0 /\ k + 2 # 0 /\ k + 2 - 1 = k + 1 /\ k + 1 - 1 = k /\ k + 1 + 1 = k + 2
    BY <1>1
  <2>2. g[k + 2] = Compensate(g[k + 1], J[k + 2])
    BY <1>1, <1>4, <2>1, NextStep
  <2>3. f[k + 1] = Compensate(f[k], K[k + 1])
    BY <1>1, <1>5, <2>1, NextStep
  <2>4. J[k + 2] = K[k + 1]
    BY <1>3, <2>1
  <2> QED BY <2>1, <2>2, <2>3, <2>4
<1>8. T = Nat
  <2> HIDE DEF T
  <2>1. T \in SUBSET Nat
    BY DEF T
  <2> QED BY <1>6, <1>7, <2>1, AllNaturals
<1>9. g[n + 1] = f[n]
  BY <1>1, <1>8
<1> QED BY <1>4, <1>5, <1>9 DEF Undo, J, K

\* A set of heaps that compensations do not leave is not left by a rollback.
LEMMA UndoStays ==
  ASSUME NEW H, NEW S, \A g \in H, e \in S : Compensate(g, e) \in H,
         NEW h \in H, NEW journal \in Seq(S)
  PROVE  Undo(h, journal) \in H
<1> DEFINE n == Len(journal)
           K == Reverse(journal)
<1>1. n \in Nat /\ Len(K) = n /\ \A k \in 1 .. n : K[k] \in S
  BY DEF Reverse
<1> HIDE DEF n, K
<1>2. PICK f : Steps(h, K, n, f) /\ Replay(h, K) = f[n]
  BY <1>1, ReplaySteps
<1> DEFINE T == {k \in Nat : k <= n => f[k] \in H}
<1>3. 0 \in T
  BY <1>1, <1>2 DEF Steps
<1>4. ASSUME NEW k \in T PROVE k + 1 \in T
  <2> SUFFICES ASSUME k + 1 <= n PROVE f[k + 1] \in H
    OBVIOUS
  <2>1. k \in Nat /\ f[k] \in H /\ k + 1 \in 1 .. n /\ k + 1 \in 0 .. n
        /\ k + 1 # 0 /\ k + 1 - 1 = k
    BY <1>1
  <2>2. f[k + 1] = Compensate(f[k], K[k + 1])
    <3>1. Steps(h, K, n, f)
      BY <1>2
    <3>2. \A j \in 1 .. n : f[j] = Compensate(f[j - 1], K[j])
      <4> SUFFICES ASSUME NEW j \in 1 .. n PROVE f[j] = Compensate(f[j - 1], K[j])
        OBVIOUS
      <4>1. n \in Nat
        BY <1>1
      <4> QED BY <3>1, <4>1, NextStep
    <3>3. f[k + 1] = Compensate(f[k + 1 - 1], K[k + 1])
      BY <2>1, <3>2
    <3> QED BY <2>1, <3>3
  <2> QED BY <1>1, <2>1, <2>2
<1>5. T = Nat
  <2> HIDE DEF T
  <2>1. T \in SUBSET Nat
    BY DEF T
  <2> QED BY <1>3, <1>4, <2>1, AllNaturals
<1> QED BY <1>1, <1>2, <1>5 DEF Undo, K

-----------------------------------------------------------------------------
\* The heaps and effects of the program, whatever their soundness.
Regions == [base : Nat, size : Nat, off : Nat, alive : BOOLEAN]
Ranges == [start : Nat, end : Nat]
Arenas == {h \in [mem : Seq(0 .. 1), next : 0 .. Slots,
                  regions : [SlotIds -> Regions], live : SUBSET Ranges] : Len(h.mem) <= HeapCap}
Effects ==
  [kind : {"store"}, addr : Nat, old : 0 .. 1]
  \cup [kind : {"create"}, slot : SlotIds, old : Nat]
  \cup [kind : {"cursor"}, slot : SlotIds, old : Nat]
  \cup [kind : {"destroy"}, slot : SlotIds, saved : Regions]
  \cup [kind : {"claim"}, addr : Nat, old : Nat]

Heap(m, n, r, l) == [mem |-> m, next |-> n, regions |-> r, live |-> l]

\* The parts of a heap.
LEMMA ArenaFacts ==
  ASSUME NEW h \in Arenas
  PROVE  /\ h.mem \in Seq(0 .. 1) /\ Len(h.mem) \in Nat /\ Len(h.mem) <= HeapCap
         /\ h.next \in 0 .. Slots /\ h.regions \in [SlotIds -> Regions]
         /\ h.live \in SUBSET Ranges
         /\ h = Heap(h.mem, h.next, h.regions, h.live)
  BY DEF Arenas, Heap

\* A heap put together.
LEMMA ArenaParts ==
  ASSUME NEW m \in Seq(0 .. 1), Len(m) <= HeapCap, NEW n \in 0 .. Slots,
         NEW r \in [SlotIds -> Regions], NEW l \in SUBSET Ranges
  PROVE  Heap(m, n, r, l) \in Arenas
  BY DEF Arenas, Heap

\* A record with the fields of a heap.
HeapFields == {"mem", "next", "regions", "live"}
IsHeap(g) == g = [k \in HeapFields |-> g[k]]

\* A heap is told by its parts.
LEMMA HeapEqual ==
  ASSUME NEW g, IsHeap(g)
  PROVE  g = Heap(g.mem, g.next, g.regions, g.live)
  BY DEF IsHeap, HeapFields, Heap

\* A heap has the parts it was put together from.
LEMMA HeapParts ==
  ASSUME NEW m, NEW n, NEW r, NEW l
  PROVE  LET h == Heap(m, n, r, l)
         IN  h.mem = m /\ h.next = n /\ h.regions = r /\ h.live = l /\ IsHeap(h)
  BY DEF Heap, IsHeap, HeapFields

\* A word overwritten, if it exists.
LEMMA OverwriteFacts ==
  ASSUME NEW m \in Seq(0 .. 1), NEW a \in Nat, NEW x \in 0 .. 1
  PROVE  [m EXCEPT ![a] = x] \in Seq(0 .. 1) /\ Len([m EXCEPT ![a] = x]) = Len(m)
<1>1. CASE a \in 1 .. Len(m)
  BY <1>1, ExceptSeq
<1>2. CASE a \notin 1 .. Len(m)
  <2>1. [m EXCEPT ![a] = x] = m
    BY <1>2
  <2> QED BY <2>1
<1> QED BY <1>1, <1>2

\* The arena after storage was given back.
Shortened(m, n) == IF n <= Len(m) THEN SubSeq(m, 1, n) ELSE m

\* Reclaim shortens the arena and leaves the tables alone.
LEMMA ReclaimFacts ==
  ASSUME NEW m \in Seq(0 .. 1), NEW n, NEW r, NEW l, NEW k \in Nat
  PROVE  /\ Reclaim(Heap(m, n, r, l), k) = Heap(Shortened(m, k), n, r, l)
         /\ Shortened(m, k) \in Seq(0 .. 1) /\ Len(Shortened(m, k)) <= Len(m)
<1>1. Reclaim(Heap(m, n, r, l), k) = Heap(Shortened(m, k), n, r, l)
  <2> DEFINE g == Reclaim(Heap(m, n, r, l), k)
  <2>1. /\ IsHeap(g) /\ g.mem = Shortened(m, k) /\ g.next = n /\ g.regions = r /\ g.live = l
    BY DEF Reclaim, Heap, Shortened, IsHeap, HeapFields
  <2> HIDE DEF g
  <2>2. g = Heap(Shortened(m, k), n, r, l)
    BY <2>1, HeapEqual
  <2> QED BY <2>2 DEF g
<1>2. k <= Len(m) => SubSeq(m, 1, k) \in Seq(0 .. 1) /\ Len(SubSeq(m, 1, k)) = k
  <2> SUFFICES ASSUME k <= Len(m) PROVE SubSeq(m, 1, k) \in Seq(0 .. 1) /\ Len(SubSeq(m, 1, k)) = k
    OBVIOUS
  <2>1. \A i \in 1 .. k : m[i] \in 0 .. 1
    OBVIOUS
  <2> QED BY <2>1, SubSeqProperties
<1> QED BY <1>1, <1>2 DEF Shortened

\* A slot, a cursor and the live ranges after a change.
Placed(r, s, x) == [r EXCEPT ![s] = x]
Moved(r, s, k) == [r EXCEPT ![s].off = k]
Joined(l, x) == l \cup {RegionRange(x)}
NotAt(l, a) == {x \in l : x.start # a}
Dropped(l, x) == l \ (IF x.alive THEN {RegionRange(x)} ELSE {})

\* A stored word gets its old value back.
LEMMA StoreUndone ==
  ASSUME NEW m \in Seq(0 .. 1), NEW n, NEW r \in [SlotIds -> Regions], NEW l, NEW e,
         e.kind = "store"
  PROVE  Compensate(Heap(m, n, r, l), e) =
           Heap([m EXCEPT ![e.addr] = e.old], n, r, l)
<1> DEFINE g == Compensate(Heap(m, n, r, l), e)
<1>1. /\ IsHeap(g) /\ g.mem = [m EXCEPT ![e.addr] = e.old] /\ g.next = n /\ g.regions = r
      /\ g.live = l
  BY DEF Compensate, Heap, IsHeap, HeapFields
<1> HIDE DEF g
<1>2. g = Heap([m EXCEPT ![e.addr] = e.old], n, r, l)
  BY <1>1, HeapEqual
<1> QED BY <1>2 DEF g

\* A created region is dropped and its storage given back.
LEMMA CreateUndone ==
  ASSUME NEW m \in Seq(0 .. 1), NEW n, NEW r \in [SlotIds -> Regions], NEW l, NEW e,
         e.kind = "create", e.old \in Nat
  PROVE  Compensate(Heap(m, n, r, l), e) =
           Heap(Shortened(m, e.old), n, Placed(r, e.slot, Dead),
                Dropped(l, r[e.slot]))
<1> DEFINE x == Placed(r, e.slot, Dead)
           y == Dropped(l, r[e.slot])
<1>1. Compensate(Heap(m, n, r, l), e) = Reclaim(Heap(m, n, x, y), e.old)
  <2> DEFINE h == Heap(m, n, r, l)
             g == [h EXCEPT !.regions[e.slot] = Dead,
                            !.live = @ \ (IF h.regions[e.slot].alive
                                           THEN {RegionRange(h.regions[e.slot])} ELSE {})]
  <2>1. Compensate(h, e) = Reclaim(g, e.old)
    BY DEF Compensate, UndoCreate
  <2>2. h.regions = r
    BY HeapParts
  <2>3. IsHeap(g) /\ g.mem = m /\ g.next = n /\ g.regions = x /\ g.live = y
    BY <2>2 DEF Heap, IsHeap, HeapFields, Placed, Dropped
  <2> HIDE DEF g
  <2>4. g = Heap(m, n, x, y)
    BY <2>3, HeapEqual
  <2> QED BY <2>1, <2>4
<1>2. e.old \in Nat
  OBVIOUS
<1> HIDE DEF x, y
<1>3. Reclaim(Heap(m, n, x, y), e.old) = Heap(Shortened(m, e.old), n, x, y)
  BY <1>2, ReclaimFacts
<1> QED BY <1>1, <1>3 DEF x, y

\* A region's cursor moves back.
LEMMA CursorUndone ==
  ASSUME NEW m \in Seq(0 .. 1), NEW n, NEW r \in [SlotIds -> Regions], NEW l, NEW e,
         e.kind = "cursor"
  PROVE  Compensate(Heap(m, n, r, l), e) =
           Heap(m, n, Moved(r, e.slot, e.old), l)
<1> DEFINE g == Compensate(Heap(m, n, r, l), e)
<1>1. /\ IsHeap(g) /\ g.mem = m /\ g.next = n /\ g.regions = Moved(r, e.slot, e.old)
      /\ g.live = l
  BY DEF Compensate, Heap, IsHeap, HeapFields, Moved
<1> HIDE DEF g
<1>2. g = Heap(m, n, Moved(r, e.slot, e.old), l)
  BY <1>1, HeapEqual
<1> QED BY <1>2 DEF g

\* A destroyed region comes back.
LEMMA DestroyUndone ==
  ASSUME NEW m \in Seq(0 .. 1), NEW n, NEW r \in [SlotIds -> Regions], NEW l, NEW e,
         e.kind = "destroy"
  PROVE  Compensate(Heap(m, n, r, l), e) =
           Heap(m, n, Placed(r, e.slot, e.saved), Joined(l, e.saved))
<1> DEFINE g == Compensate(Heap(m, n, r, l), e)
<1>1. /\ IsHeap(g) /\ g.mem = m /\ g.next = n /\ g.regions = Placed(r, e.slot, e.saved)
      /\ g.live = Joined(l, e.saved)
  BY DEF Compensate, UndoDestroy, Heap, IsHeap, HeapFields, Placed, Joined
<1> HIDE DEF g
<1>2. g = Heap(m, n, Placed(r, e.slot, e.saved), Joined(l, e.saved))
  BY <1>1, HeapEqual
<1> QED BY <1>2 DEF g

\* A claimed range is dropped and its storage given back.
LEMMA ClaimUndone ==
  ASSUME NEW m \in Seq(0 .. 1), NEW n, NEW r \in [SlotIds -> Regions], NEW l, NEW e,
         e.kind = "claim", e.old \in Nat
  PROVE  Compensate(Heap(m, n, r, l), e) =
           Heap(Shortened(m, e.old), n, r, NotAt(l, e.addr))
<1> DEFINE y == NotAt(l, e.addr)
<1>1. Compensate(Heap(m, n, r, l), e) = Reclaim(Heap(m, n, r, y), e.old)
  <2> DEFINE h == Heap(m, n, r, l)
             g == [h EXCEPT !.live = {x \in @ : x.start # e.addr}]
  <2>1. Compensate(h, e) = Reclaim(g, e.old)
    BY DEF Compensate, UndoClaim
  <2>2. IsHeap(g) /\ g.mem = m /\ g.next = n /\ g.regions = r /\ g.live = y
    BY DEF Heap, IsHeap, HeapFields, NotAt
  <2> HIDE DEF g
  <2>3. g = Heap(m, n, r, y)
    BY <2>2, HeapEqual
  <2> QED BY <2>1, <2>3
<1>2. e.old \in Nat
  OBVIOUS
<1> HIDE DEF y
<1>3. Reclaim(Heap(m, n, r, y), e.old) = Heap(Shortened(m, e.old), n, r, y)
  BY <1>2, ReclaimFacts
<1> QED BY <1>1, <1>3 DEF y

\* A compensation leaves a heap of the program, and the bump counter alone.
LEMMA CompensateTypes ==
  ASSUME NEW h \in Arenas, NEW e \in Effects
  PROVE  Compensate(h, e) \in Arenas /\ Compensate(h, e).next = h.next
<1> DEFINE m == h.mem
           n == h.next
           r == h.regions
           l == h.live
           g == Compensate(Heap(m, n, r, l), e)
<1>1. /\ m \in Seq(0 .. 1) /\ Len(m) \in Nat /\ Len(m) <= HeapCap /\ n \in 0 .. Slots
      /\ r \in [SlotIds -> Regions] /\ l \in SUBSET Ranges /\ h = Heap(m, n, r, l)
  BY ArenaFacts
<1> HIDE DEF m, n, r, l
<1>0. m \in Seq(0 .. 1) /\ r \in [SlotIds -> Regions]
  BY <1>1
<1>2. SUFFICES \E m2 \in Seq(0 .. 1), r2 \in [SlotIds -> Regions], l2 \in SUBSET Ranges :
                 Len(m2) <= Len(m) /\ g = Heap(m2, n, r2, l2)
  <2>1. PICK m2 \in Seq(0 .. 1), r2 \in [SlotIds -> Regions], l2 \in SUBSET Ranges :
               Len(m2) <= Len(m) /\ g = Heap(m2, n, r2, l2)
    BY <1>2
  <2>2. Len(m2) <= HeapCap
    BY <1>1, <2>1, RegionAssumption
  <2> HIDE DEF g
  <2>3. n \in 0 .. Slots
    BY <1>1
  <2>4. Heap(m2, n, r2, l2) \in Arenas
    BY <2>1, <2>2, <2>3, ArenaParts
  <2>5. Heap(m2, n, r2, l2).next = n
    BY HeapParts
  <2>6. g \in Arenas /\ g.next = n
    BY <2>1, <2>4, <2>5
  <2> QED BY <1>1, <2>6 DEF g, n
<1>3. CASE e.kind = "store"
  <2> DEFINE m2 == [m EXCEPT ![e.addr] = e.old]
  <2>1. e.addr \in Nat /\ e.old \in 0 .. 1
    BY <1>3 DEF Effects
  <2>2. m2 \in Seq(0 .. 1) /\ Len(m2) = Len(m)
    BY <1>1, <2>1, OverwriteFacts
  <2>3. g = Heap(m2, n, r, l)
    BY <1>0, <1>3, StoreUndone
  <2> HIDE DEF m2, g
  <2> QED BY <1>1, <2>2, <2>3
<1>4. CASE e.kind = "create"
  <2> DEFINE m2 == Shortened(m, e.old)
             r2 == Placed(r, e.slot, Dead)
             l2 == Dropped(l, r[e.slot])
  <2>1. e.old \in Nat
    BY <1>4 DEF Effects
  <2>2. m2 \in Seq(0 .. 1) /\ Len(m2) <= Len(m)
    BY <1>1, <2>1, ReclaimFacts
  <2>3. r2 \in [SlotIds -> Regions] /\ l2 \in SUBSET Ranges
    BY <1>1 DEF Dead, Regions, Placed, Dropped
  <2>4. g = Heap(m2, n, r2, l2)
    BY <1>0, <1>4, <2>1, CreateUndone
  <2> HIDE DEF m2, r2, l2, g
  <2> QED BY <2>2, <2>3, <2>4
<1>5. CASE e.kind = "cursor"
  <2> DEFINE r2 == Moved(r, e.slot, e.old)
  <2>1. e.old \in Nat
    BY <1>5 DEF Effects
  <2>2. r2 \in [SlotIds -> Regions]
    BY <1>1, <2>1 DEF Regions, Moved
  <2>3. g = Heap(m, n, r2, l)
    BY <1>0, <1>5, CursorUndone
  <2> HIDE DEF r2, g
  <2> QED BY <1>1, <2>2, <2>3
<1>6. CASE e.kind = "destroy"
  <2> DEFINE r2 == Placed(r, e.slot, e.saved)
             l2 == Joined(l, e.saved)
  <2>1. e.saved \in Regions
    BY <1>6 DEF Effects
  <2>2. r2 \in [SlotIds -> Regions] /\ l2 \in SUBSET Ranges
    <3>1. RegionRange(e.saved) \in Ranges
      BY <2>1 DEF RegionRange, Range8, Ranges, Regions
    <3> QED BY <1>1, <2>1, <3>1 DEF Placed, Joined
  <2>3. g = Heap(m, n, r2, l2)
    BY <1>0, <1>6, DestroyUndone
  <2> HIDE DEF r2, l2, g
  <2> QED BY <1>1, <2>2, <2>3
<1>7. CASE e.kind = "claim"
  <2> DEFINE m2 == Shortened(m, e.old)
             l2 == NotAt(l, e.addr)
  <2>1. e.old \in Nat
    BY <1>7 DEF Effects
  <2>2. m2 \in Seq(0 .. 1) /\ Len(m2) <= Len(m)
    BY <1>1, <2>1, ReclaimFacts
  <2>3. l2 \in SUBSET Ranges
    BY <1>1 DEF NotAt
  <2>4. g = Heap(m2, n, r, l2)
    BY <1>0, <1>7, <2>1, ClaimUndone
  <2> HIDE DEF m2, l2, g
  <2> QED BY <1>1, <2>2, <2>3, <2>4
<1> QED BY <1>3, <1>4, <1>5, <1>6, <1>7 DEF Effects

\* So does a rollback.
LEMMA UndoTypes ==
  ASSUME NEW h \in Arenas, NEW journal \in Seq(Effects)
  PROVE  Undo(h, journal) \in Arenas /\ Undo(h, journal).next = h.next
<1> DEFINE H == {g \in Arenas : g.next = h.next}
<1>1. \A g \in H, e \in Effects : Compensate(g, e) \in H
  BY CompensateTypes
<1>2. h \in H
  OBVIOUS
<1> HIDE DEF H
<1>3. Undo(h, journal) \in H
  BY <1>1, <1>2, UndoStays
<1> QED BY <1>3 DEF H

-----------------------------------------------------------------------------
\* A heap whose ranges are sound, told by its parts: every live range lies in
\* the arena and none is empty, no two overlap, a live region has a range of
\* its own and a dead slot holds nothing.
SoundParts(m, r, l) ==
  /\ \A x \in l : x.start < x.end /\ x.end <= Len(m) + 1
  /\ \A x, y \in l : x # y => x.end <= y.start \/ y.end <= x.start
  /\ \A s \in SlotIds :
       IF r[s].alive THEN RegionRange(r[s]) \in l /\ r[s].off <= r[s].size ELSE r[s] = Dead
  /\ \A s, t \in SlotIds : s # t /\ r[s].alive /\ r[t].alive => r[s].base # r[t].base
Sound(h) == SoundParts(h.mem, h.regions, h.live)

\* What an operation that leaves heap g and effect e must satisfy: the bump
\* counter never goes back, and while it is 0 the heap stays sound and the
\* compensation is exact.
Effective(h, g, e) ==
  /\ g \in Arenas /\ e \in Effects /\ g.next >= h.next
  /\ g.next = 0 /\ Sound(h) => Sound(g) /\ Compensate(g, e) = h

\* The arena after a reservation.
Grown(m, k) == m \o [i \in 1 .. k |-> 0]
Taken(l, m, k) == l \cup {Range8(Len(m) + 1, k)}

\* A reservation adds k words, and giving them back restores the arena.
LEMMA GrownFacts ==
  ASSUME NEW m \in Seq(0 .. 1), NEW k \in Nat
  PROVE  /\ Grown(m, k) \in Seq(0 .. 1) /\ Len(Grown(m, k)) = Len(m) + k
         /\ Shortened(Grown(m, k), Len(m)) = m
<1> DEFINE z == [i \in 1 .. k |-> 0]
           g == Grown(m, k)
<1>1. z \in Seq(0 .. 1) /\ Len(z) = k /\ Len(m) \in Nat
  <2>1. z \in [1 .. k -> 0 .. 1]
    OBVIOUS
  <2> QED BY <2>1
<1> HIDE DEF z
<1>2. g \in Seq(0 .. 1) /\ Len(g) = Len(m) + k /\ \A i \in 1 .. Len(m) : g[i] = m[i]
  BY <1>1 DEF Grown, z
<1> HIDE DEF g
<1>3. Len(m) <= Len(g) /\ SubSeq(g, 1, Len(m)) \in Seq(0 .. 1) /\ Len(SubSeq(g, 1, Len(m))) = Len(m)
  <2>1. Len(m) <= Len(g) /\ \A i \in 1 .. Len(m) : g[i] \in 0 .. 1
    BY <1>1, <1>2
  <2> QED BY <1>1, <1>2, <2>1, SubSeqProperties
<1>4. \A i \in 1 .. Len(m) : SubSeq(g, 1, Len(m))[i] = m[i]
  BY <1>1, <1>2, <1>3
<1>5. SubSeq(g, 1, Len(m)) = m
  BY <1>1, <1>3, <1>4, SeqEqual
<1> QED BY <1>2, <1>3, <1>5 DEF Shortened, g

\* claim puts a new range behind the others.
LEMMA ClaimParts ==
  ASSUME NEW m \in Seq(0 .. 1), NEW n, NEW r, NEW l, NEW k \in Nat
  PROVE  Claim(Heap(m, n, r, l), k) = Heap(Grown(m, k), n, r, Taken(l, m, k))
<1> DEFINE g == Claim(Heap(m, n, r, l), k)
<1>1. IsHeap(g) /\ g.mem = Grown(m, k) /\ g.next = n /\ g.regions = r /\ g.live = Taken(l, m, k)
  BY DEF Claim, Reserve, Heap, IsHeap, HeapFields, Grown, Taken
<1> HIDE DEF g
<1>2. g = Heap(Grown(m, k), n, r, Taken(l, m, k))
  BY <1>1, HeapEqual
<1> QED BY <1>2 DEF g

\* The new range is none of the others.
LEMMA TakenFacts ==
  ASSUME NEW m \in Seq(0 .. 1), NEW r \in [SlotIds -> Regions], NEW l \in SUBSET Ranges,
         NEW k \in Nat \ {0}
  PROVE  /\ Taken(l, m, k) \in SUBSET Ranges
         /\ SoundParts(m, r, l) =>
              /\ SoundParts(Grown(m, k), r, Taken(l, m, k))
              /\ NotAt(Taken(l, m, k), Len(m) + 1) = l
              /\ \A d : d.alive /\ RegionRange(d) = Range8(Len(m) + 1, k) =>
                   Dropped(Taken(l, m, k), d) = l
<1> DEFINE x == Range8(Len(m) + 1, k)
           a == Len(m)
           b == Len(Grown(m, k))
<1>1. a \in Nat /\ x \in Ranges /\ x.start = a + 1 /\ x.end = a + 1 + k /\ b = a + k
  <2>1. Len(m) \in Nat /\ k \in Nat /\ Len(Grown(m, k)) = Len(m) + k
    <3>1. Len(m) \in Nat /\ k \in Nat
      OBVIOUS
    <3> QED BY <3>1, GrownFacts
  <2> QED BY <2>1 DEF Range8, Ranges
<1> HIDE DEF x, a, b
<1>2. Taken(l, m, k) = l \cup {x}
  BY DEF Taken, x
<1>3. ASSUME SoundParts(m, r, l)
      PROVE  /\ SoundParts(Grown(m, k), r, l \cup {x})
             /\ NotAt(l \cup {x}, a + 1) = l
             /\ \A d : d.alive /\ RegionRange(d) = x => Dropped(l \cup {x}, d) = l
  <2>1. \A y \in l : y.start \in Nat /\ y.end \in Nat /\ y.start < y.end /\ y.end <= a + 1
    BY <1>3 DEF SoundParts, a, Ranges
  <2>2. x \notin l
    BY <1>1, <2>1
  <2>3. \A y \in l \cup {x} : y.start < y.end /\ y.end <= b + 1
    BY <1>1, <2>1
  <2>4. \A y, z \in l \cup {x} : y # z => y.end <= z.start \/ z.end <= y.start
    BY <1>1, <1>3, <2>1 DEF SoundParts
  <2>5. \A s \in SlotIds :
          IF r[s].alive THEN RegionRange(r[s]) \in l \cup {x} /\ r[s].off <= r[s].size
          ELSE r[s] = Dead
    BY <1>3 DEF SoundParts
  <2>6. SoundParts(Grown(m, k), r, l \cup {x})
    BY <1>3, <2>3, <2>4, <2>5 DEF SoundParts, b
  <2>7. NotAt(l \cup {x}, a + 1) = l
    BY <1>1, <2>1 DEF NotAt
  <2>8. \A d : d.alive /\ RegionRange(d) = x => Dropped(l \cup {x}, d) = l
    BY <2>2 DEF Dropped
  <2> QED BY <2>6, <2>7, <2>8
<1> QED BY <1>1, <1>2, <1>3 DEF x, a

\* ScopedEnter and a resource place, and the literals of a module.
LEMMA ClaimEffective ==
  ASSUME NEW h \in Arenas, NEW k \in Nat \ {0}, Fits(h, k)
  PROVE  /\ Effective(h, Claim(h, k), [kind |-> "claim", addr |-> Len(h.mem) + 1, old |-> Len(h.mem)])
         /\ Claim(h, k).next = h.next
<1> DEFINE m == h.mem
           n == h.next
           r == h.regions
           l == h.live
           e == [kind |-> "claim", addr |-> Len(m) + 1, old |-> Len(m)]
<1>1. /\ m \in Seq(0 .. 1) /\ Len(m) \in Nat /\ n \in 0 .. Slots
      /\ r \in [SlotIds -> Regions] /\ l \in SUBSET Ranges
  BY ArenaFacts
<1>2. h = Heap(m, n, r, l) /\ (Sound(h) <=> SoundParts(m, r, l))
  BY ArenaFacts DEF Sound
<1>3. Len(m) + k <= HeapCap
  BY DEF Fits
<1>4. e.kind = "claim" /\ e.addr = Len(m) + 1 /\ e.old = Len(m) /\ e \in Effects
  BY <1>1 DEF Effects
<1> HIDE DEF m, n, r, l, e
<1> DEFINE m2 == Grown(m, k)
           l2 == Taken(l, m, k)
           g == Heap(m2, n, r, l2)
<1>5. Claim(h, k) = g
  BY <1>1, <1>2, ClaimParts
<1>6. m2 \in Seq(0 .. 1) /\ Len(m2) <= HeapCap /\ Shortened(m2, Len(m)) = m
  BY <1>1, <1>3, GrownFacts
<1>7. l2 \in SUBSET Ranges /\ (SoundParts(m, r, l) => SoundParts(m2, r, l2) /\ NotAt(l2, Len(m) + 1) = l)
  BY <1>1, TakenFacts
<1> HIDE DEF m2, l2
<1>8. g \in Arenas /\ g.next = n /\ (Sound(g) <=> SoundParts(m2, r, l2))
  BY <1>1, <1>6, <1>7, ArenaParts, HeapParts DEF Sound
<1>9. Compensate(g, e) = Heap(Shortened(m2, e.old), n, r, NotAt(l2, e.addr))
  BY <1>1, <1>4, <1>6, ClaimUndone
<1>10. SoundParts(m, r, l) => Compensate(g, e) = h
  BY <1>2, <1>4, <1>6, <1>7, <1>9
<1>11. g.next >= h.next /\ g.next = h.next
  BY <1>1, <1>8 DEF n
<1> HIDE DEF g
<1>12. Effective(h, g, e)
  BY <1>2, <1>4, <1>7, <1>8, <1>10, <1>11 DEF Effective
<1> QED BY <1>5, <1>11, <1>12 DEF e, m

\* A cursor moved on.
LEMMA AllocParts ==
  ASSUME NEW m, NEW n, NEW r \in [SlotIds -> Regions], NEW l, NEW s \in SlotIds, NEW k
  PROVE  RegionAlloc(Heap(m, n, r, l), s, k) = Heap(m, n, Moved(r, s, r[s].off + k), l)
<1> DEFINE g == RegionAlloc(Heap(m, n, r, l), s, k)
<1>1. Heap(m, n, r, l).regions = r
  BY HeapParts
<1>2. /\ IsHeap(g) /\ g.mem = m /\ g.next = n
      /\ g.regions = Moved(r, s, r[s].off + k) /\ g.live = l
  BY <1>1 DEF RegionAlloc, Moved, Regions, Heap, IsHeap, HeapFields
<1> HIDE DEF g
<1>3. g = Heap(m, n, Moved(r, s, r[s].off + k), l)
  BY <1>2, HeapEqual
<1> QED BY <1>3 DEF g

\* A cursor moved to the start.
LEMMA ResetParts ==
  ASSUME NEW m, NEW n, NEW r \in [SlotIds -> Regions], NEW l, NEW s \in SlotIds
  PROVE  RegionReset(Heap(m, n, r, l), s) = Heap(m, n, Moved(r, s, 0), l)
<1> DEFINE g == RegionReset(Heap(m, n, r, l), s)
<1>1. Heap(m, n, r, l).regions = r
  BY HeapParts
<1>2. /\ IsHeap(g) /\ g.mem = m /\ g.next = n
      /\ g.regions = Moved(r, s, 0) /\ g.live = l
  BY <1>1 DEF RegionReset, Moved, Heap, IsHeap, HeapFields
<1> HIDE DEF g
<1>3. g = Heap(m, n, Moved(r, s, 0), l)
  BY <1>2, HeapEqual
<1> QED BY <1>3 DEF g

Removed(l, x) == l \ {RegionRange(x)}
\* A region and its range taken out.
LEMMA DestroyParts ==
  ASSUME NEW m, NEW n, NEW r \in [SlotIds -> Regions], NEW l, NEW s \in SlotIds
  PROVE  RegionDestroy(Heap(m, n, r, l), s) = Heap(m, n, Placed(r, s, Dead), Removed(l, r[s]))
<1> DEFINE g == RegionDestroy(Heap(m, n, r, l), s)
<1>1. Heap(m, n, r, l).regions = r
  BY HeapParts
<1>2. /\ IsHeap(g) /\ g.mem = m /\ g.next = n
      /\ g.regions = Placed(r, s, Dead) /\ g.live = Removed(l, r[s])
  BY <1>1 DEF RegionDestroy, Placed, Removed, Heap, IsHeap, HeapFields
<1> HIDE DEF g
<1>3. g = Heap(m, n, Placed(r, s, Dead), Removed(l, r[s]))
  BY <1>2, HeapEqual
<1> QED BY <1>3 DEF g

Over(m, a, v) == [m EXCEPT ![a] = v]
\* A word overwritten.
LEMMA StoreParts ==
  ASSUME NEW m, NEW n, NEW r \in [SlotIds -> Regions], NEW l, NEW a, NEW v
  PROVE  Store(Heap(m, n, r, l), a, v) = Heap(Over(m, a, v), n, r, l)
<1> DEFINE g == Store(Heap(m, n, r, l), a, v)
<1>1. Heap(m, n, r, l).regions = r
  BY HeapParts
<1>2. /\ IsHeap(g) /\ g.mem = Over(m, a, v) /\ g.next = n
      /\ g.regions = r /\ g.live = l
  BY <1>1 DEF Store, Over, Heap, IsHeap, HeapFields
<1> HIDE DEF g
<1>3. g = Heap(Over(m, a, v), n, r, l)
  BY <1>2, HeapEqual
<1> QED BY <1>3 DEF g

\* A word overwritten and put back.
LEMMA OverwriteBack ==
  ASSUME NEW m \in Seq(0 .. 1), NEW a \in 1 .. Len(m), NEW v \in 0 .. 1
  PROVE  Over(m, a, v) \in Seq(0 .. 1) /\ Len(Over(m, a, v)) = Len(m)
         /\ [Over(m, a, v) EXCEPT ![a] = m[a]] = m
<1> DEFINE x == Over(m, a, v)
           y == [x EXCEPT ![a] = m[a]]
<1>1. a \in Nat /\ m[a] \in 0 .. 1
  OBVIOUS
<1>2. x \in Seq(0 .. 1) /\ Len(x) = Len(m) /\ \A i \in 1 .. Len(m) : i # a => x[i] = m[i]
  BY <1>1, OverwriteFacts DEF Over
<1> HIDE DEF x
<1>3. y \in Seq(0 .. 1) /\ Len(y) = Len(m)
  BY <1>1, <1>2, OverwriteFacts
<1>4. \A i \in 1 .. Len(m) : y[i] = m[i]
  BY <1>2
<1> HIDE DEF y
<1>5. y = m
  BY <1>3, <1>4, SeqEqual
<1> QED BY <1>2, <1>5 DEF x, y

\* An operation that replaces regions and live ranges only.
LEMMA TableEffective ==
  ASSUME NEW h \in Arenas, NEW r2 \in [SlotIds -> Regions], NEW l2 \in SUBSET Ranges,
         NEW e \in Effects,
         SoundParts(h.mem, h.regions, h.live) =>
           /\ SoundParts(h.mem, r2, l2)
           /\ Compensate(Heap(h.mem, h.next, r2, l2), e) = Heap(h.mem, h.next, h.regions, h.live)
  PROVE  Effective(h, Heap(h.mem, h.next, r2, l2), e)
<1> DEFINE g == Heap(h.mem, h.next, r2, l2)
<1>1. g \in Arenas /\ g.mem = h.mem /\ g.next = h.next /\ g.regions = r2 /\ g.live = l2
  BY ArenaFacts, ArenaParts, HeapParts
<1>2. h = Heap(h.mem, h.next, h.regions, h.live) /\ h.next \in 0 .. Slots
  BY ArenaFacts
<1>3. SoundParts(h.mem, h.regions, h.live) => Compensate(g, e) = h
  BY <1>2
<1> HIDE DEF g
<1>4. g.next >= h.next
  BY <1>1, <1>2, RegionAssumption
<1>5. Sound(g) <=> SoundParts(h.mem, r2, l2)
  BY <1>1 DEF Sound
<1>6. Effective(h, g, e)
  BY <1>1, <1>3, <1>4, <1>5 DEF Effective, Sound
<1> QED BY <1>6 DEF g

\* region_alloc and region_reset move a cursor within its region.
LEMMA CursorEffective ==
  ASSUME NEW h \in Arenas, NEW s \in SlotIds, h.regions[s].alive, NEW k \in Nat,
         k <= h.regions[s].size
  PROVE  Effective(h, Heap(h.mem, h.next, Moved(h.regions, s, k), h.live),
                   [kind |-> "cursor", slot |-> s, old |-> h.regions[s].off])
<1> DEFINE m == h.mem
           n == h.next
           r == h.regions
           l == h.live
           r2 == Moved(r, s, k)
           e == [kind |-> "cursor", slot |-> s, old |-> r[s].off]
<1>1. m \in Seq(0 .. 1) /\ r \in [SlotIds -> Regions] /\ l \in SUBSET Ranges
  BY ArenaFacts
<1>2. r[s].off \in Nat /\ e.kind = "cursor" /\ e.slot = s /\ e.old = r[s].off /\ e \in Effects
  BY <1>1 DEF Effects, Regions
<1>3. r2 \in [SlotIds -> Regions] /\ Moved(r2, s, r[s].off) = r
  BY <1>1 DEF Moved, Regions
<1>4. ASSUME SoundParts(m, r, l) PROVE SoundParts(m, r2, l)
  <2>1. \A t \in SlotIds : /\ r2[t].alive = r[t].alive /\ r2[t].base = r[t].base
                           /\ r2[t].size = r[t].size /\ RegionRange(r2[t]) = RegionRange(r[t])
                           /\ (t # s => r2[t] = r[t])
    BY <1>1 DEF Moved, Regions, RegionRange
  <2>2. r2[s].off = k /\ k <= r2[s].size
    BY <1>1 DEF Moved, Regions
  <2> HIDE DEF m, r, l, r2
  <2>3. \A t \in SlotIds : IF r2[t].alive THEN RegionRange(r2[t]) \in l /\ r2[t].off <= r2[t].size
                           ELSE r2[t] = Dead
    <3> SUFFICES ASSUME NEW t \in SlotIds
                 PROVE  IF r2[t].alive THEN RegionRange(r2[t]) \in l /\ r2[t].off <= r2[t].size
                        ELSE r2[t] = Dead
      OBVIOUS
    <3>1. IF r[t].alive THEN RegionRange(r[t]) \in l /\ r[t].off <= r[t].size ELSE r[t] = Dead
      BY <1>4 DEF SoundParts
    <3>2. r[s].alive
      BY DEF r
    <3>3. CASE t = s
      BY <2>1, <2>2, <3>1, <3>2, <3>3
    <3>4. CASE t # s
      BY <2>1, <3>1, <3>4
    <3> QED BY <3>3, <3>4
  <2> QED BY <1>4, <2>1, <2>3 DEF SoundParts
<1> HIDE DEF m, n, r, l, r2, e
<1>5. Compensate(Heap(m, n, r2, l), e) = Heap(m, n, Moved(r2, e.slot, e.old), l)
  BY <1>1, <1>2, <1>3, CursorUndone
<1>6. Compensate(Heap(m, n, r2, l), e) = Heap(m, n, r, l)
  BY <1>2, <1>3, <1>5
<1> QED BY <1>1, <1>2, <1>3, <1>4, <1>6, TableEffective DEF m, n, r, l, r2, e

\* region_destroy keeps the descriptor in its effect.
LEMMA DestroyEffective ==
  ASSUME NEW h \in Arenas, NEW s \in SlotIds, h.regions[s].alive
  PROVE  Effective(h, RegionDestroy(h, s),
                   [kind |-> "destroy", slot |-> s, saved |-> h.regions[s]])
<1> DEFINE m == h.mem
           n == h.next
           r == h.regions
           l == h.live
           x == RegionRange(r[s])
           r2 == Placed(r, s, Dead)
           l2 == Removed(l, r[s])
           e == [kind |-> "destroy", slot |-> s, saved |-> r[s]]
<1>1. m \in Seq(0 .. 1) /\ r \in [SlotIds -> Regions] /\ l \in SUBSET Ranges
  BY ArenaFacts
<1>2. r[s] \in Regions /\ e.kind = "destroy" /\ e.slot = s /\ e.saved = r[s] /\ e \in Effects
  BY <1>1 DEF Effects
<1>3. r2 \in [SlotIds -> Regions] /\ Placed(r2, s, r[s]) = r /\ l2 = l \ {x} /\ l2 \in SUBSET Ranges
  BY <1>1 DEF Placed, Regions, Dead, Removed
<1>4. ASSUME SoundParts(m, r, l) PROVE SoundParts(m, r2, l2) /\ Joined(l2, r[s]) = l
  <2>1. r2[s] = Dead /\ ~r2[s].alive /\ \A t \in SlotIds : t # s => r2[t] = r[t]
    BY <1>1 DEF Placed, Dead
  <2>2. r[s].alive
    OBVIOUS
  <2> HIDE DEF m, r, l, r2, l2
  <2>3. \A t \in SlotIds : t # s /\ r[t].alive => RegionRange(r[t]) # x
    <3> SUFFICES ASSUME NEW t \in SlotIds, t # s, r[t].alive, RegionRange(r[t]) = x PROVE FALSE
      OBVIOUS
    <3>1. r[t].base = r[s].base
      BY DEF RegionRange, Range8
    <3> QED BY <1>4, <2>2, <3>1 DEF SoundParts
  <2>4. \A t \in SlotIds : IF r2[t].alive THEN RegionRange(r2[t]) \in l2 /\ r2[t].off <= r2[t].size
                           ELSE r2[t] = Dead
    <3> SUFFICES ASSUME NEW t \in SlotIds
                 PROVE  IF r2[t].alive THEN RegionRange(r2[t]) \in l2 /\ r2[t].off <= r2[t].size
                        ELSE r2[t] = Dead
      OBVIOUS
    <3>1. IF r[t].alive THEN RegionRange(r[t]) \in l /\ r[t].off <= r[t].size ELSE r[t] = Dead
      BY <1>4 DEF SoundParts
    <3> QED BY <1>3, <2>1, <2>3, <3>1
  <2>5. \A t, u \in SlotIds : t # u /\ r2[t].alive /\ r2[u].alive => r2[t].base # r2[u].base
    BY <1>4, <2>1 DEF SoundParts
  <2>6. x \in l
    BY <1>4, <2>2 DEF SoundParts
  <2> HIDE DEF x
  <2>7. SoundParts(m, r2, l2)
    <3>1. \A y \in l2 : y \in l
      BY <1>3
    <3> QED BY <1>4, <2>4, <2>5, <3>1 DEF SoundParts
  <2> QED BY <1>3, <2>6, <2>7 DEF Joined, x
<1> HIDE DEF m, n, r, l, r2, l2, e
<1>5. Compensate(Heap(m, n, r2, l2), e) = Heap(m, n, Placed(r2, e.slot, e.saved), Joined(l2, e.saved))
  BY <1>1, <1>2, <1>3, DestroyUndone
<1>6. SoundParts(m, r, l) => Compensate(Heap(m, n, r2, l2), e) = Heap(m, n, r, l)
  BY <1>2, <1>3, <1>4, <1>5
<1>7. RegionDestroy(Heap(m, n, r, l), s) = Heap(m, n, r2, l2)
  BY <1>1, DestroyParts DEF r2, l2
<1>8. h = Heap(m, n, r, l)
  BY ArenaFacts DEF m, n, r, l
<1>9. Effective(h, Heap(m, n, r2, l2), e)
  BY <1>2, <1>3, <1>4, <1>6, TableEffective DEF m, n, r, l
<1> QED BY <1>7, <1>8, <1>9 DEF e, r

\* A store to an accessible word keeps the old value in its effect.
LEMMA StoreEffective ==
  ASSUME NEW h \in Arenas, NEW a \in Accessible(h), NEW v \in 0 .. 1
  PROVE  Effective(h, Store(h, a, v), [kind |-> "store", addr |-> a, old |-> h.mem[a]])
<1> DEFINE m == h.mem
           n == h.next
           r == h.regions
           l == h.live
           m2 == Over(m, a, v)
           g == Heap(m2, n, r, l)
           e == [kind |-> "store", addr |-> a, old |-> m[a]]
<1>1. /\ m \in Seq(0 .. 1) /\ r \in [SlotIds -> Regions] /\ l \in SUBSET Ranges
      /\ Len(m) <= HeapCap /\ n \in 0 .. Slots /\ Len(m) \in Nat
  BY ArenaFacts
<1>2. a \in 1 .. Len(m) /\ a \in Nat /\ m[a] \in 0 .. 1
  BY <1>1 DEF Accessible
<1>3. e.kind = "store" /\ e.addr = a /\ e.old = m[a] /\ e \in Effects
  BY <1>2 DEF Effects
<1>4. h = Heap(m, n, r, l)
  BY ArenaFacts
<1> HIDE DEF m, n, r, l, e
<1>5. m2 \in Seq(0 .. 1) /\ Len(m2) = Len(m)
  BY <1>1, <1>2, OverwriteBack
<1>6. [m2 EXCEPT ![a] = m[a]] = m
  BY <1>1, <1>2, OverwriteBack
<1>7. SoundParts(m, r, l) => SoundParts(m2, r, l)
  BY <1>5 DEF SoundParts
<1>8. Store(Heap(m, n, r, l), a, v) = g
  BY <1>1, StoreParts
<1> HIDE DEF m2
<1>9. Compensate(g, e) = Heap([m2 EXCEPT ![e.addr] = e.old], n, r, l)
  BY <1>1, <1>3, <1>5, StoreUndone
<1>10. Compensate(g, e) = h
  BY <1>3, <1>4, <1>6, <1>9
<1>11. g \in Arenas /\ g.next = n /\ (Sound(g) <=> SoundParts(m2, r, l))
  BY <1>1, <1>5, ArenaParts, HeapParts DEF Sound
<1>12. g.next >= h.next
  BY <1>1, <1>11 DEF n
<1> HIDE DEF g
<1>13. Effective(h, g, e)
  BY <1>3, <1>7, <1>10, <1>11, <1>12 DEF Effective, Sound, m, r, l
<1> QED BY <1>4, <1>8, <1>13 DEF e, m

\* The bump counter after region_create has looked for a slot.
BumpedNext(h) == IF Free(h) = {} /\ h.next < Slots THEN h.next + 1 ELSE h.next

\* The slot that region_create takes: a dead one if there is any, and the bump
\* counter moves only when there is none.
LEMMA SlotFacts ==
  ASSUME NEW h \in Arenas
  PROVE  /\ BumpNext(h) = Heap(h.mem, BumpedNext(h), h.regions, h.live)
         /\ BumpedNext(h) \in 0 .. Slots /\ BumpedNext(h) >= h.next
         /\ SlotFor(h) # NoSlot =>
              /\ SlotFor(h) \in SlotIds
              /\ BumpedNext(h) = 0 => ~h.regions[SlotFor(h)].alive
<1>1. h.next \in 0 .. Slots /\ h = Heap(h.mem, h.next, h.regions, h.live) /\ Slots \in Nat \ {0}
  BY ArenaFacts, RegionAssumption
<1>2. BumpedNext(h) \in 0 .. Slots /\ BumpedNext(h) >= h.next
  BY <1>1 DEF BumpedNext
<1>3. BumpNext(h) = Heap(h.mem, BumpedNext(h), h.regions, h.live)
  <2>1. CASE Free(h) = {} /\ h.next < Slots
    <3> DEFINE g == BumpNext(h)
    <3>1. /\ IsHeap(g) /\ g.mem = h.mem /\ g.next = h.next + 1 /\ g.regions = h.regions
          /\ g.live = h.live
      BY <1>1, <2>1 DEF BumpNext, Heap, IsHeap, HeapFields
    <3>2. BumpedNext(h) = h.next + 1
      BY <2>1 DEF BumpedNext
    <3> HIDE DEF g
    <3>3. g = Heap(h.mem, BumpedNext(h), h.regions, h.live)
      BY <3>1, <3>2, HeapEqual
    <3> QED BY <3>3 DEF g
  <2>2. CASE ~(Free(h) = {} /\ h.next < Slots)
    <3>1. BumpNext(h) = h /\ BumpedNext(h) = h.next
      BY <2>2 DEF BumpNext, BumpedNext
    <3> QED BY <1>1, <3>1
  <2> QED BY <2>1, <2>2
<1>4. ASSUME SlotFor(h) # NoSlot
      PROVE  SlotFor(h) \in SlotIds /\ (BumpedNext(h) = 0 => ~h.regions[SlotFor(h)].alive)
  <2>1. CASE Free(h) # {}
    <3>1. Free(h) \in SUBSET Nat
      BY <1>1 DEF Free, SlotIds
    <3>2. \E s \in Free(h) : \A t \in Free(h) : s <= t
      BY <2>1, <3>1, LeastNatural
    <3>3. SlotFor(h) \in Free(h)
      BY <2>1, <3>2 DEF SlotFor
    <3> QED BY <3>3 DEF Free
  <2>2. CASE Free(h) = {}
    <3>1. h.next < Slots /\ SlotFor(h) = h.next
      BY <1>4, <2>2 DEF SlotFor
    <3>2. BumpedNext(h) = h.next + 1
      BY <2>2, <3>1 DEF BumpedNext
    <3> QED BY <1>1, <3>1, <3>2 DEF SlotIds
  <2> QED BY <2>1, <2>2
<1> QED BY <1>2, <1>3, <1>4

\* region_create puts a region over a new range into a dead slot.
LEMMA CreateEffective ==
  ASSUME NEW h \in Arenas, NEW k \in Nat \ {0}, CreateFits(h, k)
  PROVE  Effective(h, RegionCreate(h, k),
                   [kind |-> "create", slot |-> SlotFor(h), old |-> Len(h.mem)])
<1> DEFINE m == h.mem
           n == h.next
           r == h.regions
           l == h.live
           s == SlotFor(h)
           n2 == BumpedNext(h)
           x == [base |-> Len(m) + 1, size |-> k, off |-> 0, alive |-> TRUE]
           m2 == Grown(m, k)
           r2 == Placed(r, s, x)
           l2 == Taken(l, m, k)
           g == Heap(m2, n2, r2, l2)
           e == [kind |-> "create", slot |-> s, old |-> Len(m)]
<1>1. /\ m \in Seq(0 .. 1) /\ Len(m) \in Nat /\ n \in 0 .. Slots /\ h = Heap(m, n, r, l)
      /\ r \in [SlotIds -> Regions] /\ l \in SUBSET Ranges
  BY ArenaFacts
<1>2. /\ BumpNext(h) = Heap(m, n2, r, l) /\ n2 \in 0 .. Slots /\ n2 >= n /\ s \in SlotIds
      /\ n2 = 0 => ~r[s].alive
  BY SlotFacts DEF CreateFits
<1>3. Len(m) + k <= HeapCap
  BY DEF CreateFits, Fits
<1>4. e.kind = "create" /\ e.slot = s /\ e.old = Len(m) /\ e.old \in Nat /\ e \in Effects
  BY <1>1, <1>2 DEF Effects
<1>5. /\ x \in Regions /\ x.alive /\ x.base = Len(m) + 1 /\ x.off <= x.size
      /\ RegionRange(x) = Range8(Len(m) + 1, k)
  BY <1>1 DEF Regions, RegionRange
<1>6. RegionCreate(h, k) = g
  <2>1. Claim(BumpNext(h), k) = Heap(m2, n2, r, l2)
    BY <1>1, <1>2, ClaimParts
  <2>2. RegionCreate(h, k) = [Heap(m2, n2, r, l2) EXCEPT !.regions[s] = x]
    BY <2>1 DEF RegionCreate
  <2> DEFINE f == [Heap(m2, n2, r, l2) EXCEPT !.regions[s] = x]
  <2> HIDE DEF m2, l2, n2, s, x
  <2>3. IsHeap(f) /\ f.mem = m2 /\ f.next = n2 /\ f.regions = r2 /\ f.live = l2
    BY DEF Heap, IsHeap, HeapFields, Placed
  <2> HIDE DEF f
  <2>4. f = Heap(m2, n2, r2, l2)
    BY <2>3, HeapEqual
  <2> QED BY <2>2, <2>4 DEF f
<1> HIDE DEF m, n, r, l, s, n2, x, e
<1>7. m2 \in Seq(0 .. 1) /\ Len(m2) <= HeapCap /\ Shortened(m2, Len(m)) = m
  BY <1>1, <1>3, GrownFacts
<1>8. /\ l2 \in SUBSET Ranges
      /\ SoundParts(m, r, l) => SoundParts(m2, r, l2) /\ Dropped(l2, x) = l
  <2>1. m \in Seq(0 .. 1) /\ r \in [SlotIds -> Regions] /\ l \in SUBSET Ranges
    BY <1>1
  <2>2. l2 \in SUBSET Ranges /\ (SoundParts(m, r, l) => SoundParts(m2, r, l2))
    BY <2>1, TakenFacts
  <2>3. SoundParts(m, r, l) => \A d : d.alive /\ RegionRange(d) = Range8(Len(m) + 1, k) => Dropped(l2, d) = l
    BY <2>1, TakenFacts
  <2> HIDE DEF l2, m2
  <2> QED BY <1>5, <2>2, <2>3
<1>9. Range8(Len(m) + 1, k) \in l2
  BY DEF Taken
<1>10. r2 \in [SlotIds -> Regions] /\ r2[s] = x /\ \A t \in SlotIds : t # s => r2[t] = r[t]
  BY <1>1, <1>2, <1>5 DEF Placed
<1>11. ASSUME SoundParts(m, r, l), n2 = 0 PROVE SoundParts(m2, r2, l2) /\ Placed(r2, s, Dead) = r
  <2>1. r[s] = Dead
    BY <1>2, <1>11 DEF SoundParts
  <2>2. Placed(r2, s, Dead) = r
    BY <1>1, <1>2, <2>1 DEF Placed
  <2>3. \A t \in SlotIds : r[t].alive => r[t].base # x.base
    <3> SUFFICES ASSUME NEW t \in SlotIds, r[t].alive PROVE r[t].base # x.base
      OBVIOUS
    <3>1. RegionRange(r[t]) \in l /\ r[t].base \in Nat /\ r[t].size \in Nat
      BY <1>1, <1>11 DEF SoundParts, Regions
    <3>2. RegionRange(r[t]).start < RegionRange(r[t]).end /\ RegionRange(r[t]).end <= Len(m) + 1
      BY <1>11, <3>1 DEF SoundParts
    <3>3. r[t].base < Len(m) + 1
      BY <1>1, <3>1, <3>2 DEF RegionRange, Range8
    <3> QED BY <1>1, <1>5, <3>1, <3>3
  <2>4. \A t, u \in SlotIds : t # u /\ r2[t].alive /\ r2[u].alive => r2[t].base # r2[u].base
    <3> SUFFICES ASSUME NEW t \in SlotIds, NEW u \in SlotIds, t # u, r2[t].alive, r2[u].alive
                 PROVE  r2[t].base # r2[u].base
      OBVIOUS
    <3>1. CASE t # s /\ u # s
      BY <1>8, <1>10, <1>11, <3>1 DEF SoundParts
    <3>2. CASE t = s
      BY <1>10, <2>3, <3>2
    <3>3. CASE u = s
      BY <1>10, <2>3, <3>3
    <3> QED BY <3>1, <3>2, <3>3
  <2>5. \A t \in SlotIds :
          IF r2[t].alive THEN RegionRange(r2[t]) \in l2 /\ r2[t].off <= r2[t].size
          ELSE r2[t] = Dead
    <3> SUFFICES ASSUME NEW t \in SlotIds
                 PROVE  IF r2[t].alive THEN RegionRange(r2[t]) \in l2 /\ r2[t].off <= r2[t].size
                        ELSE r2[t] = Dead
      OBVIOUS
    <3>1. CASE t = s
      BY <1>5, <1>9, <1>10, <3>1
    <3>2. CASE t # s
      BY <1>8, <1>10, <1>11, <3>2 DEF SoundParts
    <3> QED BY <3>1, <3>2
  <2> HIDE DEF m2, r2, l2
  <2>6. SoundParts(m2, r2, l2)
    BY <1>8, <1>11, <2>4, <2>5 DEF SoundParts
  <2> QED BY <2>2, <2>6
<1> HIDE DEF m2, r2, l2
<1>12. Compensate(g, e) = Heap(Shortened(m2, e.old), n2, Placed(r2, e.slot, Dead), Dropped(l2, r2[e.slot]))
  BY <1>4, <1>7, <1>10, CreateUndone
<1>14. SoundParts(m, r, l) /\ n2 = 0 => Compensate(g, e) = h
  <2> SUFFICES ASSUME SoundParts(m, r, l), n2 = 0 PROVE Compensate(g, e) = h
    OBVIOUS
  <2>1. n = n2
    BY <1>1, <1>2
  <2>2. Compensate(g, e) = Heap(m, n2, r, l)
    BY <1>4, <1>7, <1>10, <1>11, <1>12, <1>8
  <2> QED BY <1>1, <2>1, <2>2
<1>15. g \in Arenas /\ g.next = n2 /\ (Sound(g) <=> SoundParts(m2, r2, l2))
  BY <1>2, <1>7, <1>8, <1>10, ArenaParts, HeapParts DEF Sound
<1>16. g.next >= h.next
  BY <1>2, <1>15 DEF n
<1> HIDE DEF g
<1>17. Effective(h, g, e)
  BY <1>4, <1>11, <1>14, <1>15, <1>16 DEF Effective, Sound, m, r, l
<1> QED BY <1>6, <1>17 DEF e, m, s

-----------------------------------------------------------------------------
\* What a journal promises: undone from its last effect, it gives the heap at
\* the checkpoint.
Undoable(h, journal, entry) ==
  h.next = 0 => Sound(h) /\ Sound(entry) /\ Undo(h, journal) = entry

\* One more effect.
LEMMA UndoableGrows ==
  ASSUME NEW h \in Arenas, NEW journal \in Seq(Effects), NEW entry, NEW g, NEW e,
         Undoable(h, journal, entry), Effective(h, g, e)
  PROVE  journal \o <<e>> \in Seq(Effects) /\ g \in Arenas /\ Undoable(g, journal \o <<e>>, entry)
<1>1. e \in Effects /\ g \in Arenas /\ journal \o <<e>> = Append(journal, e)
      /\ Append(journal, e) \in Seq(Effects)
  BY DEF Effective
<1>2. g.next = 0 => h.next = 0
  <2>1. h.next \in Nat /\ g.next \in Nat /\ g.next >= h.next
    BY <1>1, ArenaFacts, RegionAssumption DEF Effective
  <2> QED BY <2>1
<1>3. ASSUME g.next = 0
      PROVE  Sound(g) /\ Sound(entry) /\ Undo(g, Append(journal, e)) = entry
  <2>1. Sound(h) /\ Sound(entry) /\ Undo(h, journal) = entry
    BY <1>2, <1>3 DEF Undoable
  <2>2. Sound(g) /\ Compensate(g, e) = h
    BY <1>3, <2>1 DEF Effective
  <2>3. Undo(g, Append(journal, e)) = Undo(Compensate(g, e), journal)
    BY <1>1, UndoLast
  <2> QED BY <2>1, <2>2, <2>3
<1> QED BY <1>1, <1>3 DEF Undoable

\* A fresh heap.
LEMMA EmptyHeapFacts == EmptyHeap \in Arenas /\ EmptyHeap.next = 0 /\ Sound(EmptyHeap)
<1> DEFINE r == [s \in SlotIds |-> Dead]
<1>1. EmptyHeap = Heap(<<>>, 0, r, {})
  BY DEF EmptyHeap, Heap
<1>2. r \in [SlotIds -> Regions] /\ \A s \in SlotIds : r[s] = Dead /\ ~r[s].alive
  BY DEF Dead, Regions
<1>3. <<>> \in Seq(0 .. 1) /\ Len(<<>>) <= HeapCap /\ 0 \in 0 .. Slots /\ {} \in SUBSET Ranges
  BY RegionAssumption
<1> HIDE DEF r
<1>4. Heap(<<>>, 0, r, {}) \in Arenas
  BY <1>2, <1>3, ArenaParts
<1>5. SoundParts(<<>>, r, {})
  BY <1>2 DEF SoundParts
<1> QED BY <1>1, <1>4, <1>5, HeapParts DEF Sound

-----------------------------------------------------------------------------
\* The phrases that run or wait.
Runs == [live : {TRUE}, heap : Arenas, stack : 0 .. MaxDepth, journal : Seq(Effects),
         entryStack : 0 .. MaxDepth, out : Nat, fuel : Nat, built : Nat, before : Arenas,
         entry : Arenas]
Kept(r) == Undoable(r.heap, r.journal, r.entry)

SessionTypes ==
  /\ source \in 0 .. WordCap /\ words \in source .. WordCap /\ artifact \in 0 .. MaxCommits
  /\ heap \in Arenas /\ stack \in 0 .. MaxDepth /\ outTotal \in Nat /\ emitted \in Nat
  /\ status \in Statuses

RunInv ==
  /\ run = NoRun \/ run \in Runs
  /\ run.live => /\ ~suspended.live /\ Kept(run) /\ Len(run.journal) <= MaxJournal
                 /\ run.built = artifact

SuspensionInv ==
  /\ suspended = NoRun \/ suspended \in Runs
  /\ suspended.live =>
       /\ Kept(suspended) /\ Len(suspended.journal) <= MaxJournal /\ suspended.out = 0
       /\ suspended.built = artifact /\ suspended.entryStack = stack
       /\ Undo(suspended.heap, suspended.journal) = heap

SurfaceSound == heap.next = 0 => Sound(heap)

\* The inductive invariant.
SessionInv == SessionTypes /\ RunInv /\ SuspensionInv /\ SurfaceSound /\ OutputOnce

\* The parts of a phrase.
LEMMA RunFacts ==
  ASSUME NEW r \in Runs
  PROVE  /\ r.live = TRUE /\ r.heap \in Arenas /\ r.stack \in 0 .. MaxDepth
         /\ r.journal \in Seq(Effects) /\ r.entryStack \in 0 .. MaxDepth /\ r.out \in Nat
         /\ r.fuel \in Nat /\ r.built \in Nat /\ r.entry \in Arenas
  BY DEF Runs

\* No phrase.
LEMMA NoRunFacts == NoRun.live = FALSE
  BY DEF NoRun

\* The session starts in order.
LEMMA InitSession == Init => SessionInv
<1> SUFFICES ASSUME Init PROVE SessionInv
  OBVIOUS
<1>1. SessionTypes
  BY SessionAssumption, EmptyHeapFacts DEF Init, Fresh, SessionTypes, Statuses
<1>2. RunInv /\ SuspensionInv
  BY NoRunFacts DEF Init, RunInv, SuspensionInv
<1>3. SurfaceSound /\ OutputOnce
  BY EmptyHeapFacts, NoRunFacts DEF Init, Fresh, SurfaceSound, OutputOnce
<1> QED BY <1>1, <1>2, <1>3 DEF SessionInv

\* A reset restarts it in order.
LEMMA ResetSession ==
  ASSUME SessionInv, Reset
  PROVE  SessionInv'
<1>1. run.live = FALSE
  BY RunFacts, NoRunFacts DEF Reset, SessionInv, RunInv
<1>2. SessionTypes'
  BY SessionAssumption, EmptyHeapFacts DEF Reset, Fresh, SessionTypes, Statuses
<1>3. RunInv' /\ SuspensionInv'
  BY <1>1, NoRunFacts DEF SessionInv, Reset, RunInv, SuspensionInv
<1>4. SurfaceSound' /\ OutputOnce'
  BY <1>1, EmptyHeapFacts DEF Reset, Fresh, SurfaceSound, OutputOnce
<1> QED BY <1>2, <1>3, <1>4 DEF SessionInv

\* A step that keeps the surface, the output and the phrases.
LEMMA StatusSession ==
  ASSUME SessionInv, status' \in Statuses, UNCHANGED <<Surface, Output, run, suspended>>
  PROVE  SessionInv'
  BY DEF SessionInv, SessionTypes, RunInv, SuspensionInv, SurfaceSound, OutputOnce, Surface,
         Output, Kept

\* A refused submission drops the suspended phrase only.
LEMMA RefusedSession ==
  ASSUME SessionInv, NEW s, SubmitRefused(s)
  PROVE  SessionInv'
<1>1. status' \in Statuses
  BY DEF SubmitRefused, Verdicts, Statuses
<1>2. suspended' = NoRun /\ run' = run /\ UNCHANGED <<Surface, Output>>
  BY DEF SubmitRefused, SuspensionAfterSubmit
<1>3. SessionTypes' /\ RunInv' /\ SurfaceSound' /\ OutputOnce'
  BY <1>1, <1>2, NoRunFacts
     DEF SessionInv, SessionTypes, RunInv, SurfaceSound, OutputOnce, Surface, Output, Kept
<1>4. SuspensionInv'
  BY <1>2, NoRunFacts DEF SuspensionInv
<1> QED BY <1>3, <1>4 DEF SessionInv

\* What a commit does to the buffer.
LEMMA CommitTypes ==
  ASSUME SessionTypes, NEW s \in Submissions, Commit(s)
  PROVE  /\ source' \in 0 .. WordCap /\ words' \in source' .. WordCap
         /\ artifact' \in 0 .. MaxCommits /\ artifact' = artifact + 1 /\ suspended' = NoRun
<1>1. s.defs \in 0 .. MaxDefs /\ MaxDefs \in Nat /\ WordCap \in Nat /\ MaxCommits \in Nat
  BY SessionAssumption DEF Submissions
<1>2. SourceAfter(s) \in Nat
  BY <1>1 DEF SourceAfter, SessionTypes
<1>3. WordsBuilt(s) <= WordCap
  BY <1>1, <1>2 DEF Commit, Verdicts, WordsBuilt
<1>4. WordsBuilt(s) \in SourceAfter(s) .. WordCap
  BY <1>1, <1>2, <1>3 DEF WordsBuilt
<1>5. SourceAfter(s) \in 0 .. WordCap
  BY <1>1, <1>2, <1>4
<1> QED BY <1>1, <1>4, <1>5 DEF Commit, SessionTypes, SuspensionAfterSubmit

\* Definitions alone: transaction 1 commits.
LEMMA DefinitionsSession ==
  ASSUME SessionInv, NEW s \in Submissions, SubmitDefinitions(s)
  PROVE  SessionInv'
<1>1. /\ source' \in 0 .. WordCap /\ words' \in source' .. WordCap
      /\ artifact' \in 0 .. MaxCommits /\ suspended' = NoRun
  BY CommitTypes DEF SubmitDefinitions, SessionInv
<1>2. UNCHANGED <<heap, stack, run, outTotal, emitted>> /\ status' = "ok" /\ run.live = FALSE
  BY RunFacts, NoRunFacts DEF SubmitDefinitions, Commit, Output, SessionInv, RunInv
<1>3. SessionTypes' /\ SurfaceSound' /\ OutputOnce'
  BY <1>1, <1>2 DEF SessionInv, SessionTypes, SurfaceSound, OutputOnce, Statuses
<1>4. RunInv' /\ SuspensionInv'
  BY <1>1, <1>2, NoRunFacts DEF SessionInv, RunInv, SuspensionInv
<1> QED BY <1>3, <1>4 DEF SessionInv

\* A phrase starts on the surface, with the module's literals placed in it.
LEMMA StartSession ==
  ASSUME SessionInv, NEW s \in Submissions, NEW literals \in 0 .. 1, StartPhrase(s, literals)
  PROVE  SessionInv'
<1> DEFINE h == InternCompiled(heap, literals)
           r == [live |-> TRUE, heap |-> h, stack |-> stack, journal |-> << >>,
                 entryStack |-> stack, out |-> 0, fuel |-> FuelBudget,
                 built |-> artifact + 1, before |-> heap, entry |-> h]
<1>1. /\ source' \in 0 .. WordCap /\ words' \in source' .. WordCap
      /\ artifact' \in 0 .. MaxCommits /\ suspended' = NoRun
  BY CommitTypes DEF StartPhrase, SessionInv
<1>2. /\ run' = r /\ heap' = EmptyHeap /\ stack' = 0
      /\ UNCHANGED <<outTotal, emitted, status>>
  BY DEF StartPhrase, Output
<1>3. run.live = FALSE
  BY RunFacts, NoRunFacts DEF StartPhrase, Commit, SessionInv, RunInv
<1>4. h \in Arenas /\ (h.next = 0 => Sound(h))
  <2>1. CASE literals = 1 /\ Fits(heap, 1)
    <3>1. h = Claim(heap, 1)
      BY <2>1 DEF InternCompiled
    <3> DEFINE e == [kind |-> "claim", addr |-> Len(heap.mem) + 1, old |-> Len(heap.mem)]
    <3>2. heap \in Arenas /\ 1 \in Nat \ {0}
      BY DEF SessionInv, SessionTypes
    <3>3. Effective(heap, Claim(heap, 1), e) /\ Claim(heap, 1).next = heap.next
      BY <2>1, <3>2, ClaimEffective
    <3> HIDE DEF h, e
    <3> QED BY <3>1, <3>3 DEF Effective, SessionInv, SurfaceSound
  <2>2. CASE ~(literals = 1 /\ Fits(heap, 1))
    <3>1. h = heap
      BY <2>2 DEF InternCompiled
    <3> HIDE DEF h
    <3> QED BY <3>1 DEF SessionInv, SessionTypes, SurfaceSound
  <2> QED BY <2>1, <2>2
<1> HIDE DEF h
<1>5. r \in Runs
  <2>1. artifact + 1 \in Nat /\ FuelBudget \in Nat /\ heap \in Arenas /\ stack \in 0 .. MaxDepth
        /\ <<>> \in Seq(Effects)
    BY SessionAssumption DEF SessionInv, SessionTypes
  <2> QED BY <1>4, <2>1 DEF Runs
<1>6. Kept(r) /\ Len(r.journal) <= MaxJournal /\ r.out = 0 /\ r.live = TRUE
  BY <1>4, UndoNothing, SessionAssumption DEF Kept, Undoable
<1>10. r.built = artifact'
  BY CommitTypes DEF StartPhrase, SessionInv
<1> HIDE DEF r
<1>7. SessionTypes' /\ SurfaceSound'
  BY <1>1, <1>2, EmptyHeapFacts, SessionAssumption DEF SessionInv, SessionTypes, SurfaceSound
<1>8. OutputOnce'
  BY <1>2, <1>3, <1>6 DEF SessionInv, SessionTypes, OutputOnce
<1>9. RunInv' /\ SuspensionInv'
  BY <1>1, <1>2, <1>5, <1>6, <1>10, NoRunFacts DEF RunInv, SuspensionInv
<1> QED BY <1>7, <1>8, <1>9 DEF SessionInv

\* A step of a phrase that leaves everything else alone.
LEMMA PhraseSession ==
  ASSUME SessionInv, run.live, run' \in Runs, Kept(run'), Len(run'.journal) <= MaxJournal,
         run'.built = run.built,
         UNCHANGED <<Surface, suspended, outTotal, status>>,
         emitted' \in Nat, emitted' - emitted = run'.out - run.out
  PROVE  SessionInv'
<1>1. run \in Runs /\ ~suspended.live
  BY NoRunFacts DEF SessionInv, RunInv
<1>2. SessionTypes' /\ SurfaceSound' /\ SuspensionInv'
  BY <1>1 DEF SessionInv, SessionTypes, SurfaceSound, SuspensionInv, Surface
<1>3. OutputOnce'
  <2>1. /\ emitted = outTotal + run.out /\ outTotal' = outTotal /\ outTotal \in Nat
        /\ emitted \in Nat
    BY DEF SessionInv, SessionTypes, OutputOnce
  <2>2. run.out \in Nat /\ run'.out \in Nat /\ run'.live = TRUE
    BY <1>1, RunFacts
  <2>3. emitted' = outTotal' + run'.out
    BY <2>1, <2>2
  <2> QED BY <2>2, <2>3 DEF OutputOnce
<1>4. RunInv'
  BY <1>1 DEF SessionInv, RunInv, Surface
<1> QED BY <1>2, <1>3, <1>4 DEF SessionInv

\* An operation with its effect.
LEMMA DoSession ==
  ASSUME SessionInv, NEW name, NEW pops \in Nat, NEW pushes \in Nat, NEW h, NEW effects,
         Do(name, pops, pushes, h, effects),
         \/ h = run.heap /\ effects = <<>>
         \/ \E e : Effective(run.heap, h, e) /\ effects = <<e>>
  PROVE  SessionInv'
<1> DEFINE r == [run EXCEPT !.fuel = @ - 1, !.stack = @ - pops + pushes,
                            !.heap = h, !.journal = @ \o effects]
<1>1. run \in Runs /\ run.live
  BY NoRunFacts DEF Do, SessionInv, RunInv
<1>2. /\ run.heap \in Arenas /\ run.stack \in 0 .. MaxDepth /\ run.journal \in Seq(Effects)
      /\ run.out \in Nat /\ run.fuel \in Nat /\ MaxDepth \in Nat
  BY <1>1, RunFacts, SessionAssumption
<1>3. run' = r /\ run.fuel > 0 /\ run.stack >= pops /\ run.stack - pops + pushes <= MaxDepth
      /\ Len(run.journal) + Len(effects) <= MaxJournal
      /\ UNCHANGED <<Surface, suspended, outTotal, emitted, status>>
  BY DEF Do, Output
<1>4. /\ h \in Arenas /\ run.journal \o effects \in Seq(Effects)
      /\ Undoable(h, run.journal \o effects, run.entry)
      /\ Len(run.journal \o effects) <= MaxJournal
  <2>1. Undoable(run.heap, run.journal, run.entry)
    BY <1>1 DEF SessionInv, RunInv, Kept
  <2>2. CASE h = run.heap /\ effects = <<>>
    <3>1. run.journal \o effects = run.journal
      BY <1>2, <2>2
    <3> QED BY <1>2, <1>3, <2>1, <2>2, <3>1
  <2>3. ASSUME NEW e, Effective(run.heap, h, e), effects = <<e>>
        PROVE  /\ h \in Arenas /\ run.journal \o effects \in Seq(Effects)
               /\ Undoable(h, run.journal \o effects, run.entry)
               /\ Len(run.journal \o effects) <= MaxJournal
    <3>1. /\ run.journal \o <<e>> \in Seq(Effects) /\ h \in Arenas
          /\ Undoable(h, run.journal \o <<e>>, run.entry)
      BY <1>2, <2>1, <2>3, UndoableGrows
    <3>2. Len(run.journal \o <<e>>) = Len(run.journal) + Len(<<e>>)
      <4>1. e \in Effects
        BY <2>3 DEF Effective
      <4>2. <<e>> \in Seq(Effects)
        BY <4>1
      <4> QED BY <1>2, <4>2
    <3> QED BY <1>3, <2>3, <3>1, <3>2
  <2> QED BY <2>2, <2>3
<1>5. r \in Runs
  <2> DEFINE j == run.journal \o effects
             d == run.stack - pops + pushes
             f == run.fuel - 1
  <2>1. j \in Seq(Effects) /\ d \in 0 .. MaxDepth /\ f \in Nat /\ h \in Arenas
    BY <1>2, <1>3, <1>4
  <2>2. r = [run EXCEPT !.fuel = f, !.stack = d, !.heap = h, !.journal = j]
    BY <1>1 DEF Runs
  <2> HIDE DEF j, d, f, r
  <2> QED BY <1>1, <2>1, <2>2 DEF Runs
<1>6. r.heap = h /\ r.journal = run.journal \o effects /\ r.entry = run.entry /\ r.out = run.out
      /\ r.built = run.built
  BY <1>1 DEF Runs
<1> HIDE DEF r
<1>7. Kept(r) /\ Len(r.journal) <= MaxJournal
  BY <1>4, <1>6 DEF Kept
<1>8. emitted' \in Nat /\ emitted' - emitted = run'.out - run.out
  BY <1>2, <1>3, <1>6 DEF SessionInv, SessionTypes
<1> QED BY <1>1, <1>3, <1>5, <1>6, <1>7, <1>8, PhraseSession

\* Every operation that changes the heap has an exact effect.
LEMMA OperationSession ==
  ASSUME SessionInv, PhraseOp
  PROVE  SessionInv'
<1>1. run \in Runs /\ run.live
  BY NoRunFacts DEF SessionInv, RunInv, PhraseOp, Literal, CreateOp, AllocOp, ResetOp, DestroyOp,
     StoreOp, ClaimOp, Emit, Do
<1>2. /\ run.heap \in Arenas /\ run.heap.regions \in [SlotIds -> Regions] /\ run.heap.mem \in Seq(0 .. 1)
      /\ run.heap = Heap(run.heap.mem, run.heap.next, run.heap.regions, run.heap.live)
  BY <1>1, RunFacts, ArenaFacts
<1>3. HeapCap \in Nat /\ \A n \in 1 .. HeapCap : n \in Nat \ {0}
  BY RegionAssumption
<1>4. CASE Literal
  <2>1. Do("literal", 0, 1, run.heap, << >>)
    BY <1>4 DEF Literal
  <2> QED BY <2>1, DoSession
<1>5. ASSUME NEW n \in 1 .. HeapCap, CreateOp(n) PROVE SessionInv'
  <2> DEFINE e == [kind |-> "create", slot |-> SlotFor(run.heap), old |-> Len(run.heap.mem)]
             h == RegionCreate(run.heap, n)
  <2>1. Do("create", 1, 1, h, <<e>>) /\ CreateFits(run.heap, n)
    BY <1>5 DEF CreateOp
  <2>2. Effective(run.heap, h, e)
    BY <1>2, <1>3, <2>1, CreateEffective
  <2> HIDE DEF e, h
  <2> QED BY <2>1, <2>2, DoSession
<1>6. ASSUME NEW s \in SlotIds, NEW n \in 1 .. HeapCap, AllocOp(s, n) PROVE SessionInv'
  <2> DEFINE e == [kind |-> "cursor", slot |-> s, old |-> run.heap.regions[s].off]
             h == RegionAlloc(run.heap, s, n)
             k == run.heap.regions[s].off + n
  <2>1. Do("alloc", 2, 1, h, <<e>>) /\ run.heap.regions[s].alive /\ k <= run.heap.regions[s].size
    BY <1>6 DEF AllocOp, Live
  <2>2. k \in Nat
    BY <1>2, <1>3 DEF Regions
  <2>3. h = Heap(run.heap.mem, run.heap.next, Moved(run.heap.regions, s, k), run.heap.live)
    BY <1>2, AllocParts
  <2> HIDE DEF h, k
  <2>4. Effective(run.heap, h, e)
    BY <1>2, <2>1, <2>2, <2>3, CursorEffective
  <2> HIDE DEF e
  <2> QED BY <2>1, <2>4, DoSession
<1>7. ASSUME NEW s \in SlotIds, ResetOp(s) PROVE SessionInv'
  <2> DEFINE e == [kind |-> "cursor", slot |-> s, old |-> run.heap.regions[s].off]
             h == RegionReset(run.heap, s)
  <2>1. Do("reset", 1, 0, h, <<e>>) /\ run.heap.regions[s].alive
    BY <1>7 DEF ResetOp, Live
  <2>2. 0 \in Nat /\ 0 <= run.heap.regions[s].size
    BY <1>2 DEF Regions
  <2>3. h = Heap(run.heap.mem, run.heap.next, Moved(run.heap.regions, s, 0), run.heap.live)
    BY <1>2, ResetParts
  <2> HIDE DEF h
  <2>4. Effective(run.heap, h, e)
    BY <1>2, <2>1, <2>2, <2>3, CursorEffective
  <2> HIDE DEF e
  <2> QED BY <2>1, <2>4, DoSession
<1>8. ASSUME NEW s \in SlotIds, DestroyOp(s) PROVE SessionInv'
  <2> DEFINE e == [kind |-> "destroy", slot |-> s, saved |-> run.heap.regions[s]]
             h == RegionDestroy(run.heap, s)
  <2>1. Do("destroy", 1, 0, h, <<e>>) /\ run.heap.regions[s].alive
    BY <1>8 DEF DestroyOp, Live
  <2>2. Effective(run.heap, h, e)
    BY <1>2, <2>1, DestroyEffective
  <2> HIDE DEF e, h
  <2> QED BY <2>1, <2>2, DoSession
<1>9. ASSUME NEW a \in 1 .. HeapCap, NEW v \in 0 .. 1, StoreOp(a, v) PROVE SessionInv'
  <2> DEFINE e == [kind |-> "store", addr |-> a, old |-> run.heap.mem[a]]
             h == Store(run.heap, a, v)
  <2>1. Do("store", 2, 0, h, <<e>>) /\ a \in Accessible(run.heap)
    BY <1>9 DEF StoreOp
  <2>2. Effective(run.heap, h, e)
    BY <1>2, <2>1, StoreEffective
  <2> HIDE DEF e, h
  <2> QED BY <2>1, <2>2, DoSession
<1>10. ASSUME NEW name, NEW n \in Nat \ {0}, ClaimOp(name, n) PROVE SessionInv'
  <2> DEFINE e == [kind |-> "claim", addr |-> Len(run.heap.mem) + 1, old |-> Len(run.heap.mem)]
             h == Claim(run.heap, n)
  <2>1. Do(name, 0, 1, h, <<e>>) /\ Fits(run.heap, n)
    BY <1>10 DEF ClaimOp
  <2>2. Effective(run.heap, h, e)
    BY <1>2, <2>1, ClaimEffective
  <2> HIDE DEF e, h
  <2> QED BY <2>1, <2>2, DoSession
<1>11. CASE Emit
  <2> DEFINE r == [run EXCEPT !.fuel = @ - 1, !.stack = @ - 1, !.out = @ + 1]
  <2>1. run' = r /\ run.fuel > 0 /\ run.stack > 0 /\ emitted' = emitted + 1
        /\ UNCHANGED <<Surface, suspended, outTotal, status>>
    BY <1>11 DEF Emit
  <2>2. run.fuel \in Nat /\ run.stack \in 0 .. MaxDepth /\ run.out \in Nat
    BY <1>1, RunFacts
  <2>3. r \in Runs
    <3>1. run.fuel - 1 \in Nat /\ run.stack - 1 \in 0 .. MaxDepth /\ run.out + 1 \in Nat
      BY <2>1, <2>2, SessionAssumption
    <3> QED BY <1>1, <3>1 DEF Runs
  <2>4. r.heap = run.heap /\ r.journal = run.journal /\ r.entry = run.entry /\ r.out = run.out + 1
        /\ r.built = run.built
    BY <1>1 DEF Runs
  <2> HIDE DEF r
  <2>5. Kept(r) /\ Len(r.journal) <= MaxJournal
    BY <1>1, <2>4 DEF SessionInv, RunInv, Kept
  <2>6. emitted' \in Nat /\ emitted' - emitted = run'.out - run.out
    BY <2>1, <2>2, <2>4 DEF SessionInv, SessionTypes
  <2> QED BY <1>1, <2>1, <2>3, <2>4, <2>5, <2>6, PhraseSession
<1>12. 2 \in Nat \ {0} /\ 1 \in Nat \ {0}
  OBVIOUS
<1> QED BY <1>4, <1>5, <1>6, <1>7, <1>8, <1>9, <1>10, <1>11, <1>12 DEF PhraseOp

-----------------------------------------------------------------------------
\* A phrase that settles on a heap and a stack.
LEMMA SettleSession ==
  ASSUME SessionInv, run.live, NEW result \in Statuses, NEW h \in Arenas, h.next = 0 => Sound(h),
         NEW d \in 0 .. MaxDepth, Settle(result, h, d),
         \/ suspended' = suspended
         \/ /\ suspended' \in Runs /\ Kept(suspended') /\ Len(suspended'.journal) <= MaxJournal
            /\ suspended'.out = 0 /\ suspended'.built = artifact /\ suspended'.entryStack = d
            /\ Undo(suspended'.heap, suspended'.journal) = h
  PROVE  SessionInv'
<1>1. run \in Runs /\ ~suspended.live /\ run.out \in Nat
  BY NoRunFacts, RunFacts DEF SessionInv, RunInv
<1>2. /\ heap' = h /\ stack' = d /\ run' = NoRun /\ status' = result
      /\ outTotal' = outTotal + run.out /\ UNCHANGED <<source, words, artifact, emitted>>
  BY DEF Settle
<1>3. SessionTypes' /\ SurfaceSound'
  BY <1>1, <1>2 DEF SessionInv, SessionTypes, SurfaceSound
<1>4. RunInv'
  BY <1>2, NoRunFacts DEF RunInv
<1>5. OutputOnce'
  BY <1>1, <1>2, NoRunFacts DEF SessionInv, SessionTypes, OutputOnce
<1>6. SuspensionInv'
  <2>1. CASE suspended' = suspended
    BY <1>1, <2>1 DEF SessionInv, SuspensionInv
  <2>2. CASE suspended' # suspended
    BY <1>2, <2>2 DEF SuspensionInv
  <2> QED BY <2>1, <2>2
<1> QED BY <1>3, <1>4, <1>5, <1>6 DEF SessionInv

\* What the running phrase holds.
LEMMA RunningFacts ==
  ASSUME SessionInv, run.live
  PROVE  /\ run \in Runs /\ run.heap \in Arenas /\ run.stack \in 0 .. MaxDepth
         /\ run.journal \in Seq(Effects) /\ run.entryStack \in 0 .. MaxDepth
         /\ Undo(run.heap, run.journal) \in Arenas
         /\ Undo(run.heap, run.journal).next = run.heap.next
         /\ run.heap.next = 0 =>
              Sound(run.heap) /\ Sound(run.entry) /\ Undo(run.heap, run.journal) = run.entry
<1>1. run \in Runs /\ Kept(run)
  BY NoRunFacts DEF SessionInv, RunInv
<1>2. run.heap \in Arenas /\ run.journal \in Seq(Effects)
  BY <1>1, RunFacts
<1> QED BY <1>1, <1>2, RunFacts, UndoTypes DEF Kept, Undoable

\* A phrase that completes or exits.
LEMMA DoneSession ==
  ASSUME SessionInv, NEW result \in {"ok", "exited"}, Done(result)
  PROVE  SessionInv'
<1>1. run.live /\ Settle(result, run.heap, run.stack) /\ suspended' = suspended
  BY DEF Done
<1>2. result \in Statuses
  BY DEF Statuses
<1>3. run.heap \in Arenas /\ run.stack \in 0 .. MaxDepth /\ (run.heap.next = 0 => Sound(run.heap))
  BY <1>1, RunningFacts
<1> QED BY <1>1, <1>2, <1>3, SettleSession

\* A phrase that faults.
LEMMA FaultSession ==
  ASSUME SessionInv, NEW result \in {"trapped", "device_error", "internal"}, Fault(result)
  PROVE  SessionInv'
<1> DEFINE h == Undo(run.heap, run.journal)
<1>1. run.live /\ Settle(result, h, run.entryStack) /\ suspended' = suspended
  BY DEF Fault, Rollback
<1>2. result \in Statuses
  BY DEF Statuses
<1>3. h \in Arenas /\ run.entryStack \in 0 .. MaxDepth /\ (h.next = 0 => Sound(h))
  BY <1>1, RunningFacts
<1> HIDE DEF h
<1> QED BY <1>1, <1>2, <1>3, SettleSession

\* A create that finds no room: the bump counter may have moved.
LEMMA BumpedRollback ==
  ASSUME SessionInv, run.live
  PROVE  LET h == Undo(BumpNext(run.heap), run.journal)
         IN  h \in Arenas /\ (h.next = 0 => h = Undo(run.heap, run.journal) /\ run.heap.next = 0)
<1> DEFINE b == BumpNext(run.heap)
<1>1. run.heap \in Arenas /\ run.journal \in Seq(Effects)
  BY RunningFacts
<1>2. b \in Arenas /\ (b.next = 0 => b = run.heap)
  <2>1. /\ b = Heap(run.heap.mem, BumpedNext(run.heap), run.heap.regions, run.heap.live)
        /\ BumpedNext(run.heap) \in 0 .. Slots
    BY <1>1, SlotFacts
  <2>2. /\ run.heap.mem \in Seq(0 .. 1) /\ Len(run.heap.mem) <= HeapCap
        /\ run.heap.regions \in [SlotIds -> Regions] /\ run.heap.live \in SUBSET Ranges
        /\ run.heap.next \in 0 .. Slots
    BY <1>1, ArenaFacts
  <2> HIDE DEF b
  <2>3. b \in Arenas /\ b.next = BumpedNext(run.heap)
    BY <2>1, <2>2, ArenaParts, HeapParts
  <2>4. b.next = 0 => b = run.heap
    <3>1. CASE Free(run.heap) = {} /\ run.heap.next < Slots
      BY <2>2, <2>3, <3>1 DEF BumpedNext
    <3>2. CASE ~(Free(run.heap) = {} /\ run.heap.next < Slots)
      BY <3>2 DEF b, BumpNext
    <3> QED BY <3>1, <3>2
  <2> QED BY <2>3, <2>4
<1> HIDE DEF b
<1>3. Undo(b, run.journal) \in Arenas /\ Undo(b, run.journal).next = b.next
  BY <1>1, <1>2, UndoTypes
<1> QED BY <1>2, <1>3 DEF b

\* A create that finds no room rolls the phrase back.
LEMMA CreateFailsSession ==
  ASSUME SessionInv, NEW n, CreateFails(n)
  PROVE  SessionInv'
<1> DEFINE h == Undo(BumpNext(run.heap), run.journal)
<1>1. run.live /\ Settle("trapped", h, run.entryStack) /\ suspended' = suspended
  BY DEF CreateFails, Rollback
<1>2. "trapped" \in Statuses
  BY DEF Statuses
<1>3. h \in Arenas /\ (h.next = 0 => h = Undo(run.heap, run.journal) /\ run.heap.next = 0)
  BY <1>1, BumpedRollback
<1> HIDE DEF h
<1>4. run.entryStack \in 0 .. MaxDepth /\ (h.next = 0 => Sound(h))
  BY <1>1, <1>3, RunningFacts
<1> QED BY <1>1, <1>2, <1>3, <1>4, SettleSession

\* Fuel runs out: the surface is rolled back and the phrase kept, without the
\* output it has handed over.
LEMMA ExhaustSession ==
  ASSUME SessionInv, Exhaust
  PROVE  SessionInv'
<1> DEFINE h == Undo(run.heap, run.journal)
           r == AtExhaustion(run)
<1>1. run.live /\ Settle("fuel", h, run.entryStack) /\ suspended' = r
  BY DEF Exhaust, Rollback
<1>2. "fuel" \in Statuses
  BY DEF Statuses
<1>3. run \in Runs /\ h \in Arenas /\ run.entryStack \in 0 .. MaxDepth /\ (h.next = 0 => Sound(h))
  BY <1>1, RunningFacts
<1>4. /\ r \in Runs /\ r.heap = run.heap /\ r.journal = run.journal /\ r.entry = run.entry
      /\ r.out = 0 /\ r.built = run.built /\ r.entryStack = run.entryStack
  BY <1>3 DEF Runs, AtExhaustion
<1>5. Kept(run) /\ Len(run.journal) <= MaxJournal /\ run.built = artifact
  BY <1>1 DEF SessionInv, RunInv
<1>6. Undo(r.heap, r.journal) = h
  BY <1>4
<1> HIDE DEF h, r
<1>7. Kept(r) /\ Len(r.journal) <= MaxJournal /\ r.built = artifact
  BY <1>4, <1>5 DEF Kept
<1> QED BY <1>1, <1>2, <1>3, <1>4, <1>6, <1>7, SettleSession

\* A suspended phrase goes on where it stopped.
LEMMA StepSession ==
  ASSUME SessionInv, NEW ops \in StepBudgets, StepPhrase(ops)
  PROVE  SessionInv'
<1> DEFINE r == [suspended EXCEPT !.fuel = ops]
<1>1. run' = r /\ suspended' = NoRun /\ suspended.live /\ run.live = FALSE
      /\ UNCHANGED <<Surface, Output, status>>
  BY RunFacts, NoRunFacts DEF StepPhrase, SessionInv, RunInv
<1>2. suspended \in Runs /\ ops \in Nat
  BY <1>1, NoRunFacts, SessionAssumption DEF SessionInv, SuspensionInv
<1>3. /\ r \in Runs /\ r.heap = suspended.heap /\ r.journal = suspended.journal
      /\ r.entry = suspended.entry /\ r.out = suspended.out /\ r.built = suspended.built
      /\ r.live = TRUE
  BY <1>2 DEF Runs
<1> HIDE DEF r
<1>4. /\ Kept(r) /\ Len(r.journal) <= MaxJournal /\ r.built = artifact /\ r.out = 0
  BY <1>1, <1>3 DEF SessionInv, SuspensionInv, Kept
<1>5. SessionTypes' /\ SurfaceSound'
  BY <1>1 DEF SessionInv, SessionTypes, SurfaceSound, Surface, Output
<1>6. OutputOnce'
  BY <1>1, <1>3, <1>4 DEF SessionInv, SessionTypes, OutputOnce, Output
<1>7. RunInv' /\ SuspensionInv'
  BY <1>1, <1>3, <1>4, NoRunFacts DEF RunInv, SuspensionInv, Surface
<1> QED BY <1>5, <1>6, <1>7 DEF SessionInv

\* Every step keeps the invariant.
LEMMA NextSession ==
  ASSUME SessionInv, [Next]_vars
  PROVE  SessionInv'
<1>1. CASE Submit
  <2>1. CASE SubmitNothing
    <3>1. status' \in Statuses /\ UNCHANGED <<Surface, Output, run, suspended>>
      BY <2>1 DEF SubmitNothing, Statuses
    <3> QED BY <3>1, StatusSession
  <2>2. ASSUME NEW s \in Submissions, SubmitRefused(s) PROVE SessionInv'
    BY <2>2, RefusedSession
  <2>3. ASSUME NEW s \in Submissions, SubmitDefinitions(s) PROVE SessionInv'
    BY <2>3, DefinitionsSession
  <2>4. ASSUME NEW s \in Submissions, NEW literals \in 0 .. 1, StartPhrase(s, literals)
        PROVE  SessionInv'
    BY <2>4, StartSession
  <2> QED BY <1>1, <2>1, <2>2, <2>3, <2>4 DEF Submit
<1>2. CASE PhraseOp
  BY <1>2, OperationSession
<1>3. CASE Outcome
  BY <1>3, DoneSession, FaultSession, CreateFailsSession, ExhaustSession DEF Outcome
<1>4. ASSUME NEW ops \in StepBudgets, StepPhrase(ops) PROVE SessionInv'
  BY <1>4, StepSession
<1>5. CASE StepNothing
  <2>1. status' \in Statuses /\ UNCHANGED <<Surface, Output, run, suspended>>
    BY <1>5 DEF StepNothing, Statuses
  <2> QED BY <2>1, StatusSession
<1>6. CASE Reset
  BY <1>6, ResetSession
<1>7. CASE UNCHANGED vars
  <2>1. status' \in Statuses /\ UNCHANGED <<Surface, Output, run, suspended>>
    BY <1>7 DEF vars, SessionInv, SessionTypes, Surface, Output
  <2> QED BY <2>1, StatusSession
<1> QED BY <1>1, <1>2, <1>3, <1>4, <1>5, <1>6, <1>7 DEF Next

-----------------------------------------------------------------------------
\* The inductive invariant: types, what the journal of the running and of the
\* suspended phrase promises, the soundness of the surface, and the output.
THEOREM SessionInvariant == Spec => []SessionInv
<1>1. SessionInv /\ [Next]_vars => SessionInv'
  BY NextSession
<1> QED BY <1>1, InitSession, PTL DEF Spec

\* The session's buffers and heaps stay within their caps.
THEOREM SessionTypesHold == Spec => []ReplTypeOK
<1>1. SessionInv => ReplTypeOK
  <2> SUFFICES ASSUME SessionInv PROVE ReplTypeOK
    OBVIOUS
  <2>1. \A h \in Arenas : HeapOK(h)
    BY ArenaFacts DEF HeapOK
  <2>2. run.live => HeapOK(run.heap) /\ run.stack \in 0 .. MaxDepth
    BY <2>1, RunningFacts
  <2>3. suspended.live => HeapOK(suspended.heap) /\ Len(suspended.journal) <= MaxJournal
    BY <2>1, NoRunFacts, RunFacts DEF SessionInv, SuspensionInv
  <2>4. HeapOK(heap)
    BY <2>1 DEF SessionInv, SessionTypes
  <2> QED BY <2>2, <2>3, <2>4 DEF SessionInv, SessionTypes, ReplTypeOK
<1> QED BY <1>1, SessionInvariant, PTL

\* Live ranges are disjoint and inside the arena, and each live region is one
\* of them: on the surface, under the running phrase and in the kept one.
THEOREM HeapsStaySound == Spec => []HeapSound
<1>1. SessionInv => HeapSound
  <2> SUFFICES ASSUME SessionInv, NEW h \in Heaps, SlotsSufficed(h)
               PROVE  TailUnreachableIn(h) /\ RangesDisjoint(h) /\ RegionsAreLive(h)
    BY DEF HeapSound
  <2>1. h.next = 0
    BY DEF SlotsSufficed
  <2>2. Sound(h)
    <3>1. CASE h = heap
      BY <2>1, <3>1 DEF SessionInv, SurfaceSound
    <3>2. CASE run.live /\ h = run.heap
      BY <2>1, <3>2, RunningFacts
    <3>3. CASE suspended.live /\ h = suspended.heap
      BY <2>1, <3>3 DEF SessionInv, SuspensionInv, Kept, Undoable
    <3> QED BY <3>1, <3>2, <3>3 DEF Heaps
  <2> QED BY <2>2 DEF Sound, SoundParts, TailUnreachableIn, RangesDisjoint, RegionsAreLive, Live
<1> QED BY <1>1, SessionInvariant, PTL

\* A phrase kept for step belongs to the artifact, and undoing it gives the
\* surface.
THEOREM SuspensionsMatch == Spec => []SuspensionMatchesSurface
<1>1. SessionInv => SuspensionMatchesSurface
  BY DEF SessionInv, SuspensionInv, SuspensionMatchesSurface
<1> QED BY <1>1, SessionInvariant, PTL

\* Output is counted once over suspension and resumption.
THEOREM OutputCountedOnce == Spec => []OutputOnce
<1>1. SessionInv => OutputOnce
  BY DEF SessionInv
<1> QED BY <1>1, SessionInvariant, PTL

\* A phrase that ends in a fault leaves heap and stack as at its checkpoint.
THEOREM RollbacksAreExact == Spec => RollbackExact
<1> DEFINE A == (run.live /\ ~run'.live /\ status' \in Rolled /\ SlotsSufficed(heap'))
                  => heap' = run.entry /\ stack' = run.entryStack
<1>1. ASSUME SessionInv, [Next]_vars PROVE [A]_vars
  <2> SUFFICES ASSUME Next, run.live, ~run'.live, status' \in Rolled, heap'.next = 0
               PROVE  heap' = run.entry /\ stack' = run.entryStack
    BY <1>1 DEF SlotsSufficed
  <2>1. run \in Runs
    BY <1>1, RunningFacts
  <2>2. CASE Submit \/ StepNothing \/ Reset \/ \E ops \in StepBudgets : StepPhrase(ops)
    BY <2>2 DEF Submit, SubmitNothing, SubmitRefused, SubmitDefinitions, StartPhrase, Commit,
       StepNothing, Reset, StepPhrase
  <2>3. CASE PhraseOp
    <3>1. run'.live = run.live
      BY <2>1, <2>3 DEF PhraseOp, Literal, CreateOp, AllocOp, ResetOp, DestroyOp, StoreOp,
         ClaimOp, Emit, Do, Runs
    <3> QED BY <3>1
  <2>4. ASSUME NEW result \in {"ok", "exited"}, Done(result) PROVE FALSE
    BY <2>4 DEF Done, Settle, Rolled
  <2>5. ASSUME NEW result, Fault(result) PROVE heap' = run.entry /\ stack' = run.entryStack
    <3>1. heap' = Undo(run.heap, run.journal) /\ stack' = run.entryStack
      BY <2>5 DEF Fault, Rollback, Settle
    <3> QED BY <1>1, <3>1, RunningFacts
  <2>6. ASSUME NEW n, CreateFails(n) PROVE heap' = run.entry /\ stack' = run.entryStack
    <3>1. heap' = Undo(BumpNext(run.heap), run.journal) /\ stack' = run.entryStack
      BY <2>6 DEF CreateFails, Rollback, Settle
    <3>2. heap' = Undo(run.heap, run.journal) /\ run.heap.next = 0
      BY <1>1, <3>1, BumpedRollback
    <3> QED BY <1>1, <3>1, <3>2, RunningFacts
  <2>7. CASE Exhaust
    <3>1. heap' = Undo(run.heap, run.journal) /\ stack' = run.entryStack
      BY <2>7 DEF Exhaust, Rollback, Settle
    <3> QED BY <1>1, <3>1, RunningFacts
  <2> QED BY <2>2, <2>3, <2>4, <2>5, <2>6, <2>7 DEF Next, Outcome
<1> QED BY <1>1, SessionInvariant, PTL DEF Spec, RollbackExact
=============================================================================
