-------------------------- MODULE RingQueueProofs --------------------------
(***************************************************************************)
(* The ring implements the bounded queue, for every number of cells, every *)
(* word width the number of cells divides, and every set of elements.      *)
(***************************************************************************)
EXTENDS RingQueue, SequenceTheorems, TLAPS

\* Remainders: what they are, and that quotient and remainder determine them.
LEMMA ModFacts ==
  ASSUME NEW a \in Int, NEW n \in Nat \ {0}
  PROVE  a % n \in 0 .. n - 1 /\ a % n \in Int /\ \E q \in Int : a = n * q + (a % n)
<1>1. a % n \in 0 .. n - 1 /\ a % n \in Int
  OBVIOUS
<1>2. a \div n \in Int /\ a = n * (a \div n) + (a % n)
  OBVIOUS
<1> QED BY <1>1, <1>2

\* The remainder of a number given as quotient and remainder.
\* The remainder of a number given as quotient and remainder.
LEMMA ModUnique ==
  ASSUME NEW n \in Nat \ {0}, NEW q \in Int, NEW r \in 0 .. n - 1
  PROVE  (n * q + r) % n = r
OBVIOUS

\* Counting by a multiple of n does not change the remainder.
LEMMA ModShift ==
  ASSUME NEW a \in Int, NEW n \in Nat \ {0}, NEW k \in Int
  PROVE  (a + n * k) % n = a % n
<1>1. PICK q \in Int : a = n * q + (a % n)
  BY ModFacts
<1>2. a % n \in 0 .. n - 1 /\ a % n \in Int
  BY ModFacts
<1> DEFINE r == a % n
<1>3. q + k \in Int /\ r \in 0 .. n - 1 /\ r \in Int /\ a = n * q + r
  BY <1>1, <1>2
<1> HIDE DEF r
<1>4. a + n * k = n * (q + k) + r
  <2>1. n * (q + k) = n * q + n * k
    OBVIOUS
  <2>2. n * q \in Int /\ n * k \in Int
    OBVIOUS
  <2> QED BY <1>3, <2>1, <2>2
<1>5. (n * (q + k) + r) % n = r
  BY <1>3, ModUnique
<1> QED BY <1>4, <1>5 DEF r

\* Numbers less than n apart have different remainders.
LEMMA ModApart ==
  ASSUME NEW n \in Nat \ {0}, NEW a \in Int, NEW d \in 1 .. n - 1
  PROVE  (a + d) % n # a % n
<1> SUFFICES ASSUME (a + d) % n = a % n PROVE FALSE
  OBVIOUS
<1>1. PICK q \in Int : a = n * q + (a % n)
  BY ModFacts
<1>2. PICK p \in Int : a + d = n * p + ((a + d) % n)
  <2>1. a + d \in Int
    OBVIOUS
  <2> QED BY <2>1, ModFacts
<1>3. a % n \in Int
  BY ModFacts
<1>4. d = n * (p - q)
  BY <1>1, <1>2, <1>3
<1>5. p - q \in Int /\ (p - q <= 0 => n * (p - q) <= 0) /\ (p - q >= 1 => n * (p - q) >= n)
  OBVIOUS
<1> QED BY <1>4, <1>5
-----------------------------------------------------------------------------
\* The counters are words, at most Cap apart, and every cell holds an element.
RingInv ==
  /\ head \in 0 .. Word - 1
  /\ tail \in 0 .. Word - 1
  /\ cell \in [0 .. Cap - 1 -> Elems]
  /\ Fill <= Cap

\* A counter that has not wrapped, or wrapped once.
LEMMA WordFacts ==
  /\ \A x \in 0 .. Word - 1 : x % Word = x
  /\ \A x \in Word .. 2 * Word - 1 : x % Word = x - Word
  /\ \A x \in 1 - Word .. -1 : x % Word = x + Word
<1> USE RingAssumption
<1>1. Word \in Nat \ {0}
  OBVIOUS
<1>2. ASSUME NEW x \in 0 .. Word - 1 PROVE x % Word = x
  <2>1. (Word * 0 + x) % Word = x
    BY <1>1, ModUnique
  <2> QED BY <1>1, <2>1
<1>3. ASSUME NEW x \in Word .. 2 * Word - 1 PROVE x % Word = x - Word
  <2>1. x - Word \in 0 .. Word - 1 /\ Word * 1 + (x - Word) = x
    BY <1>1
  <2>2. (Word * 1 + (x - Word)) % Word = x - Word
    BY <1>1, <2>1, ModUnique
  <2> QED BY <2>1, <2>2
<1>4. ASSUME NEW x \in 1 - Word .. -1 PROVE x % Word = x + Word
  <2>1. x + Word \in 0 .. Word - 1 /\ Word * (-1) + (x + Word) = x /\ -1 \in Int
    BY <1>1
  <2>2. (Word * (-1) + (x + Word)) % Word = x + Word
    BY <1>1, <2>1, ModUnique
  <2> QED BY <2>1, <2>2
<1> QED BY <1>2, <1>3, <1>4

\* The cell of a counter does not depend on whether the counter has wrapped,
\* and counters less than Cap apart have different cells.
LEMMA CellFacts ==
  /\ \A x \in Int : Cell(x) \in 0 .. Cap - 1 /\ Cell(x + Word) = Cell(x)
  /\ \A x \in Int : \A d \in 1 .. Cap - 1 : Cell(x + d) # Cell(x)
<1> USE RingAssumption
<1>1. PICK k \in Int : Word = Cap * k
  <2>0. Word \in Int /\ Cap \in Nat \ {0}
    OBVIOUS
  <2>1. PICK k \in Int : Word = Cap * k + (Word % Cap)
    BY ONLY <2>0, ModFacts, Zenon
  <2>2. Cap * k \in Int
    OBVIOUS
  <2> QED BY <2>1, <2>2
<1>2. ASSUME NEW x \in Int PROVE Cell(x) \in 0 .. Cap - 1 /\ Cell(x + Word) = Cell(x)
  BY <1>1, ModFacts, ModShift DEF Cell
<1>3. ASSUME NEW x \in Int, NEW d \in 1 .. Cap - 1 PROVE Cell(x + d) # Cell(x)
  BY ModApart DEF Cell
<1> QED BY <1>2, <1>3

\* The fill level of two counters, and where the tail's cell is.
LEMMA FillFacts ==
  ASSUME RingInv
  PROVE  /\ Fill = IF head <= tail THEN tail - head ELSE tail - head + Word
         /\ Fill \in Nat
         /\ Cell(tail) = Cell(head + Fill)
         /\ Fill = 0 <=> head = tail
<1> USE RingAssumption
<1>1. Fill = IF head <= tail THEN tail - head ELSE tail - head + Word
  <2>1. CASE head <= tail
    <3>1. tail - head \in 0 .. Word - 1
      BY <2>1 DEF RingInv
    <3> QED BY <2>1, <3>1, WordFacts DEF Fill
  <2>2. CASE ~(head <= tail)
    <3>1. tail - head \in 1 - Word .. -1
      BY <2>2 DEF RingInv
    <3> QED BY <2>2, <3>1, WordFacts DEF Fill
  <2> QED BY <2>1, <2>2
<1>2. Fill \in Nat /\ (Fill = 0 <=> head = tail)
  BY <1>1 DEF RingInv
<1>3. Cell(tail) = Cell(head + Fill)
  <2>1. tail \in Int /\ (head + Fill = tail \/ head + Fill = tail + Word)
    BY <1>1 DEF RingInv
  <2> QED BY <2>1, CellFacts
<1> QED BY <1>1, <1>2, <1>3

\* The ring stands for a sequence of its elements.
LEMMA ContentsFacts ==
  RingInv => /\ Contents \in Seq(Elems) /\ Len(Contents) = Fill
             /\ \A i \in 1 .. Fill : Contents[i] = cell[Cell(head + i - 1)]
<1> HAVE RingInv
<1>1. Fill \in Nat
  BY FillFacts
<1>2. ASSUME NEW i \in 1 .. Fill PROVE cell[Cell(head + i - 1)] \in Elems
  <2>1. head + i - 1 \in Int
    BY <1>1 DEF RingInv
  <2> QED BY <2>1, CellFacts DEF RingInv
<1>3. Contents \in [1 .. Fill -> Elems]
  BY <1>2 DEF Contents
<1> QED BY <1>1, <1>3 DEF Contents

\* The same of the next state.
ContentsType == Contents \in Seq(Elems) /\ Len(Contents) = Fill

\* The type of the contents after a step.
\* The type of the contents after a step.
LEMMA ContentsFactsNext == RingInv' => ContentsType'
<1>1. RingInv => ContentsType
  BY ContentsFacts DEF ContentsType
<1> QED BY <1>1, PTL

\* A put appends to the sequence.
LEMMA PutAppends ==
  ASSUME RingInv, NEW e \in Elems, Put(e)
  PROVE  RingInv' /\ Len(Contents) < Cap /\ Contents' = Append(Contents, e)
<1> USE RingAssumption
<1>1. /\ Fill < Cap /\ Fill \in Nat /\ head' = head /\ head \in Int /\ tail \in Int
      /\ cell' = [cell EXCEPT ![Cell(tail)] = e] /\ tail' = (tail + 1) % Word
      /\ Cell(tail) \in 0 .. Cap - 1
  <2>1. head \in Int /\ tail \in Int
    BY DEF RingInv
  <2>2. Cell(tail) \in 0 .. Cap - 1
    BY <2>1, CellFacts
  <2> QED BY <2>1, <2>2, FillFacts DEF Put, HasRoom
<1>2. tail' = IF tail = Word - 1 THEN 0 ELSE tail + 1
  <2>1. CASE tail = Word - 1
    <3>1. tail + 1 \in Word .. 2 * Word - 1
      BY <2>1
    <3> QED BY <1>1, <2>1, <3>1, WordFacts
  <2>2. CASE tail # Word - 1
    <3>1. tail + 1 \in 0 .. Word - 1
      BY <2>2 DEF RingInv
    <3> QED BY <1>1, <2>2, <3>1, WordFacts
  <2> QED BY <2>1, <2>2
<1>3. tail' \in 0 .. Word - 1 /\ cell' \in [0 .. Cap - 1 -> Elems]
  BY <1>1, <1>2 DEF RingInv
<1>4. Fill' = Fill + 1
  <2>1. CASE head <= tail'
    <3>1. tail' - head \in 0 .. Word - 1
      BY <1>1, <1>3, <2>1 DEF RingInv
    <3>2. Fill' = tail' - head
      BY <1>1, <3>1, WordFacts DEF Fill
    <3> QED BY <1>1, <1>2, <2>1, <3>2, FillFacts DEF RingInv
  <2>2. CASE ~(head <= tail')
    <3>1. tail' - head \in 1 - Word .. -1
      BY <1>1, <1>3, <2>2 DEF RingInv
    <3>2. Fill' = tail' - head + Word
      BY <1>1, <3>1, WordFacts DEF Fill
    <3> QED BY <1>1, <1>2, <2>2, <3>2, FillFacts DEF RingInv
  <2> QED BY <2>1, <2>2
<1>5. RingInv'
  BY <1>1, <1>3, <1>4 DEF RingInv
<1>6. \A i \in 1 .. Fill : cell'[Cell(head + i - 1)] = cell[Cell(head + i - 1)]
  <2> TAKE i \in 1 .. Fill
  <2>1. /\ head + i - 1 \in Int /\ Fill - i + 1 \in 1 .. Cap - 1
        /\ (head + i - 1) + (Fill - i + 1) = head + Fill
    BY <1>1
  <2>2. Cell(head + Fill) # Cell(head + i - 1) /\ Cell(head + i - 1) \in 0 .. Cap - 1
    <3> DEFINE x == head + i - 1
               d == Fill - i + 1
    <3>1. x \in Int /\ d \in 1 .. Cap - 1 /\ x + d = head + Fill
      BY <2>1
    <3> HIDE DEF x, d
    <3>2. Cell(x + d) # Cell(x) /\ Cell(x) \in 0 .. Cap - 1
      BY <3>1, CellFacts
    <3> QED BY <3>1, <3>2 DEF x
  <2> QED BY <1>1, <2>2, FillFacts DEF RingInv
<1>7. cell'[Cell(head + (Fill + 1) - 1)] = e
  BY <1>1, FillFacts DEF RingInv
<1>8. Contents' = [i \in 1 .. Fill + 1 |-> cell'[Cell(head + i - 1)]]
  BY <1>1, <1>4 DEF Contents
<1>9. /\ Contents \in Seq(Elems) /\ Len(Contents) = Fill
      /\ \A i \in 1 .. Fill : Contents[i] = cell[Cell(head + i - 1)]
  BY ContentsFacts
<1>10. Contents' = Append(Contents, e)
  <2>1. /\ Append(Contents, e) \in Seq(Elems) /\ Len(Append(Contents, e)) = Fill + 1
        /\ \A i \in 1 .. Fill : Append(Contents, e)[i] = Contents[i]
        /\ Append(Contents, e)[Fill + 1] = e
    BY <1>9, AppendProperties
  <2>2. \A i \in 1 .. Fill + 1 : cell'[Cell(head + i - 1)] = Append(Contents, e)[i]
    <3> TAKE i \in 1 .. Fill + 1
    <3>1. CASE i \in 1 .. Fill
      BY <1>6, <1>9, <2>1, <3>1
    <3>2. CASE i = Fill + 1
      BY <1>7, <2>1, <3>2
    <3>3. i \in 1 .. Fill \/ i = Fill + 1
      BY <1>1
    <3> QED BY <3>1, <3>2, <3>3
  <2>3. \A i \in 1 .. Fill + 1 : Contents'[i] = Append(Contents, e)[i]
    BY <1>8, <2>2
  <2>4. Contents' \in Seq(Elems) /\ Len(Contents') = Fill + 1
    BY <1>4, <1>5, ContentsFactsNext DEF ContentsType
  <2> QED BY <2>1, <2>3, <2>4, SeqEqual
<1> QED BY <1>1, <1>5, <1>9, <1>10

\* A take drops the first element.
LEMMA TakeDrops ==
  ASSUME RingInv, Take
  PROVE  RingInv' /\ Contents # << >> /\ Contents' = Tail(Contents)
<1> USE RingAssumption
<1>1. /\ Fill <= Cap /\ Fill \in Nat \ {0} /\ tail' = tail /\ cell' = cell
      /\ head' = (head + 1) % Word /\ head \in Int /\ tail \in Int /\ head # tail
  BY FillFacts DEF Take, RingInv
<1>2. head' = IF head = Word - 1 THEN 0 ELSE head + 1
  <2>1. CASE head = Word - 1
    <3>1. head + 1 \in Word .. 2 * Word - 1
      BY <2>1
    <3> QED BY <1>1, <2>1, <3>1, WordFacts
  <2>2. CASE head # Word - 1
    <3>1. head + 1 \in 0 .. Word - 1
      BY <2>2 DEF RingInv
    <3> QED BY <1>1, <2>2, <3>1, WordFacts
  <2> QED BY <2>1, <2>2
<1>3. head' \in 0 .. Word - 1
  BY <1>1, <1>2 DEF RingInv
<1>4. Fill' = Fill - 1
  <2>1. CASE head' <= tail
    <3>1. tail - head' \in 0 .. Word - 1
      BY <1>1, <1>3, <2>1 DEF RingInv
    <3>2. Fill' = tail - head'
      BY <1>1, <3>1, WordFacts DEF Fill
    <3> QED BY <1>1, <1>2, <2>1, <3>2, FillFacts DEF RingInv
  <2>2. CASE ~(head' <= tail)
    <3>1. tail - head' \in 1 - Word .. -1
      BY <1>1, <1>3, <2>2 DEF RingInv
    <3>2. Fill' = tail - head' + Word
      BY <1>1, <3>1, WordFacts DEF Fill
    <3> QED BY <1>1, <1>2, <2>2, <3>2, FillFacts DEF RingInv
  <2> QED BY <2>1, <2>2
<1>5. RingInv'
  BY <1>1, <1>3, <1>4 DEF RingInv
<1>6. \A i \in 1 .. Fill - 1 : Cell(head' + i - 1) = Cell(head + (i + 1) - 1)
  <2> TAKE i \in 1 .. Fill - 1
  <2>1. /\ head' + i - 1 \in Int
        /\ \/ head + (i + 1) - 1 = head' + i - 1
           \/ head + (i + 1) - 1 = (head' + i - 1) + Word
    BY <1>1, <1>2, <1>3
  <2> QED BY <2>1, CellFacts
<1>7. /\ Contents \in Seq(Elems) /\ Len(Contents) = Fill
      /\ \A i \in 1 .. Fill : Contents[i] = cell[Cell(head + i - 1)]
  BY ContentsFacts
<1>8. Contents' = [i \in 1 .. Fill - 1 |-> cell[Cell(head' + i - 1)]]
  BY <1>1, <1>4 DEF Contents
<1>9. /\ Contents # << >> /\ Tail(Contents) \in Seq(Elems) /\ Len(Tail(Contents)) = Fill - 1
      /\ \A i \in 1 .. Fill - 1 : Tail(Contents)[i] = Contents[i + 1]
  <2>1. Contents # << >>
    BY <1>1, <1>7
  <2> QED BY <1>7, <2>1, HeadTailProperties
<1>10. \A i \in 1 .. Fill - 1 : cell[Cell(head' + i - 1)] = Contents[i + 1]
  BY <1>1, <1>6, <1>7
<1>11. Contents' = Tail(Contents)
  <2>1. \A i \in 1 .. Fill - 1 : Contents'[i] = Tail(Contents)[i]
    BY <1>1, <1>8, <1>9, <1>10
  <2>2. Contents' \in Seq(Elems) /\ Len(Contents') = Fill - 1
    BY <1>4, <1>5, ContentsFactsNext DEF ContentsType
  <2> QED BY <1>9, <2>1, <2>2, SeqEqual
<1> QED BY <1>5, <1>9, <1>11
-----------------------------------------------------------------------------
\* The counters and cells keep their types and the counters stay at most Cap
\* apart.
THEOREM RingInvariant == RingSpec => []RingInv
<1>1. RingInit => RingInv
  BY RingAssumption, WordFacts DEF RingInit, RingInv, Fill
<1>2. RingInv /\ [RingNext]_ringVars => RingInv'
  <2> SUFFICES ASSUME RingInv, [RingNext]_ringVars PROVE RingInv'
    OBVIOUS
  <2>1. CASE UNCHANGED ringVars
    BY <2>1 DEF ringVars, RingInv, Fill
  <2> QED BY <2>1, PutAppends, TakeDrops DEF RingNext
<1> QED BY <1>1, <1>2, PTL DEF RingSpec

\* The ring of the runtime is the bounded queue that the other modules use in
\* its place: what was put is taken once, in order, and no unread cell is
\* overwritten, also across a wrap of the counters.
THEOREM RingImplementsFifo == RingSpec => RingIsFifo
<1>1. RingInit => Fifo!FifoInit
  <2> SUFFICES ASSUME RingInit PROVE Contents = << >>
    BY DEF Fifo!FifoInit
  <2>1. RingInv
    BY RingAssumption, WordFacts DEF RingInit, RingInv, Fill
  <2> QED BY <2>1, FillFacts, ContentsFacts DEF RingInit
<1>2. RingInv /\ [RingNext]_ringVars => [Fifo!FifoPut \/ Fifo!FifoTake]_Contents
  <2> SUFFICES ASSUME RingInv, [RingNext]_ringVars
               PROVE  [Fifo!FifoPut \/ Fifo!FifoTake]_Contents
    OBVIOUS
  <2>1. ASSUME NEW e \in Elems, Put(e) PROVE Fifo!FifoPut
    BY <2>1, PutAppends DEF Fifo!FifoPut
  <2>2. ASSUME Take PROVE Fifo!FifoTake
    BY <2>2, TakeDrops DEF Fifo!FifoTake
  <2>3. CASE UNCHANGED ringVars
    BY <2>3 DEF ringVars, Contents, Fill
  <2> QED BY <2>1, <2>2, <2>3 DEF RingNext
<1> QED BY <1>1, <1>2, RingInvariant, PTL DEF RingSpec, RingIsFifo, Fifo!FifoSpec
=============================================================================
