---------------------------- MODULE LoaderProofs ----------------------------
(***************************************************************************)
(* Safety of the loader for every set of containers, every size of its     *)
(* tables and of the arena, and loads refused at any point.                *)
(***************************************************************************)
EXTENDS DeviceBoot, SequenceTheorems, WellFoundedInduction, TLAPS

\* A non-empty set of numbers has a least element.
LEMMA LeastElement ==
  ASSUME NEW S \in SUBSET Nat, S # {}
  PROVE  \E n \in S : \A m \in S : n <= m
<1> DEFINE R == {ss \in Nat \X Nat : ss[1] < ss[2]}
<1>1. IsWellFoundedOn(R, Nat)
  BY NatLessThanWellFounded DEF OpToRel
<1>2. PICK n \in S : \A m \in S : <<m, n>> \notin R
  <2> HIDE DEF R
  <2> QED BY <1>1, WFMin
<1>3. \A m \in S : ~(m < n)
  BY <1>2
<1> QED BY <1>3

\* Induction over the natural numbers, for a set.
LEMMA SetInduction ==
  ASSUME NEW S, 0 \in S, \A n \in Nat : n \in S => n + 1 \in S
  PROVE  Nat \subseteq S
<1> SUFFICES ASSUME Nat \ S # {} PROVE FALSE
  OBVIOUS
<1>1. PICK n \in Nat \ S : \A m \in Nat \ S : n <= m
  <2> DEFINE T == Nat \ S
  <2>1. T \in SUBSET Nat /\ T # {}
    OBVIOUS
  <2> HIDE DEF T
  <2>2. \E n \in T : \A m \in T : n <= m
    BY <2>1, LeastElement
  <2> QED BY <2>2 DEF T
<1>2. n # 0 /\ n - 1 \in Nat
  OBVIOUS
<1>3. n - 1 \in S
  BY <1>1, <1>2
<1> QED BY <1>2, <1>3

\* A sequence of checks, each with an error of its own.
Checks(checks, n) ==
  /\ n \in Nat /\ DOMAIN checks = 1 .. n
  /\ \A i \in 1 .. n : checks[i].err # "none"

\* FirstError finds none only when every check passes.
LEMMA FirstErrorNone ==
  ASSUME NEW checks, NEW n, Checks(checks, n), FirstError(checks) = "none"
  PROVE  \A i \in 1 .. n : ~checks[i].fails
<1> DEFINE failing == {i \in DOMAIN checks : checks[i].fails}
<1> SUFFICES ASSUME failing # {} PROVE FALSE
  BY DEF Checks
<1>1. failing \subseteq Nat
  BY DEF Checks
<1>2. \E i \in failing : \A j \in failing : i <= j
  <2> HIDE DEF failing
  <2> QED BY <1>1, LeastElement
<1> DEFINE k == CHOOSE i \in failing : \A j \in failing : i <= j
<1>3. k \in failing
  <2> HIDE DEF failing
  <2> QED BY <1>2
<1>4. checks[k].err # "none"
  <2> HIDE DEF k
  <2> QED BY <1>3 DEF Checks
<1> QED BY <1>4 DEF FirstError
-----------------------------------------------------------------------------
\* The function that FlattenSeq computes exists: its equation has a solution
\* on every initial segment.
Flattens(f, seqs, n) ==
  f = [i \in 1 .. n |-> IF i = 1 THEN seqs[i] ELSE f[i - 1] \o seqs[i]]

\* One step of the concatenation.
\* One step of the concatenation.
LEMMA FlattenAt ==
  ASSUME NEW f, NEW seqs, NEW n, Flattens(f, seqs, n), NEW i \in 1 .. n
  PROVE  f[i] = IF i = 1 THEN seqs[i] ELSE f[i - 1] \o seqs[i]
<1> DEFINE F(j) == IF j = 1 THEN seqs[j] ELSE f[j - 1] \o seqs[j]
<1>1. f = [j \in 1 .. n |-> F(j)]
  BY DEF Flattens
<1> HIDE DEF F
<1>2. f[i] = F(i)
  BY <1>1
<1> QED BY <1>2 DEF F

\* Every number of sequences has a concatenation.
\* Every number of sequences has a concatenation.
LEMMA FlattenExists ==
  ASSUME NEW seqs, NEW n \in Nat PROVE \E f : Flattens(f, seqs, n)
<1> DEFINE S == {m \in Nat : \E f : Flattens(f, seqs, m)}
<1>1. 0 \in S
  <2>1. Flattens(<< >>, seqs, 0)
    BY DEF Flattens
  <2> QED BY <2>1
<1>2. ASSUME NEW m \in Nat, m \in S PROVE m + 1 \in S
  <2>1. PICK f : Flattens(f, seqs, m)
    BY <1>2
  <2> DEFINE g == [i \in 1 .. m + 1 |->
                     IF i <= m THEN f[i] ELSE IF i = 1 THEN seqs[i] ELSE f[i - 1] \o seqs[i]]
  <2>2. ASSUME NEW i \in 1 .. m + 1
        PROVE  g[i] = IF i = 1 THEN seqs[i] ELSE g[i - 1] \o seqs[i]
    <3>1. i # 1 => i - 1 \in 1 .. m /\ g[i - 1] = f[i - 1]
      OBVIOUS
    <3>2. CASE i <= m
      <4>1. i \in 1 .. m
        BY <3>2
      <4>2. f[i] = IF i = 1 THEN seqs[i] ELSE f[i - 1] \o seqs[i]
        BY <2>1, <4>1, FlattenAt
      <4> QED BY <3>1, <3>2, <4>2
    <3>3. CASE ~(i <= m)
      BY <3>1, <3>3
    <3> QED BY <3>2, <3>3
  <2>3. Flattens(g, seqs, m + 1)
    <3>1. g = [i \in 1 .. m + 1 |-> g[i]]
      OBVIOUS
    <3> HIDE DEF g
    <3> QED BY <2>2, <3>1, Zenon DEF Flattens
  <2> QED BY <2>3
<1>3. Nat \subseteq S
  <2> HIDE DEF S
  <2> QED BY <1>1, <1>2, SetInduction
<1> QED BY <1>3

\* It is unique, and its values are sequences.
Agree(E, s, t, n) == \A i \in 1 .. n : s[i] = t[i] /\ s[i] \in Seq(E)

\* Concatenations of sequences that agree agree.
\* Concatenations of sequences that agree agree.
LEMMA FlattenUnique ==
  ASSUME NEW E, NEW s, NEW t, NEW f, NEW g, NEW n \in Nat, NEW m \in Nat, n <= m,
         Agree(E, s, t, n), Flattens(f, s, n), Flattens(g, t, m)
  PROVE  \A i \in 1 .. n : f[i] = g[i] /\ f[i] \in Seq(E)
<1> DEFINE S == {k \in Nat : k \in 1 .. n => f[k] = g[k] /\ f[k] \in Seq(E)}
<1>1. 0 \in S
  OBVIOUS
<1>2. ASSUME NEW k \in Nat, k \in S PROVE k + 1 \in S
  <2> SUFFICES ASSUME k + 1 \in 1 .. n
               PROVE  f[k + 1] = g[k + 1] /\ f[k + 1] \in Seq(E)
    OBVIOUS
  <2>1. k + 1 \in 1 .. m /\ (k + 1) - 1 = k
    OBVIOUS
  <2>2. /\ f[k + 1] = IF k + 1 = 1 THEN s[k + 1] ELSE f[(k + 1) - 1] \o s[k + 1]
        /\ g[k + 1] = IF k + 1 = 1 THEN t[k + 1] ELSE g[(k + 1) - 1] \o t[k + 1]
    <3>1. k + 1 \in 1 .. n /\ k + 1 \in 1 .. m
      BY <2>1
    <3> QED BY ONLY <3>1, Flattens(f, s, n), Flattens(g, t, m), FlattenAt
  <2>3. s[k + 1] = t[k + 1] /\ s[k + 1] \in Seq(E)
    BY DEF Agree
  <2>4. CASE k = 0
    BY <2>2, <2>3, <2>4
  <2>5. CASE k # 0
    <3>1. f[k] = g[k] /\ f[k] \in Seq(E) /\ k + 1 # 1
      BY <1>2, <2>5
    <3>2. f[k + 1] = f[k] \o s[k + 1] /\ g[k + 1] = g[k] \o t[k + 1]
      BY <2>1, <2>2, <3>1
    <3> QED BY <2>3, <3>1, <3>2, ConcatProperties
  <2> QED BY <2>4, <2>5
<1>3. Nat \subseteq S
  <2> HIDE DEF S
  <2> QED BY <1>1, <1>2, SetInduction
<1> QED BY <1>3

\* FlattenSeq is that concatenation.
\* FlattenSeq is that concatenation.
LEMMA FlattenDef ==
  ASSUME NEW E, NEW seqs \in Seq(Seq(E)), Len(seqs) # 0
  PROVE  \E f : Flattens(f, seqs, Len(seqs)) /\ FlattenSeq(seqs) = f[Len(seqs)]
<1> DEFINE f == CHOOSE g : g = [i \in 1 .. Len(seqs) |->
                  IF i = 1 THEN seqs[i] ELSE g[i - 1] \o seqs[i]]
<1>1. FlattenSeq(seqs) = f[Len(seqs)]
  BY DEF FlattenSeq
<1>2. \E g : g = [i \in 1 .. Len(seqs) |-> IF i = 1 THEN seqs[i] ELSE g[i - 1] \o seqs[i]]
  <2>1. Len(seqs) \in Nat
    BY LenProperties
  <2>2. \E g : Flattens(g, seqs, Len(seqs))
    BY <2>1, FlattenExists
  <2> QED BY <2>2, Zenon DEF Flattens
<1>3. Flattens(f, seqs, Len(seqs))
  BY <1>2 DEF Flattens
<1> QED BY <1>1, <1>3

\* FlattenSeq on the empty sequence and on a sequence with one more element.
LEMMA FlattenEmpty == FlattenSeq(<< >>) = << >>
BY DEF FlattenSeq

\* A sequence appended is a sequence added at the end.
\* A sequence appended is a sequence added at the end.
LEMMA FlattenAppend ==
  ASSUME NEW E, NEW seqs \in Seq(Seq(E)), NEW x \in Seq(E)
  PROVE  /\ FlattenSeq(seqs) \in Seq(E)
         /\ FlattenSeq(Append(seqs, x)) = FlattenSeq(seqs) \o x
<1> DEFINE n == Len(seqs)
           t == Append(seqs, x)
<1>1. /\ n \in Nat /\ t \in Seq(Seq(E)) /\ Len(t) = n + 1 /\ t[n + 1] = x
      /\ \A i \in 1 .. n : seqs[i] = t[i] /\ seqs[i] \in Seq(E)
  BY LenProperties, AppendProperties, ElementOfSeq
<1>2. PICK g : Flattens(g, t, n + 1) /\ FlattenSeq(t) = g[n + 1]
  <2>1. Len(t) # 0
    BY <1>1
  <2>2. \E g : Flattens(g, t, Len(t)) /\ FlattenSeq(t) = g[Len(t)]
    BY <1>1, <2>1, FlattenDef
  <2> QED BY <1>1, <2>2
<1> HIDE DEF t
<1>3. g[n + 1] = IF n + 1 = 1 THEN t[n + 1] ELSE g[(n + 1) - 1] \o t[n + 1]
  <2>1. n + 1 \in 1 .. n + 1
    BY <1>1
  <2> QED BY <1>2, <2>1, FlattenAt
<1>4. CASE n = 0
  <2>1. FlattenSeq(seqs) = << >> /\ seqs = << >>
    BY <1>1, <1>4, EmptySeq, FlattenEmpty
  <2>2. FlattenSeq(t) = x
    BY <1>1, <1>2, <1>3, <1>4
  <2> QED BY <2>1, <2>2, ConcatEmptySeq DEF t
<1>5. CASE n # 0
  <2>1. PICK f : Flattens(f, seqs, n) /\ FlattenSeq(seqs) = f[n]
    BY <1>5, FlattenDef
  <2>2. n <= n + 1 /\ n + 1 \in Nat /\ n \in 1 .. n /\ (n + 1) - 1 = n /\ n + 1 # 1
    BY <1>1, <1>5
  <2>3. \A i \in 1 .. n : f[i] = g[i] /\ f[i] \in Seq(E)
    <3> HIDE DEF n
    <3>1. Flattens(f, seqs, n) /\ Flattens(g, t, n + 1)
      BY <1>2, <2>1
    <3>2. n \in Nat /\ n + 1 \in Nat /\ n <= n + 1
      BY <1>1, <2>2
    <3>3. Agree(E, seqs, t, n)
      BY <1>1 DEF Agree
    <3> QED BY ONLY <3>1, <3>2, <3>3, FlattenUnique, Zenon
  <2>4. FlattenSeq(t) = g[n] \o x
    BY <1>1, <1>2, <1>3, <2>2
  <2> QED BY <2>1, <2>2, <2>3, <2>4 DEF t
<1> QED BY <1>4, <1>5
-----------------------------------------------------------------------------
\* Sequence s consists of a and the first n entries of b.
Grown(s, a, b, n) ==
  /\ n \in 0 .. Len(b) /\ Len(s) = Len(a) + n
  /\ \A i \in 1 .. Len(a) : s[i] = a[i]
  /\ \A i \in 1 .. n : s[Len(a) + i] = b[i]

\* Grown by no entry is not grown.
\* Grown by no entry is not grown.
LEMMA GrownNone ==
  ASSUME NEW E, NEW s \in Seq(E), NEW a \in Seq(E), NEW b \in Seq(E)
  PROVE  Grown(s, a, b, 0) <=> s = a
<1>1. Len(a) \in Nat /\ Len(b) \in Nat
  BY LenProperties
<1>2. ASSUME Grown(s, a, b, 0) PROVE s = a
  BY <1>1, <1>2, SeqEqual DEF Grown
<1>3. ASSUME s = a PROVE Grown(s, a, b, 0)
  BY <1>1, <1>3 DEF Grown
<1> QED BY <1>2, <1>3

\* One more entry of b.
\* One more entry of b.
LEMMA GrownMore ==
  ASSUME NEW E, NEW s \in Seq(E), NEW a \in Seq(E), NEW b \in Seq(E), NEW n \in Nat,
         Grown(s, a, b, n), n + 1 <= Len(b)
  PROVE  Append(s, b[n + 1]) \in Seq(E) /\ Grown(Append(s, b[n + 1]), a, b, n + 1)
<1> DEFINE t == Append(s, b[n + 1])
<1>1. Len(a) \in Nat /\ Len(b) \in Nat /\ Len(s) = Len(a) + n /\ b[n + 1] \in E
  BY LenProperties DEF Grown
<1>2. /\ t \in Seq(E) /\ Len(t) = Len(a) + (n + 1) /\ t[Len(a) + (n + 1)] = b[n + 1]
      /\ \A i \in 1 .. Len(a) + n : t[i] = s[i]
  BY <1>1, AppendProperties
<1> HIDE DEF t
<1>3. n + 1 \in 0 .. Len(b) /\ \A i \in 1 .. Len(a) : t[i] = a[i]
  BY <1>1, <1>2 DEF Grown
<1>4. ASSUME NEW i \in 1 .. n + 1 PROVE t[Len(a) + i] = b[i]
  <2>1. CASE i = n + 1
    BY <1>2, <2>1
  <2>2. CASE i \in 1 .. n
    <3>1. Len(a) + i \in 1 .. Len(a) + n
      BY <1>1, <2>2
    <3> QED BY <1>2, <2>2, <3>1 DEF Grown
  <2> QED BY <2>1, <2>2
<1>5. t \in Seq(E) /\ Grown(t, a, b, n + 1)
  BY <1>2, <1>3, <1>4 DEF Grown
<1> QED BY <1>5 DEF t

\* Cutting back to the old length undoes the growth.
\* Cutting back to the old length undoes the growth.
LEMMA GrownCut ==
  ASSUME NEW E, NEW s \in Seq(E), NEW a \in Seq(E), NEW b, NEW n, Grown(s, a, b, n),
         Len(b) \in Nat
  PROVE  SubSeq(s, 1, Len(a)) = a
<1>1. Len(a) \in Nat /\ n \in Nat /\ Len(s) = Len(a) + n
  BY LenProperties DEF Grown
<1>2. /\ SubSeq(s, 1, Len(a)) \in Seq(E) /\ Len(SubSeq(s, 1, Len(a))) = Len(a)
      /\ \A i \in 1 .. Len(a) : SubSeq(s, 1, Len(a))[i] = s[i]
  BY <1>1
<1> QED BY <1>2, SeqEqual DEF Grown

\* Grown by all entries of b is a followed by b.
\* Grown by all entries of b is a followed by b.
LEMMA GrownAll ==
  ASSUME NEW E, NEW s \in Seq(E), NEW a \in Seq(E), NEW b \in Seq(E),
         Grown(s, a, b, Len(b))
  PROVE  s = a \o b
<1>1. Len(a) \in Nat /\ Len(b) \in Nat /\ Len(s) = Len(a) + Len(b)
  BY LenProperties DEF Grown
<1>2. a \o b \in Seq(E) /\ Len(a \o b) = Len(a) + Len(b)
  BY ConcatProperties
<1>3. ASSUME NEW i \in 1 .. Len(a) + Len(b) PROVE s[i] = (a \o b)[i]
  <2>1. CASE i <= Len(a)
    BY <1>1, <2>1 DEF Grown
  <2>2. CASE ~(i <= Len(a))
    <3>1. i - Len(a) \in 1 .. Len(b) /\ Len(a) + (i - Len(a)) = i
      BY <1>1, <2>2
    <3>2. s[i] = b[i - Len(a)]
      BY <3>1 DEF Grown
    <3>3. (a \o b)[i] = b[i - Len(a)]
      BY <1>1, <2>2
    <3> QED BY <3>2, <3>3
  <2> QED BY <2>1, <2>2
<1> QED BY <1>1, <1>2, <1>3, SeqEqual
-----------------------------------------------------------------------------
SymEntries == [hash : STRING, name : STRING, addr : Nat]
Ids == {m.id : m \in Modules}
Loads == [mod : Modules, base : Nat]

\* The types of the variables the properties speak of.
LoadTypes ==
  /\ pc \in Steps /\ mod \in Modules /\ idx \in Nat \ {0}
  /\ symmap \in Seq(SymEntries) /\ registry \in Seq(Nat) /\ loaded \in Seq(Ids)
  /\ live \in Seq(Loads) /\ inited \in Seq([id : Ids, base : Nat])
  /\ cursor \in Nat \ {0} /\ base \in Nat

\* What the successful loads l have put into the symbol map and the registry.
SymsOf(l) == Firmware \o FlattenSeq([i \in DOMAIN l |-> ExportsOf(l[i])])
ApsOf(l)  == FlattenSeq([i \in DOMAIN l |-> l[i].mod.uses])
IdsOf(l)  == [i \in DOMAIN l |-> l[i].mod.id]

\* Before the guards are made, nothing was entered into a table.
Early == {"idle", "unwrap", "validate"}

\* How many apertures and exports the load under way has entered.
UsesDone ==
  IF pc \in Early \cup {"bind"} THEN 0
  ELSE IF pc = "reserve" THEN idx - 1 ELSE Len(mod.uses)

ExportsDone ==
  IF pc = "export" THEN idx - 1
  ELSE IF pc \in {"recheck", "commit"} THEN Len(mod.exports) ELSE 0

Current == [mod |-> mod, base |-> base]

\* The tables hold what the successful loads left, then what the load under
\* way has entered; the marks of its guards lie between the two.
SymsInv == Grown(symmap, SymsOf(live), ExportsOf(Current), ExportsDone)
ApsInv  == Grown(registry, ApsOf(live), mod.uses, UsesDone)
MarksInv == pc \notin Early => symMark = Len(SymsOf(live)) /\ apMark = Len(ApsOf(live))
TablesInv == SymsInv /\ ApsInv /\ MarksInv /\ loaded = IdsOf(live)

\* The contribution of one more load comes after those of the earlier ones.
LEMMA ExportsType ==
  ASSUME NEW l \in Loads
  PROVE  ExportsOf(l) \in Seq(SymEntries) /\ Len(ExportsOf(l)) = Len(l.mod.exports)
<1>1. l.mod.exports \in Seq([hash : STRING, name : STRING]) /\ l.base \in Nat
  BY ModuleAssumption DEF Loads
<1>2. \A i \in DOMAIN l.mod.exports : Entry(l.mod.exports[i], l.base) \in SymEntries
  <2> TAKE i \in DOMAIN l.mod.exports
  <2> DEFINE x == l.mod.exports
             T == [hash : STRING, name : STRING]
  <2>1. x[i] \in T
    <3>1. x \in Seq(T) /\ i \in DOMAIN x
      BY <1>1
    <3> HIDE DEF x, T
    <3>2. i \in 1 .. Len(x)
      BY <3>1
    <3> QED BY <3>1, <3>2, ElementOfSeq
  <2> QED BY <1>1, <2>1 DEF Entry, SymEntries
<1> QED BY <1>1, <1>2 DEF ExportsOf

\* What one more loaded module adds to the tables.
\* What one more loaded module adds to the tables.
LEMMA MoreLoads ==
  ASSUME NEW l \in Seq(Loads), NEW r \in Loads
  PROVE  /\ SymsOf(l) \in Seq(SymEntries) /\ ApsOf(l) \in Seq(Nat) /\ IdsOf(l) \in Seq(Ids)
         /\ SymsOf(Append(l, r)) = SymsOf(l) \o ExportsOf(r)
         /\ ApsOf(Append(l, r)) = ApsOf(l) \o r.mod.uses
         /\ IdsOf(Append(l, r)) = Append(IdsOf(l), r.mod.id)
<1> DEFINE k == Append(l, r)
           ES(h) == [i \in DOMAIN h |-> ExportsOf(h[i])]
           US(h) == [i \in DOMAIN h |-> h[i].mod.uses]
<1>1. /\ Len(l) \in Nat /\ k \in Seq(Loads) /\ DOMAIN l = 1 .. Len(l)
      /\ DOMAIN k = 1 .. Len(l) + 1 /\ k[Len(l) + 1] = r
      /\ \A i \in 1 .. Len(l) : k[i] = l[i] /\ l[i] \in Loads
  OBVIOUS
<1>2. Firmware \in Seq(SymEntries)
  <2>1. [hash : STRING, name : STRING, addr : {0}] \subseteq SymEntries
    BY DEF SymEntries
  <2> QED BY <2>1, LoaderAssumption, SeqMonotonic
<1>3. ES(l) \in Seq(Seq(SymEntries)) /\ ExportsOf(r) \in Seq(SymEntries)
  BY <1>1, ExportsType
<1>4. US(l) \in Seq(Seq(Nat)) /\ r.mod.uses \in Seq(Nat) /\ IdsOf(l) \in Seq(Ids)
  BY <1>1, ModuleAssumption DEF Loads, Ids, IdsOf
<1> HIDE DEF k
<1>5. ES(k) = Append(ES(l), ExportsOf(r))
  BY <1>1
<1>6. US(k) = Append(US(l), r.mod.uses)
  BY <1>1
<1>7. IdsOf(k) = Append(IdsOf(l), r.mod.id)
  BY <1>1 DEF IdsOf
<1> HIDE DEF ES, US
<1>8. /\ FlattenSeq(ES(l)) \in Seq(SymEntries) /\ FlattenSeq(US(l)) \in Seq(Nat)
      /\ FlattenSeq(ES(k)) = FlattenSeq(ES(l)) \o ExportsOf(r)
      /\ FlattenSeq(US(k)) = FlattenSeq(US(l)) \o r.mod.uses
  BY <1>3, <1>4, <1>5, <1>6, FlattenAppend
<1>9. /\ SymsOf(l) = Firmware \o FlattenSeq(ES(l)) /\ ApsOf(l) = FlattenSeq(US(l))
      /\ SymsOf(k) = Firmware \o FlattenSeq(ES(k)) /\ ApsOf(k) = FlattenSeq(US(k))
  BY DEF SymsOf, ApsOf, ES, US
<1>10. /\ SymsOf(l) \in Seq(SymEntries)
       /\ SymsOf(k) = SymsOf(l) \o ExportsOf(r)
  <2> DEFINE fl == FlattenSeq(ES(l))
             ex == ExportsOf(r)
  <2>1. fl \in Seq(SymEntries) /\ ex \in Seq(SymEntries)
    BY <1>3, <1>8
  <2>2. SymsOf(l) = Firmware \o fl /\ SymsOf(k) = Firmware \o (fl \o ex)
    BY <1>8, <1>9
  <2> HIDE DEF fl, ex
  <2>3. Firmware \o fl \in Seq(SymEntries)
    BY <1>2, <2>1, ConcatProperties
  <2>4. Firmware \o (fl \o ex) = (Firmware \o fl) \o ex
    BY <1>2, <2>1, ConcatAssociative
  <2> QED BY <2>2, <2>3, <2>4 DEF ex
<1> QED BY <1>4, <1>7, <1>8, <1>9, <1>10 DEF k
-----------------------------------------------------------------------------
Core == LoadTypes /\ TablesInv

\* Facts of every state in which Core holds.
LEMMA CoreFacts ==
  ASSUME Core
  PROVE  /\ SymsOf(live) \in Seq(SymEntries) /\ ApsOf(live) \in Seq(Nat)
         /\ IdsOf(live) \in Seq(Ids)
         /\ Len(SymsOf(live)) \in Nat /\ Len(ApsOf(live)) \in Nat
         /\ Current \in Loads /\ mod.uses \in Seq(Nat) /\ Len(mod.uses) \in Nat
         /\ mod.exports \in Seq([hash : STRING, name : STRING]) /\ Len(mod.exports) \in Nat
         /\ ExportsOf(Current) \in Seq(SymEntries)
         /\ Len(ExportsOf(Current)) = Len(mod.exports)
<1>1. Current \in Loads /\ Current.mod = mod
  BY DEF Core, LoadTypes, Loads, Current
<1>2. /\ mod.uses \in Seq(Nat) /\ Len(mod.uses) \in Nat
      /\ mod.exports \in Seq([hash : STRING, name : STRING]) /\ Len(mod.exports) \in Nat
  BY ModuleAssumption, LenProperties DEF Core, LoadTypes
<1>3. /\ SymsOf(live) \in Seq(SymEntries) /\ ApsOf(live) \in Seq(Nat)
      /\ IdsOf(live) \in Seq(Ids)
  BY <1>1, MoreLoads DEF Core, LoadTypes
<1>4. Len(SymsOf(live)) \in Nat /\ Len(ApsOf(live)) \in Nat
  BY <1>3, LenProperties
<1>5. ExportsOf(Current) \in Seq(SymEntries) /\ Len(ExportsOf(Current)) = Len(mod.exports)
  BY <1>1, ExportsType
<1> QED BY <1>1, <1>2, <1>3, <1>4, <1>5

\* With nothing entered the tables are those of the successful loads.
LEMMA NothingEntered ==
  ASSUME Core
  PROVE  /\ ExportsDone = 0 => symmap = SymsOf(live)
         /\ UsesDone = 0 => registry = ApsOf(live)
<1>1. ASSUME ExportsDone = 0 PROVE symmap = SymsOf(live)
  <2>1. Grown(symmap, SymsOf(live), ExportsOf(Current), 0)
    BY <1>1 DEF Core, TablesInv, SymsInv
  <2> QED BY <2>1, CoreFacts, GrownNone DEF Core, LoadTypes
<1>2. ASSUME UsesDone = 0 PROVE registry = ApsOf(live)
  <2>1. Grown(registry, ApsOf(live), mod.uses, 0)
    BY <1>2 DEF Core, TablesInv, ApsInv
  <2> QED BY <2>1, CoreFacts, GrownNone DEF Core, LoadTypes
<1> QED BY <1>1, <1>2

\* Dropping both guards takes the tables back to the successful loads.
LEMMA RollbackExactly ==
  ASSUME Core, pc \notin Early, Rollback
  PROVE  symmap' = SymsOf(live) /\ registry' = ApsOf(live)
<1>1. symmap' = SubSeq(symmap, 1, Len(SymsOf(live)))
  BY DEF Rollback, Prefix, Core, TablesInv, MarksInv
<1>2. registry' = SubSeq(registry, 1, Len(ApsOf(live)))
  BY DEF Rollback, Prefix, Core, TablesInv, MarksInv
<1>3. SubSeq(symmap, 1, Len(SymsOf(live))) = SymsOf(live)
  BY CoreFacts, GrownCut DEF Core, LoadTypes, TablesInv, SymsInv
<1>4. SubSeq(registry, 1, Len(ApsOf(live))) = ApsOf(live)
  BY CoreFacts, GrownCut DEF Core, LoadTypes, TablesInv, ApsInv
<1> QED BY <1>1, <1>2, <1>3, <1>4

\* A load that returns with the tables of the successful loads.
LEMMA ReturnKeeps ==
  ASSUME Core, NEW r, Return(r), live' \in Seq(Loads), inited' \in Seq([id : Ids, base : Nat]),
         cursor' \in Nat \ {0}, symmap' = SymsOf(live'), registry' = ApsOf(live'),
         loaded' = IdsOf(live')
  PROVE  Core'
<1>1. /\ pc' = "idle" /\ mod' = NoModule /\ idx' = 1 /\ base' = 0
  BY DEF Return
<1>2. NoModule \in Modules /\ mod' \in Modules
  BY <1>1, ModuleAssumption DEF NoModule
<1>3. LoadTypes'
  <2>1. \E x : x \in Loads
    BY CoreFacts
  <2>2. symmap' \in Seq(SymEntries) /\ registry' \in Seq(Nat) /\ loaded' \in Seq(Ids)
    BY <2>1, MoreLoads
  <2> QED BY <1>1, <1>2, <2>2 DEF LoadTypes, Steps
<1>4. ExportsDone' = 0 /\ UsesDone' = 0
  BY <1>1 DEF ExportsDone, UsesDone, Early
<1>5. Current' \in Loads /\ ExportsOf(Current') \in Seq(SymEntries) /\ mod'.uses \in Seq(Nat)
  <2>1. Current' \in Loads
    BY <1>1, <1>2 DEF Current, Loads
  <2> QED BY <1>2, <2>1, ExportsType, ModuleAssumption
<1>6. SymsInv'
  <2>1. Grown(symmap', SymsOf(live'), ExportsOf(Current'), 0)
    BY <1>3, <1>5, GrownNone DEF LoadTypes
  <2> QED BY <1>4, <2>1 DEF SymsInv
<1>7. ApsInv'
  <2>1. Grown(registry', ApsOf(live'), mod'.uses, 0)
    BY <1>3, <1>5, GrownNone DEF LoadTypes
  <2> QED BY <1>4, <2>1 DEF ApsInv
<1>8. MarksInv'
  BY <1>1 DEF MarksInv, Early
<1> QED BY <1>3, <1>6, <1>7, <1>8 DEF Core, TablesInv

\* A step that enters nothing into a table.
LEMMA QuietKeeps ==
  ASSUME Core, UNCHANGED <<symmap, registry, loaded, live, mod>>,
         inited' \in Seq([id : Ids, base : Nat]),
         pc' \in Steps, idx' \in Nat \ {0}, cursor' \in Nat \ {0}, base' \in Nat,
         ExportsDone' = ExportsDone, UsesDone' = UsesDone,
         base' = base \/ ExportsDone = 0,
         pc' \notin Early => pc \notin Early /\ UNCHANGED <<symMark, apMark>>
  PROVE  Core'
<1>1. LoadTypes'
  BY DEF Core, LoadTypes
<1>2. ApsInv' /\ MarksInv' /\ loaded' = IdsOf(live')
  BY DEF Core, TablesInv, ApsInv, MarksInv
<1>3. SymsInv'
  <2>1. CASE base' = base
    BY <2>1 DEF Core, TablesInv, SymsInv, Current
  <2>2. CASE ExportsDone = 0
    <3>1. symmap' = SymsOf(live')
      BY <2>2, NothingEntered
    <3>2. Current' \in Loads
      BY <1>1 DEF LoadTypes, Current, Loads
    <3>3. ExportsOf(Current') \in Seq(SymEntries)
      BY <3>2, ExportsType
    <3>4. Grown(symmap', SymsOf(live'), ExportsOf(Current'), 0)
      <4>1. symmap' \in Seq(SymEntries) /\ SymsOf(live') \in Seq(SymEntries)
        BY <1>1, <3>1 DEF LoadTypes
      <4> QED BY <3>1, <3>3, <4>1, GrownNone
    <3> QED BY <2>2, <3>4 DEF SymsInv
  <2> QED BY <2>1, <2>2
<1> QED BY <1>1, <1>2, <1>3 DEF Core, TablesInv

\* Refusals: before the guards are made, and after.
LEMMA RefusalKeeps ==
  ASSUME Core, NEW r, Return(r), UNCHANGED <<loaded, live, inited>>, cursor' \in Nat \ {0},
         \/ pc \in Early /\ UNCHANGED <<symmap, registry>>
         \/ pc \notin Early /\ Rollback
  PROVE  Core'
<1>1. symmap' = SymsOf(live) /\ registry' = ApsOf(live)
  <2>1. CASE pc \in Early
    <3>1. ExportsDone = 0 /\ UsesDone = 0
      BY <2>1 DEF ExportsDone, UsesDone, Early
    <3> QED BY <2>1, <3>1, NothingEntered
  <2>2. CASE pc \notin Early
    BY <2>2, RollbackExactly
  <2> QED BY <2>1, <2>2
<1>2. /\ live' \in Seq(Loads) /\ inited' \in Seq([id : Ids, base : Nat])
      /\ loaded' = IdsOf(live') /\ symmap' = SymsOf(live') /\ registry' = ApsOf(live')
  BY <1>1 DEF Core, LoadTypes, TablesInv
<1> QED BY <1>2, ReturnKeeps

\* A load that is refused cuts its entries off again.
\* A load that is refused cuts its entries off again.
LEMMA AbortKeeps ==
  ASSUME Core, NEW r, Abort(r), pc \notin Early
  PROVE  Core'
BY RefusalKeeps DEF Abort, history, Core, LoadTypes

\* One action at a time.
LEMMA LoadModuleCore == ASSUME Core, NEW m \in Modules, LoadModule(m) PROVE Core'
<1>0. /\ pc = "idle" /\ UNCHANGED <<symmap, loaded, registry, cursor, live, inited>>
      /\ cursor' \in Nat \ {0}
  BY DEF LoadModule, tables, Core, LoadTypes
<1>1. CASE pc' = "unwrap" /\ mod' = m /\ UNCHANGED <<idx, base>>
  <2>1. LoadTypes'
    BY <1>0, <1>1 DEF Core, LoadTypes, Steps
  <2>2. symmap' = SymsOf(live') /\ registry' = ApsOf(live')
    BY <1>0, NothingEntered DEF ExportsDone, UsesDone, Early
  <2>3. ExportsDone' = 0 /\ UsesDone' = 0
    BY <1>1 DEF ExportsDone, UsesDone, Early
  <2>4. Current' \in Loads
    BY <2>1 DEF LoadTypes, Current, Loads
  <2>5. ExportsOf(Current') \in Seq(SymEntries) /\ mod'.uses \in Seq(Nat)
    BY <1>1, <2>4, ExportsType, ModuleAssumption
  <2>6. Grown(symmap', SymsOf(live'), ExportsOf(Current'), 0)
    BY <2>1, <2>2, <2>5, GrownNone DEF LoadTypes
  <2>7. Grown(registry', ApsOf(live'), mod'.uses, 0)
    BY <2>1, <2>2, <2>5, GrownNone DEF LoadTypes
  <2>8. MarksInv' /\ loaded' = IdsOf(live')
    BY <1>0, <1>1 DEF MarksInv, Early, Core, TablesInv
  <2> QED BY <2>1, <2>3, <2>6, <2>7, <2>8 DEF Core, TablesInv, SymsInv, ApsInv
<1>2. ASSUME NEW e, Return(e) PROVE Core'
  BY <1>0, <1>2, RefusalKeeps DEF Early
<1> QED BY <1>1, <1>2 DEF LoadModule, Goto

\* The key check of an encrypted container.
\* The key check of an encrypted container.
LEMMA PrepareCore == ASSUME Core, PrepareDecryption PROVE Core'
<1>0. /\ pc = "unwrap" /\ UNCHANGED <<symmap, loaded, registry, live, inited>>
      /\ cursor' \in Nat \ {0}
  BY LoaderAssumption DEF PrepareDecryption, tables, history, Core, LoadTypes
<1>1. CASE pc' = "validate" /\ UNCHANGED <<mod, idx, symMark, apMark, base>>
  <2>1. ExportsDone' = ExportsDone /\ UsesDone' = UsesDone
    BY <1>0, <1>1 DEF ExportsDone, UsesDone, Early
  <2> QED BY <1>0, <1>1, <2>1, QuietKeeps DEF Core, LoadTypes, Steps, Early
<1>2. ASSUME NEW e, Return(e) PROVE Core'
  BY <1>0, <1>2, RefusalKeeps DEF Early
<1> QED BY <1>1, <1>2 DEF PrepareDecryption, Goto

\* The checks of the container and its imports.
\* The checks of the container and its imports.
LEMMA ValidateCore == ASSUME Core, Validate PROVE Core'
<1>0. /\ pc = "validate" /\ UNCHANGED <<symmap, loaded, registry, live, inited>>
      /\ cursor' \in Nat \ {0}
  BY DEF Validate, tables, history, Core, LoadTypes
<1>1. CASE /\ pc' = "bind" /\ symMark' = Len(symmap) /\ apMark' = Len(registry)
           /\ UNCHANGED <<mod, idx, base>>
  <2>1. ExportsDone = 0 /\ UsesDone = 0 /\ ExportsDone' = 0 /\ UsesDone' = 0
    BY <1>0, <1>1 DEF ExportsDone, UsesDone, Early
  <2>2. symmap = SymsOf(live) /\ registry = ApsOf(live)
    BY <2>1, NothingEntered
  <2>3. LoadTypes'
    BY <1>0, <1>1 DEF Core, LoadTypes, Steps
  <2>4. SymsInv' /\ ApsInv' /\ loaded' = IdsOf(live')
    BY <1>0, <1>1, <2>1 DEF Core, TablesInv, SymsInv, ApsInv, Current
  <2>5. MarksInv'
    BY <1>0, <1>1, <2>2 DEF MarksInv
  <2> QED BY <2>3, <2>4, <2>5 DEF Core, TablesInv
<1>2. ASSUME NEW e, Return(e) PROVE Core'
  BY <1>0, <1>2, RefusalKeeps DEF Early
<1> QED BY <1>1, <1>2 DEF Validate, Goto

\* The apertures are looked up.
\* The apertures are looked up.
LEMMA BindCore == ASSUME Core, BindApertures PROVE Core'
<1>0. pc = "bind" /\ pc \notin Early
  BY DEF BindApertures, Early
<1>1. CASE /\ pc' = "reserve" /\ idx' = 1
           /\ UNCHANGED <<tables, cursor, mod, symMark, apMark, base, history>>
  <2>1. ExportsDone' = ExportsDone /\ UsesDone' = UsesDone
    BY <1>0, <1>1 DEF ExportsDone, UsesDone, Early
  <2> QED
    BY <1>0, <1>1, <2>1, QuietKeeps DEF Core, LoadTypes, Steps, Early, tables, history
<1>2. ASSUME NEW e, Abort(e) PROVE Core'
  BY <1>0, <1>2, AbortKeeps
<1> QED BY <1>1, <1>2 DEF BindApertures, Goto

\* One aperture is reserved, and is the newest entry of the registry.
\* One aperture is reserved, and is the newest entry of the registry.
LEMMA ReserveCore == ASSUME Core, ReserveAperture PROVE Core'
<1>0. pc = "reserve" /\ pc \notin Early /\ UsesDone = idx - 1 /\ ExportsDone = 0
  BY DEF ReserveAperture, Early, UsesDone, ExportsDone
<1>1. CASE /\ idx > Len(mod.uses) /\ pc' = "place" /\ idx' = 1
           /\ UNCHANGED <<tables, cursor, mod, symMark, apMark, base, history>>
  <2>1. ExportsDone' = 0 /\ UsesDone' = Len(mod.uses)
    BY <1>0, <1>1 DEF ExportsDone, UsesDone, Early
  <2>2. UsesDone = Len(mod.uses)
    BY <1>0, <1>1, CoreFacts DEF Core, TablesInv, ApsInv, Grown, LoadTypes
  <2> QED
    BY <1>0, <1>1, <2>1, <2>2, QuietKeeps DEF Core, LoadTypes, Steps, Early, tables, history
<1>2. CASE /\ idx <= Len(mod.uses) /\ pc' = "reserve" /\ idx' = idx + 1
           /\ registry' = Append(registry, mod.uses[idx])
           /\ UNCHANGED <<symmap, loaded, cursor, mod, symMark, apMark, base, history>>
  <2>1. ExportsDone' = 0 /\ UsesDone' = UsesDone + 1 /\ UsesDone \in Nat /\ UsesDone + 1 = idx
    BY <1>0, <1>2 DEF ExportsDone, UsesDone, Early, Core, LoadTypes
  <2>2. registry' \in Seq(Nat) /\ Grown(registry', ApsOf(live), mod.uses, UsesDone + 1)
    BY <1>2, <2>1, CoreFacts, GrownMore DEF Core, TablesInv, ApsInv, LoadTypes
  <2>3. LoadTypes'
    BY <1>2, <2>2 DEF Core, LoadTypes, Steps, history
  <2>4. ApsInv' /\ SymsInv' /\ MarksInv' /\ loaded' = IdsOf(live')
    BY <1>0, <1>2, <2>1, <2>2
    DEF Core, TablesInv, ApsInv, SymsInv, MarksInv, Current, history, Early
  <2> QED BY <2>3, <2>4 DEF Core, TablesInv
<1>3. ASSUME NEW e, Abort(e) PROVE Core'
  BY <1>0, <1>3, AbortKeeps
<1> QED BY <1>1, <1>2, <1>3 DEF ReserveAperture, Goto

\* One section is copied to the arena.
\* One section is copied to the arena.
LEMMA PlaceCore == ASSUME Core, PlaceSection PROVE Core'
<1>0. pc = "place" /\ pc \notin Early /\ UsesDone = Len(mod.uses) /\ ExportsDone = 0
  BY DEF PlaceSection, Early, UsesDone, ExportsDone
<1>1. CASE /\ pc' \in {"place", "decrypt"} /\ idx' \in Nat \ {0}
           /\ cursor' \in Nat \ {0} /\ base' \in Nat
           /\ UNCHANGED <<tables, mod, symMark, apMark, history>>
  <2>1. ExportsDone' = 0 /\ UsesDone' = Len(mod.uses)
    BY <1>0, <1>1 DEF ExportsDone, UsesDone, Early
  <2> QED
    BY <1>0, <1>1, <2>1, QuietKeeps DEF Core, LoadTypes, Steps, Early, tables, history
<1>2. ASSUME NEW e, Abort(e) PROVE Core'
  BY <1>0, <1>2, AbortKeeps
<1>3. CASE /\ idx <= Len(mod.sections) /\ pc' = "place" /\ idx' = idx + 1
           /\ cursor' = cursor + mod.sections[idx]
           /\ base' = IF idx = 1 THEN cursor ELSE base
           /\ UNCHANGED <<tables, mod, symMark, apMark, history>>
  <2>1. mod.sections[idx] \in Nat
    <3>1. mod.sections \in Seq(Nat) /\ idx \in 1 .. Len(mod.sections)
      BY <1>3, ModuleAssumption DEF Core, LoadTypes
    <3> QED BY <3>1, ElementOfSeq
  <2> QED BY <1>1, <1>3, <2>1, SMTT(30) DEF Core, LoadTypes
<1>4. CASE pc' = "decrypt" /\ UNCHANGED <<cursor, idx, base, tables, mod, symMark, apMark, history>>
  BY <1>1, <1>4 DEF Core, LoadTypes
<1> QED BY <1>2, <1>3, <1>4 DEF PlaceSection, Goto

\* The sections are decrypted.
\* The sections are decrypted.
LEMMA DecryptCore == ASSUME Core, DecryptSections PROVE Core'
<1>0. pc = "decrypt" /\ pc \notin Early /\ UsesDone = Len(mod.uses) /\ ExportsDone = 0
  BY DEF DecryptSections, Early, UsesDone, ExportsDone
<1>1. CASE /\ pc' = "reloc" /\ idx' = 1 /\ cursor' \in {cursor, cursor + Scratch}
           /\ UNCHANGED <<tables, mod, symMark, apMark, base, history>>
  <2>1. ExportsDone' = 0 /\ UsesDone' = Len(mod.uses)
    BY <1>0, <1>1 DEF ExportsDone, UsesDone, Early
  <2>2. cursor' \in Nat \ {0}
    BY <1>1, LoaderAssumption DEF Core, LoadTypes
  <2> QED
    BY <1>0, <1>1, <2>1, <2>2, QuietKeeps DEF Core, LoadTypes, Steps, Early, tables, history
<1>2. ASSUME NEW e, Abort(e) PROVE Core'
  BY <1>0, <1>2, AbortKeeps
<1>3. CASE /\ cursor' = cursor + Scratch /\ Return("EncAuthFail") /\ Rollback
           /\ UNCHANGED <<loaded, history>>
  <2>1. cursor' \in Nat \ {0}
    BY <1>3, LoaderAssumption DEF Core, LoadTypes
  <2> QED BY <1>0, <1>3, <2>1, RefusalKeeps DEF history
<1> QED BY <1>1, <1>2, <1>3 DEF DecryptSections, Goto

\* One relocation is applied.
\* One relocation is applied.
LEMMA RelocationCore == ASSUME Core, ApplyRelocation PROVE Core'
<1>0. pc = "reloc" /\ pc \notin Early /\ UsesDone = Len(mod.uses) /\ ExportsDone = 0
  BY DEF ApplyRelocation, Early, UsesDone, ExportsDone
<1>1. CASE /\ pc' \in {"reloc", "exec"} /\ idx' \in {idx, idx + 1}
           /\ UNCHANGED <<tables, cursor, mod, symMark, apMark, base, live, inited>>
  <2>1. ExportsDone' = 0 /\ UsesDone' = Len(mod.uses)
    BY <1>0, <1>1 DEF ExportsDone, UsesDone, Early
  <2> QED
    BY <1>0, <1>1, <2>1, QuietKeeps DEF Core, LoadTypes, Steps, Early, tables
<1>2. ASSUME NEW e, Abort(e) PROVE Core'
  BY <1>0, <1>2, AbortKeeps
<1> QED BY <1>1, <1>2 DEF ApplyRelocation, Goto

\* The code is made executable, or is not.
\* The code is made executable, or is not.
LEMMA ExecCore == ASSUME Core, MakeExec \/ MakeExecFails PROVE Core'
<1>0. pc = "exec" /\ pc \notin Early /\ UsesDone = Len(mod.uses) /\ ExportsDone = 0
  BY DEF MakeExec, MakeExecFails, Early, UsesDone, ExportsDone
<1>1. CASE MakeExec
  <2>1. ExportsDone' = 0 /\ UsesDone' = Len(mod.uses)
    BY <1>0, <1>1 DEF ExportsDone, UsesDone, Early, MakeExec, Goto
  <2> QED
    BY <1>0, <1>1, <2>1, QuietKeeps
    DEF Core, LoadTypes, Steps, Early, tables, history, MakeExec, Goto
<1>2. CASE MakeExecFails
  BY <1>0, <1>2, AbortKeeps DEF MakeExecFails
<1> QED BY <1>1, <1>2

\* The init word runs.
\* The init word runs.
LEMMA InitCore == ASSUME Core, RunInit PROVE Core'
<1>0. /\ pc = "init" /\ pc \notin Early /\ pc' = "export" /\ idx' = 1
      /\ UNCHANGED <<symmap, loaded, registry, cursor, mod, symMark, apMark, base, live>>
  BY DEF RunInit, Goto, Early, tables
<1>1. ExportsDone = 0 /\ UsesDone = Len(mod.uses) /\ ExportsDone' = 0 /\ UsesDone' = Len(mod.uses)
  BY <1>0 DEF ExportsDone, UsesDone, Early
<1>2. inited' \in Seq([id : Ids, base : Nat])
  <2>1. [id |-> mod.id, base |-> base] \in [id : Ids, base : Nat]
    BY DEF Core, LoadTypes, Ids
  <2> QED BY <2>1, AppendProperties DEF RunInit, Core, LoadTypes
<1> QED BY <1>0, <1>1, <1>2, QuietKeeps DEF Core, LoadTypes, Steps

\* One export is registered, and is the newest entry of the symbol map.
\* One export is registered, and is the newest entry of the symbol map.
LEMMA ExportCore == ASSUME Core, RegisterExport PROVE Core'
<1>0. /\ pc = "export" /\ pc \notin Early /\ UsesDone = Len(mod.uses)
      /\ ExportsDone = idx - 1
  BY DEF RegisterExport, Early, UsesDone, ExportsDone
<1>1. CASE /\ idx > Len(mod.exports) /\ pc' = "recheck" /\ UNCHANGED <<symmap, idx>>
           /\ UNCHANGED <<loaded, registry, cursor, mod, symMark, apMark, base, history>>
  <2>1. ExportsDone' = Len(mod.exports) /\ UsesDone' = Len(mod.uses)
    BY <1>0, <1>1 DEF ExportsDone, UsesDone, Early
  <2>2. ExportsDone = Len(mod.exports)
    BY <1>0, <1>1, CoreFacts DEF Core, TablesInv, SymsInv, Grown, LoadTypes
  <2> QED
    BY <1>0, <1>1, <2>1, <2>2, QuietKeeps DEF Core, LoadTypes, Steps, Early, history
<1>2. CASE /\ idx <= Len(mod.exports) /\ pc' = "export" /\ idx' = idx + 1
           /\ symmap' = Append(symmap, Entry(mod.exports[idx], base))
           /\ UNCHANGED <<loaded, registry, cursor, mod, symMark, apMark, base, history>>
  <2>1. /\ UsesDone' = Len(mod.uses) /\ ExportsDone' = ExportsDone + 1
        /\ ExportsDone \in Nat /\ ExportsDone + 1 = idx /\ idx \in 1 .. Len(mod.exports)
    BY <1>0, <1>2, CoreFacts DEF ExportsDone, UsesDone, Early, Core, LoadTypes
  <2>2. ExportsOf(Current)[idx] = Entry(mod.exports[idx], base)
    BY <2>1, CoreFacts DEF ExportsOf, Current
  <2>3. /\ symmap' \in Seq(SymEntries)
        /\ Grown(symmap', SymsOf(live), ExportsOf(Current), ExportsDone + 1)
    BY <1>2, <2>1, <2>2, CoreFacts, GrownMore DEF Core, TablesInv, SymsInv, LoadTypes
  <2>4. LoadTypes'
    BY <1>2, <2>3 DEF Core, LoadTypes, Steps, history
  <2>5. SymsInv'
    BY <1>2, <2>1, <2>3 DEF SymsInv, Current, history
  <2>6. ApsInv' /\ MarksInv' /\ loaded' = IdsOf(live')
    BY <1>0, <1>2, <2>1 DEF Core, TablesInv, ApsInv, MarksInv, history
  <2> QED BY <2>4, <2>5, <2>6 DEF Core, TablesInv
<1>3. ASSUME NEW e, Abort(e) PROVE Core'
  BY <1>0, <1>3, AbortKeeps
<1> QED BY <1>1, <1>2, <1>3 DEF RegisterExport, Goto

\* The checks after the init word.
\* The checks after the init word.
LEMMA FinalCore == ASSUME Core, FinalChecks PROVE Core'
<1>0. pc = "recheck" /\ pc \notin Early
  BY DEF FinalChecks, Early
<1>1. CASE pc' = "commit" /\ UNCHANGED <<tables, cursor, mod, idx, symMark, apMark, base, history>>
  <2>1. ExportsDone' = ExportsDone /\ UsesDone' = UsesDone
    BY <1>0, <1>1 DEF ExportsDone, UsesDone, Early
  <2> QED
    BY <1>0, <1>1, <2>1, QuietKeeps DEF Core, LoadTypes, Steps, Early, tables, history
<1>2. ASSUME NEW e, Abort(e) PROVE Core'
  BY <1>0, <1>2, AbortKeeps
<1> QED BY <1>1, <1>2 DEF FinalChecks, Goto

\* The guards are disarmed: the entries of the load are those of a loaded module.
\* The guards are disarmed: the entries of the load are those of a loaded module.
LEMMA CommitCore == ASSUME Core, Commit PROVE Core'
<1>0. /\ pc = "commit" /\ pc \notin Early /\ UsesDone = Len(mod.uses)
      /\ ExportsDone = Len(mod.exports)
  BY DEF Commit, Early, UsesDone, ExportsDone
<1>1. CASE /\ loaded' = Append(loaded, mod.id)
           /\ live' = Append(live, [mod |-> mod, base |-> base])
           /\ Return("ok")
           /\ UNCHANGED <<tier, symmap, registry, cursor, links, inited, entryCursor>>
  <2>1. live' = Append(live, Current) /\ Current \in Loads /\ live' \in Seq(Loads)
    BY <1>1, CoreFacts, AppendProperties DEF Core, LoadTypes, Current
  <2>2. /\ SymsOf(live') = SymsOf(live) \o ExportsOf(Current)
        /\ ApsOf(live') = ApsOf(live) \o Current.mod.uses
        /\ IdsOf(live') = Append(IdsOf(live), Current.mod.id)
    BY <2>1, MoreLoads DEF Core, LoadTypes
  <2>3. Current.mod = mod
    BY DEF Current
  <2>4. symmap = SymsOf(live) \o ExportsOf(Current)
    BY <1>0, CoreFacts, GrownAll DEF Core, TablesInv, SymsInv, LoadTypes
  <2>5. registry = ApsOf(live) \o mod.uses
    BY <1>0, CoreFacts, GrownAll DEF Core, TablesInv, ApsInv, LoadTypes
  <2>6. /\ symmap' = SymsOf(live') /\ registry' = ApsOf(live') /\ loaded' = IdsOf(live')
        /\ inited' \in Seq([id : Ids, base : Nat]) /\ cursor' \in Nat \ {0}
    BY <1>1, <2>2, <2>3, <2>4, <2>5 DEF Core, TablesInv, LoadTypes
  <2> QED BY <1>1, <2>1, <2>6, ReturnKeeps
<1>2. ASSUME NEW e, Abort(e) PROVE Core'
  BY <1>0, <1>2, AbortKeeps
<1> QED BY <1>1, <1>2 DEF Commit

\* Every step of a load keeps the tables exact.
\* Every step of a load keeps the tables exact.
LEMMA CoreStep == Core /\ [LoaderNext]_loaderVars => Core'
<1> SUFFICES ASSUME Core, [LoaderNext]_loaderVars PROVE Core'
  OBVIOUS
<1>1. CASE UNCHANGED loaderVars
  BY <1>1
  DEF loaderVars, tables, history, Core, LoadTypes, TablesInv, SymsInv, ApsInv, MarksInv,
      Current, UsesDone, ExportsDone
<1>2. CASE LoadStep
  BY <1>2, PrepareCore, ValidateCore, BindCore, ReserveCore, PlaceCore, DecryptCore,
     RelocationCore, ExecCore, InitCore, ExportCore, FinalCore, CommitCore
  DEF LoadStep
<1> QED BY <1>1, <1>2, LoadModuleCore, ExecCore DEF LoaderNext

\* Before the first load the tables hold the firmware's symbols alone.
LEMMA CoreInit == LoaderInit => Core
<1> SUFFICES ASSUME LoaderInit PROVE Core
  OBVIOUS
<1>1. NoModule \in Modules
  BY ModuleAssumption DEF NoModule
<1>2. /\ pc = "idle" /\ mod \in Modules /\ idx = 1 /\ cursor = 1 /\ base = 0
      /\ symmap = Firmware /\ registry = << >> /\ loaded = << >>
      /\ live = << >> /\ inited = << >>
  BY <1>1 DEF LoaderInit
<1>3. Firmware \in Seq(SymEntries)
  <2>1. [hash : STRING, name : STRING, addr : {0}] \subseteq SymEntries
    BY DEF SymEntries
  <2> QED BY <2>1, LoaderAssumption, SeqMonotonic
<1>4. LoadTypes
  BY <1>2, <1>3 DEF LoadTypes, Steps
<1>5. SymsOf(live) = Firmware /\ ApsOf(live) = << >> /\ IdsOf(live) = << >>
  <2>1. /\ [i \in DOMAIN << >> |-> ExportsOf(<< >>[i])] = << >>
        /\ [i \in DOMAIN << >> |-> << >>[i].mod.uses] = << >>
        /\ [i \in DOMAIN << >> |-> << >>[i].mod.id] = << >>
    OBVIOUS
  <2>2. Firmware \o << >> = Firmware
    BY <1>3, ConcatEmptySeq
  <2> QED BY <1>2, <2>1, <2>2, FlattenEmpty DEF SymsOf, ApsOf, IdsOf
<1>6. ExportsDone = 0 /\ UsesDone = 0 /\ MarksInv
  BY <1>2 DEF ExportsDone, UsesDone, MarksInv, Early
<1>7. Current \in Loads /\ mod.uses \in Seq(Nat)
  BY <1>2, ModuleAssumption DEF Current, Loads
<1>8. ExportsOf(Current) \in Seq(SymEntries)
  BY <1>7, ExportsType
<1>9. /\ Grown(symmap, SymsOf(live), ExportsOf(Current), 0)
      /\ Grown(registry, ApsOf(live), mod.uses, 0)
  <2>1. symmap \in Seq(SymEntries) /\ registry \in Seq(Nat)
    BY <1>4 DEF LoadTypes
  <2>2. symmap = SymsOf(live) /\ registry = ApsOf(live)
    BY <1>2, <1>5
  <2> QED BY <1>7, <1>8, <2>1, <2>2, GrownNone
<1>10. loaded = IdsOf(live)
  BY <1>2, <1>5
<1> QED BY <1>4, <1>6, <1>9, <1>10 DEF Core, TablesInv, SymsInv, ApsInv

\* At every step the tables are those of the successful loads followed by
\* what the load under way has entered so far.
THEOREM LoaderCore == LoaderSpec => []Core
BY CoreInit, CoreStep, PTL DEF LoaderSpec

\* A refused load, wherever load_module stopped, leaves no trace in the
\* symbol map, the aperture registry and the loaded set, and a successful
\* one adds exactly its own exports, apertures and identity.
THEOREM RefusedLoadsLeaveNoTrace == LoaderSpec => []LoadsAreAtomic
<1>1. Core => LoadsAreAtomic
  <2> SUFFICES ASSUME Core, pc = "idle"
               PROVE  symmap = SymsOf(live) /\ registry = ApsOf(live) /\ loaded = IdsOf(live)
    BY DEF LoadsAreAtomic, SymsOf, ApsOf, IdsOf
  <2>1. ExportsDone = 0 /\ UsesDone = 0
    BY DEF ExportsDone, UsesDone, Early
  <2> QED BY <2>1, NothingEntered DEF Core, TablesInv
<1> QED BY <1>1, LoaderCore, PTL
-----------------------------------------------------------------------------
\* How a step changes a table: not at all, by dropping the entries of the
\* load under way, or by one entry that passed every check.
LEMMA SymmapStep ==
  ASSUME Core, [LoaderNext]_loaderVars
  PROVE  \/ symmap' = symmap
         \/ pc \notin Early /\ Rollback
         \/ /\ pc = "export" /\ idx \in 1 .. Len(mod.exports)
            /\ FirstError(RegisterChecks(mod.exports[idx])) = "none"
            /\ symmap' = Append(symmap, Entry(mod.exports[idx], base))
<1>1. CASE RegisterExport
  <2>1. idx \in Nat \ {0} /\ Len(mod.exports) \in Nat
    BY CoreFacts DEF Core, LoadTypes
  <2> QED BY <1>1, <2>1 DEF RegisterExport, Abort, Early
<1>2. CASE UNCHANGED loaderVars
  BY <1>2 DEF loaderVars, tables
<1>3. CASE \E m \in Modules : LoadModule(m)
  BY <1>3 DEF LoadModule, tables
<1>4. CASE PrepareDecryption \/ Validate
  BY <1>4 DEF PrepareDecryption, Validate, tables
<1>5. CASE BindApertures \/ ReserveAperture
  BY <1>5 DEF BindApertures, ReserveAperture, tables, Abort, Early
<1>6. CASE PlaceSection \/ DecryptSections
  BY <1>6 DEF PlaceSection, DecryptSections, tables, Abort, Early
<1>7. CASE ApplyRelocation \/ MakeExec \/ MakeExecFails \/ RunInit
  BY <1>7 DEF ApplyRelocation, MakeExec, MakeExecFails, RunInit, tables, Abort, Early
<1>8. CASE FinalChecks \/ Commit
  BY <1>8 DEF FinalChecks, Commit, tables, Abort, Early
<1> QED BY <1>1, <1>2, <1>3, <1>4, <1>5, <1>6, <1>7, <1>8 DEF LoaderNext, LoadStep

\* The registry: the same.
LEMMA RegistryStep ==
  ASSUME Core, [LoaderNext]_loaderVars
  PROVE  \/ registry' = registry
         \/ pc \notin Early /\ Rollback
         \/ /\ pc = "reserve" /\ idx \in 1 .. Len(mod.uses)
            /\ FirstError(ReserveChecks(mod.uses[idx])) = "none"
            /\ registry' = Append(registry, mod.uses[idx])
<1>1. CASE ReserveAperture
  <2>1. idx \in Nat \ {0} /\ Len(mod.uses) \in Nat
    BY CoreFacts DEF Core, LoadTypes
  <2> QED BY <1>1, <2>1 DEF ReserveAperture, Abort, Early, tables
<1>2. CASE UNCHANGED loaderVars
  BY <1>2 DEF loaderVars, tables
<1>3. CASE \E m \in Modules : LoadModule(m)
  BY <1>3 DEF LoadModule, tables
<1>4. CASE PrepareDecryption \/ Validate
  BY <1>4 DEF PrepareDecryption, Validate, tables
<1>5. CASE BindApertures \/ RegisterExport
  BY <1>5 DEF BindApertures, RegisterExport, tables, Abort, Early
<1>6. CASE PlaceSection \/ DecryptSections
  BY <1>6 DEF PlaceSection, DecryptSections, tables, Abort, Early
<1>7. CASE ApplyRelocation \/ MakeExec \/ MakeExecFails \/ RunInit
  BY <1>7 DEF ApplyRelocation, MakeExec, MakeExecFails, RunInit, tables, Abort, Early
<1>8. CASE FinalChecks \/ Commit
  BY <1>8 DEF FinalChecks, Commit, tables, Abort, Early
<1> QED BY <1>1, <1>2, <1>3, <1>4, <1>5, <1>6, <1>7, <1>8 DEF LoaderNext, LoadStep

\* What the checks of register_with_hash and of reserve establish.
LEMMA RegisterPassed ==
  ASSUME NEW e, FirstError(RegisterChecks(e)) = "none"
  PROVE  \A i \in DOMAIN symmap : symmap[i].hash # e.hash
<1> DEFINE a == \E i \in DOMAIN symmap : symmap[i].name # "" /\ symmap[i].name = e.name
           b == \E i \in DOMAIN symmap : symmap[i].hash = e.hash
<1>1. RegisterChecks(e) = << Check(a, "BadContainer"), Check(b, "BadContainer"),
                             Check(Len(symmap) >= SymCap, "BadContainer") >>
  BY DEF RegisterChecks, FromU32
<1>2. ~b
  <2> HIDE DEF a, b
  <2>1. Checks(RegisterChecks(e), 3)
    BY <1>1 DEF Checks, Check
  <2>2. ~RegisterChecks(e)[2].fails
    BY <2>1, FirstErrorNone
  <2> QED BY <1>1, <2>2 DEF Check
<1> QED BY <1>2

\* A reservation that passes its checks is of an aperture nobody has.
\* A reservation that passes its checks is of an aperture nobody has.
LEMMA ReservePassed ==
  ASSUME NEW id, FirstError(ReserveChecks(id)) = "none"
  PROVE  \A i \in DOMAIN registry : registry[i] # id
<1>1. Checks(ReserveChecks(id), 4)
  BY DEF ReserveChecks, Checks, Check
<1>2. ~ReserveChecks(id)[3].fails
  BY <1>1, FirstErrorNone
<1>3. id \notin Range(registry)
  BY <1>2 DEF ReserveChecks, Check
<1> QED BY <1>3 DEF Range

\* After a rollback a table is an initial segment of what it was.
LEMMA RollbackPrefix ==
  ASSUME Core, pc \notin Early, Rollback
  PROVE  /\ \A i \in DOMAIN symmap' : i \in DOMAIN symmap /\ symmap'[i] = symmap[i]
         /\ \A i \in DOMAIN registry' : i \in DOMAIN registry /\ registry'[i] = registry[i]
<1>1. symmap' = SymsOf(live) /\ registry' = ApsOf(live)
  BY RollbackExactly
<1>2. /\ \A i \in 1 .. Len(SymsOf(live)) : i \in 1 .. Len(symmap) /\ symmap[i] = SymsOf(live)[i]
      /\ \A i \in 1 .. Len(ApsOf(live)) : i \in 1 .. Len(registry) /\ registry[i] = ApsOf(live)[i]
  BY CoreFacts DEF Core, LoadTypes, TablesInv, SymsInv, ApsInv, Grown
<1>3. /\ DOMAIN SymsOf(live) = 1 .. Len(SymsOf(live)) /\ DOMAIN symmap = 1 .. Len(symmap)
      /\ DOMAIN ApsOf(live) = 1 .. Len(ApsOf(live)) /\ DOMAIN registry = 1 .. Len(registry)
  <2>1. symmap \in Seq(SymEntries) /\ registry \in Seq(Nat)
    BY DEF Core, LoadTypes
  <2> QED BY <2>1, CoreFacts
<1> QED BY <1>1, <1>2, <1>3

\* The symbol map never holds one hash twice, also in the middle of a load
\* and after any number of refused ones: lookup_by_hash, which stops at the
\* first match, misses nothing.
THEOREM HashesStayUnique == LoaderSpec => []OneAddressPerHash
<1>1. LoaderInit => OneAddressPerHash
  BY ModuleAssumption DEF LoaderInit, OneAddressPerHash
<1>2. Core /\ OneAddressPerHash /\ [LoaderNext]_loaderVars => OneAddressPerHash'
  <2> SUFFICES ASSUME Core, OneAddressPerHash, [LoaderNext]_loaderVars
               PROVE  OneAddressPerHash'
    OBVIOUS
  <2>1. CASE symmap' = symmap
    BY <2>1 DEF OneAddressPerHash
  <2>2. CASE pc \notin Early /\ Rollback
    BY <2>2, RollbackPrefix DEF OneAddressPerHash
  <2>3. ASSUME idx \in 1 .. Len(mod.exports),
               FirstError(RegisterChecks(mod.exports[idx])) = "none",
               symmap' = Append(symmap, Entry(mod.exports[idx], base))
        PROVE  OneAddressPerHash'
    <3> DEFINE e == Entry(mod.exports[idx], base)
    <3>1. e.hash = mod.exports[idx].hash
      BY DEF Entry
    <3>2. \A i \in DOMAIN symmap : symmap[i].hash # e.hash
      BY <2>3, <3>1, RegisterPassed
    <3> HIDE DEF e
    <3>3. /\ DOMAIN symmap = 1 .. Len(symmap) /\ Len(symmap) \in Nat
          /\ DOMAIN symmap' = 1 .. Len(symmap) + 1
          /\ symmap'[Len(symmap) + 1] = e
          /\ \A i \in 1 .. Len(symmap) : symmap'[i] = symmap[i]
      BY <2>3 DEF Core, LoadTypes, e
    <3> QED BY <3>2, <3>3 DEF OneAddressPerHash
  <2> QED BY <2>1, <2>2, <2>3, SymmapStep
<1> QED BY <1>1, <1>2, LoaderCore, PTL DEF LoaderSpec

\* No aperture is ever bound twice, whatever loads were refused between.
THEOREM AperturesStayExclusive == LoaderSpec => []ApertureExclusive
<1>1. LoaderInit => ApertureExclusive
  BY DEF LoaderInit, ApertureExclusive
<1>2. Core /\ ApertureExclusive /\ [LoaderNext]_loaderVars => ApertureExclusive'
  <2> SUFFICES ASSUME Core, ApertureExclusive, [LoaderNext]_loaderVars
               PROVE  ApertureExclusive'
    OBVIOUS
  <2>1. CASE registry' = registry
    BY <2>1 DEF ApertureExclusive
  <2>2. CASE pc \notin Early /\ Rollback
    BY <2>2, RollbackPrefix DEF ApertureExclusive
  <2>3. ASSUME idx \in 1 .. Len(mod.uses),
               FirstError(ReserveChecks(mod.uses[idx])) = "none",
               registry' = Append(registry, mod.uses[idx])
        PROVE  ApertureExclusive'
    <3> DEFINE u == mod.uses[idx]
    <3>1. u \in Nat
      BY <2>3, CoreFacts, ElementOfSeq
    <3>2. \A i \in DOMAIN registry : registry[i] # u
      BY <2>3, ReservePassed
    <3>3. registry' = Append(registry, u)
      BY <2>3
    <3> HIDE DEF u
    <3>4. /\ DOMAIN registry = 1 .. Len(registry) /\ Len(registry) \in Nat
          /\ DOMAIN registry' = 1 .. Len(registry) + 1
          /\ registry'[Len(registry) + 1] = u
          /\ \A i \in 1 .. Len(registry) : registry'[i] = registry[i]
      BY <3>1, <3>3 DEF Core, LoadTypes
    <3> QED BY <3>2, <3>4 DEF ApertureExclusive
  <2> QED BY <2>1, <2>2, <2>3, RegistryStep
<1> QED BY <1>1, <1>2, LoaderCore, PTL DEF LoaderSpec
-----------------------------------------------------------------------------
\* Every module has some code.  Bases identify loads in the properties
\* below, and a module without code would share its base with the next.
HasCode == \A m \in Modules : m.sections[1] > 0

\* The code section of the load under way has its place.
AfterPlacing == {"decrypt", "reloc", "exec", "init", "export", "recheck", "commit"}
AfterInit == {"export", "recheck", "commit"}
Placed == (pc = "place" /\ idx > 1) \/ pc \in AfterPlacing

\* Entry i of the init calls is the one of the load under way.
OwnInit(i) ==
  /\ pc \in AfterInit /\ i = Len(inited)
  /\ inited[i].id = mod.id /\ inited[i].base = base

\* The arena never hands out one base twice, so that the base tells whose
\* code ran; the identity of the load under way is not loaded yet.
BelowCursor ==
  /\ \A k \in DOMAIN live : live[k].base < cursor
  /\ \A i \in DOMAIN inited : inited[i].base < cursor
BelowBase ==
  Placed => /\ base < cursor
            /\ \A k \in DOMAIN live : live[k].base < base
            /\ \A i \in DOMAIN inited : inited[i].base < base \/ OwnInit(i)
BaseNamesModule ==
  \A k \in DOMAIN live, i \in DOMAIN inited :
    live[k].base = inited[i].base => live[k].mod.id = inited[i].id
NotYetLoaded == pc # "idle" => \A k \in DOMAIN live : live[k].mod.id # mod.id
OnceInv == BelowCursor /\ BelowBase /\ BaseNamesModule /\ NotYetLoaded /\ LoadedOnce

\* The kinds of steps, seen from the histories and the arena.
QuietStep ==
  /\ UNCHANGED <<live, inited, mod, base>> /\ cursor' >= cursor
  /\ Placed' => Placed
  /\ pc \in AfterInit => pc' \in AfterInit
  /\ pc' # "idle" => pc # "idle"
RefusalStep == pc' = "idle" /\ UNCHANGED <<live, inited>> /\ cursor' >= cursor
BeginStep ==
  /\ pc' = "unwrap" /\ UNCHANGED <<live, inited, cursor>>
  /\ FirstError(AuthChecks(mod')) = "none"
PlaceStep ==
  /\ pc = "place" /\ pc' = "place" /\ base' = cursor /\ cursor' > cursor
  /\ UNCHANGED <<live, inited, mod>>
InitStep ==
  /\ pc = "init" /\ pc' = "export" /\ UNCHANGED <<live, mod, base, cursor>>
  /\ \/ inited' = Append(inited, [id |-> mod.id, base |-> base])
     \/ inited' = inited
CommitStep ==
  /\ pc = "commit" /\ pc' = "idle" /\ UNCHANGED <<inited, cursor>>
  /\ live' = Append(live, Current)

\* Every step is of one of them.
LEMMA StepKinds ==
  ASSUME Core, HasCode, [LoaderNext]_loaderVars
  PROVE  QuietStep \/ RefusalStep \/ BeginStep \/ PlaceStep \/ InitStep \/ CommitStep
<1> USE DEF Core, LoadTypes
<1>1. CASE UNCHANGED loaderVars
  BY <1>1 DEF loaderVars, history, tables, QuietStep, Placed
<1>2. CASE \E m \in Modules : LoadModule(m)
  BY <1>2 DEF LoadModule, tables, Goto, Return, RefusalStep, BeginStep
<1>3. CASE PrepareDecryption \/ Validate
  BY <1>3, LoaderAssumption, SMTT(30)
  DEF PrepareDecryption, Validate, tables, history, Goto, Return, RefusalStep, QuietStep,
      Placed, AfterPlacing, AfterInit
<1>4. CASE BindApertures \/ ReserveAperture
  BY <1>4
  DEF BindApertures, ReserveAperture, tables, history, Goto, Return, Abort, RefusalStep,
      QuietStep, Placed, AfterPlacing, AfterInit
<1>5. CASE PlaceSection
  <2>1. mod.sections \in Seq(Nat) /\ mod.sections # << >> /\ mod.sections[1] > 0
    BY ModuleAssumption DEF HasCode
  <2>2. Len(mod.sections) \in Nat \ {0}
    BY <2>1
  <2>3. idx <= Len(mod.sections) => mod.sections[idx] \in Nat
    BY <2>1
  <2> QED
    BY <1>5, <2>1, <2>2, <2>3
    DEF PlaceSection, tables, history, Goto, Return, Abort, RefusalStep, PlaceStep, QuietStep,
        Placed, AfterPlacing, AfterInit
<1>6. CASE DecryptSections
  BY <1>6, LoaderAssumption
  DEF DecryptSections, tables, history, Goto, Return, Abort, RefusalStep, QuietStep, Placed,
      AfterPlacing, AfterInit
<1>7. CASE ApplyRelocation \/ MakeExec \/ MakeExecFails
  BY <1>7
  DEF ApplyRelocation, MakeExec, MakeExecFails, tables, history, Goto, Return, Abort,
      RefusalStep, QuietStep, Placed, AfterPlacing, AfterInit
<1>8. CASE RunInit
  BY <1>8 DEF RunInit, Goto, InitStep
<1>9. CASE RegisterExport \/ FinalChecks
  BY <1>9
  DEF RegisterExport, FinalChecks, tables, history, Goto, Return, Abort,
      RefusalStep, QuietStep, Placed, AfterPlacing, AfterInit
<1>10. CASE Commit
  BY <1>10 DEF Commit, history, Return, Abort, RefusalStep, CommitStep, Current
<1> QED
  BY <1>1, <1>2, <1>3, <1>4, <1>5, <1>6, <1>7, <1>8, <1>9, <1>10 DEF LoaderNext, LoadStep

\* The head of load_module lets a module pass only if it is not loaded.
LEMMA AuthPassed ==
  ASSUME Core, NEW m, FirstError(AuthChecks(m)) = "none"
  PROVE  \A k \in DOMAIN live : live[k].mod.id # m.id
<1>1. Checks(AuthChecks(m), 5)
  BY DEF AuthChecks, Checks, Check
<1>2. ~AuthChecks(m)[3].fails
  BY <1>1, FirstErrorNone
<1>3. m.id \notin Range(loaded)
  BY <1>2 DEF AuthChecks, Check
<1> QED BY <1>3 DEF Range, Core, TablesInv, IdsOf

\* Types of the histories, in the form the steps below use.
Histories ==
  /\ DOMAIN live = 1 .. Len(live) /\ Len(live) \in Nat
  /\ DOMAIN inited = 1 .. Len(inited) /\ Len(inited) \in Nat
  /\ \A k \in DOMAIN live : live[k].base \in Nat
  /\ \A i \in DOMAIN inited : inited[i].base \in Nat
  /\ cursor \in Nat /\ base \in Nat

\* The types of the history.
\* The types of the history.
LEMMA HistoryTypes == Core => Histories
<1> SUFFICES ASSUME Core PROVE Histories
  OBVIOUS
<1>1. live \in Seq(Loads) /\ inited \in Seq([id : Ids, base : Nat])
  BY DEF Core, LoadTypes
<1>2. /\ DOMAIN live = 1 .. Len(live) /\ Len(live) \in Nat
      /\ \A k \in DOMAIN live : live[k] \in Loads
  BY <1>1
<1>3. /\ DOMAIN inited = 1 .. Len(inited) /\ Len(inited) \in Nat
      /\ \A i \in DOMAIN inited : inited[i] \in [id : Ids, base : Nat]
  <2> DEFINE T == [id : Ids, base : Nat]
  <2>1. inited \in Seq(T)
    BY <1>1
  <2> HIDE DEF T
  <2>2. /\ DOMAIN inited = 1 .. Len(inited) /\ Len(inited) \in Nat
        /\ \A i \in DOMAIN inited : inited[i] \in T
    BY <2>1
  <2> QED BY <2>2 DEF T
<1> QED BY <1>2, <1>3 DEF Histories, Loads, Core, LoadTypes

\* Each kind of step keeps the invariant.
LEMMA QuietOnce == ASSUME Core, Core', OnceInv, QuietStep PROVE OnceInv'
<1> USE HistoryTypes DEF Histories
<1>1. BelowCursor'
  BY SMTT(30) DEF QuietStep, OnceInv, BelowCursor, Core, LoadTypes
<1>2. BelowBase'
  BY DEF QuietStep, OnceInv, BelowBase, OwnInit, Core, LoadTypes
<1> QED
  BY <1>1, <1>2 DEF QuietStep, OnceInv, BaseNamesModule, NotYetLoaded, LoadedOnce

\* A refused load leaves the history of inits as it is.
LEMMA RefusalOnce == ASSUME Core, Core', OnceInv, RefusalStep PROVE OnceInv'
<1>1. BelowCursor'
  BY HistoryTypes, SMTT(30) DEF RefusalStep, OnceInv, BelowCursor, Core, LoadTypes, Histories
<1>2. ~Placed'
  BY DEF RefusalStep, Placed, AfterPlacing
<1> QED
  BY <1>1, <1>2 DEF RefusalStep, OnceInv, BelowBase, BaseNamesModule, NotYetLoaded, LoadedOnce

\* A load begins.
\* A load begins.
LEMMA BeginOnce == ASSUME Core, Core', OnceInv, BeginStep PROVE OnceInv'
<1>1. ~Placed'
  BY DEF BeginStep, Placed, AfterPlacing
<1>2. NotYetLoaded'
  BY AuthPassed DEF BeginStep, NotYetLoaded
<1> QED
  BY <1>1, <1>2 DEF BeginStep, OnceInv, BelowCursor, BelowBase, BaseNamesModule, LoadedOnce

\* The sections of a load lie beyond those of all loaded modules.
\* The sections of a load lie beyond those of all loaded modules.
LEMMA PlaceOnce == ASSUME Core, Core', OnceInv, PlaceStep PROVE OnceInv'
<1>1. BelowCursor' /\ BelowBase'
  BY HistoryTypes DEF PlaceStep, OnceInv, BelowCursor, BelowBase, Core, LoadTypes, Histories
<1> QED
  BY <1>1 DEF PlaceStep, OnceInv, BaseNamesModule, NotYetLoaded, LoadedOnce

\* The init word of a module not yet loaded runs at a new address.
\* The init word of a module not yet loaded runs at a new address.
LEMMA InitOnce == ASSUME Core, Core', OnceInv, InitStep PROVE OnceInv'
<1>1. CASE inited' = inited
  <2>1. Placed /\ \A i \in DOMAIN inited : ~OwnInit(i)
    BY DEF InitStep, Placed, AfterPlacing, AfterInit, OwnInit
  <2>2. BelowBase'
    BY <1>1, <2>1 DEF InitStep, OnceInv, BelowBase
  <2>3. BelowCursor' /\ BaseNamesModule' /\ NotYetLoaded' /\ LoadedOnce'
    BY <1>1 DEF InitStep, OnceInv, BelowCursor, BaseNamesModule, NotYetLoaded, LoadedOnce
  <2> QED BY <2>2, <2>3 DEF OnceInv
<1>2. CASE inited' = Append(inited, [id |-> mod.id, base |-> base])
  <2> DEFINE n == Len(inited) + 1
  <2>1. /\ n \in Nat \ {0} /\ DOMAIN inited = 1 .. n - 1 /\ DOMAIN inited' = 1 .. n
        /\ Len(inited') = n
        /\ inited'[n].id = mod.id /\ inited'[n].base = base
        /\ \A i \in 1 .. n - 1 : inited'[i] = inited[i]
    <3>1. inited \in Seq([id : Ids, base : Nat]) /\ [id |-> mod.id, base |-> base] \in [id : Ids, base : Nat]
      BY DEF Core, LoadTypes, Ids
    <3> QED BY <1>2, <3>1, AppendProperties
  <2> HIDE DEF n
  <2>2. /\ pc = "init" /\ pc' = "export"
        /\ UNCHANGED <<live, mod, base, cursor>> /\ base < cursor
        /\ \A k \in DOMAIN live : live[k].base < base
        /\ \A i \in DOMAIN inited : inited[i].base < base
        /\ \A k \in DOMAIN live : live[k].mod.id # mod.id
    BY DEF InitStep, OnceInv, BelowBase, Placed, AfterPlacing, AfterInit, OwnInit, NotYetLoaded
  <2>3. BelowCursor'
    BY <2>1, <2>2 DEF OnceInv, BelowCursor
  <2>4. BelowBase'
    BY <2>1, <2>2 DEF BelowBase, OwnInit, AfterInit
  <2>5. BaseNamesModule'
    BY <2>1, <2>2, HistoryTypes DEF BaseNamesModule, OnceInv, Histories
  <2>6. NotYetLoaded'
    BY <2>2 DEF NotYetLoaded
  <2>7. LoadedOnce'
    <3>1. \A i, j \in DOMAIN live' : live'[i].mod.id = live'[j].mod.id => i = j
      BY <2>2 DEF OnceInv, LoadedOnce
    <3>2. ASSUME NEW i \in 1 .. n, NEW j \in 1 .. n, i < j, inited'[i].id = inited'[j].id,
                 NEW k \in DOMAIN live
          PROVE  live[k].base # inited'[i].base
      <4>1. i \in 1 .. n - 1 /\ inited'[i] = inited[i]
        BY <2>1, <3>2
      <4>2. CASE j = n
        BY <2>1, <2>2, <3>2, <4>1, <4>2 DEF OnceInv, BaseNamesModule
      <4>3. CASE j # n
        <5>1. j \in 1 .. n - 1 /\ inited'[j] = inited[j]
          BY <2>1, <4>3
        <5> QED BY <2>1, <3>2, <4>1, <5>1 DEF OnceInv, LoadedOnce
      <4> QED BY <4>2, <4>3
    <3> QED BY <2>1, <2>2, <3>1, <3>2 DEF LoadedOnce
  <2> QED BY <2>3, <2>4, <2>5, <2>6, <2>7 DEF OnceInv
<1> QED BY <1>1, <1>2 DEF InitStep

\* The module whose init word ran last is loaded.
\* The module whose init word ran last is loaded.
LEMMA CommitOnce == ASSUME Core, Core', OnceInv, CommitStep PROVE OnceInv'
<1> DEFINE n == Len(live) + 1
<1>1. /\ n \in Nat \ {0} /\ DOMAIN live = 1 .. n - 1 /\ DOMAIN live' = 1 .. n
      /\ live'[n].mod = mod /\ live'[n].base = base
      /\ \A k \in 1 .. n - 1 : live'[k] = live[k]
  <2>1. live \in Seq(Loads) /\ Current \in Loads /\ live' = Append(live, Current)
    BY CoreFacts DEF Core, LoadTypes, CommitStep
  <2>2. Current.mod = mod /\ Current.base = base
    BY DEF Current
  <2> HIDE DEF Current
  <2> QED BY <2>1, <2>2, AppendProperties
<1> HIDE DEF n
<1>2. /\ pc = "commit" /\ pc' = "idle"
      /\ UNCHANGED <<inited, cursor>> /\ base < cursor
      /\ \A k \in DOMAIN live : live[k].base < base
      /\ \A i \in DOMAIN inited : inited[i].base < base \/ OwnInit(i)
      /\ \A k \in DOMAIN live : live[k].mod.id # mod.id
  BY DEF CommitStep, OnceInv, BelowBase, Placed, AfterPlacing, NotYetLoaded
<1>3. BelowCursor'
  BY <1>1, <1>2 DEF OnceInv, BelowCursor
<1>4. BelowBase' /\ NotYetLoaded'
  BY <1>2 DEF BelowBase, NotYetLoaded, Placed, AfterPlacing
<1>5. BaseNamesModule'
  <2> SUFFICES ASSUME NEW k \in 1 .. n, NEW i \in DOMAIN inited,
                      live'[k].base = inited[i].base
               PROVE  live'[k].mod.id = inited[i].id
    BY <1>1, <1>2 DEF BaseNamesModule
  <2>1. CASE k = n
    BY <1>1, <1>2, <2>1, HistoryTypes DEF OwnInit, Histories
  <2>2. CASE k # n
    BY <1>1, <2>2 DEF OnceInv, BaseNamesModule
  <2> QED BY <2>1, <2>2
<1>6. LoadedOnce'
  <2>1. ASSUME NEW i \in 1 .. n, NEW j \in 1 .. n, live'[i].mod.id = live'[j].mod.id
        PROVE  i = j
    <3>1. CASE i \in 1 .. n - 1 /\ j \in 1 .. n - 1
      BY <1>1, <2>1, <3>1 DEF OnceInv, LoadedOnce
    <3>2. CASE i = n /\ j \in 1 .. n - 1
      BY <1>1, <1>2, <2>1, <3>2
    <3>3. CASE j = n /\ i \in 1 .. n - 1
      BY <1>1, <1>2, <2>1, <3>3
    <3> QED BY <1>1, <3>1, <3>2, <3>3
  <2>2. ASSUME NEW i \in DOMAIN inited, NEW j \in DOMAIN inited, i < j,
               inited[i].id = inited[j].id, NEW k \in 1 .. n
        PROVE  live'[k].base # inited[i].base
    <3>1. CASE k = n
      <4>1. i # Len(inited)
        BY <2>2, HistoryTypes DEF Histories
      <4> QED BY <1>1, <1>2, <3>1, <4>1, HistoryTypes DEF OwnInit, Histories
    <3>2. CASE k # n
      BY <1>1, <2>2, <3>2 DEF OnceInv, LoadedOnce
    <3> QED BY <3>1, <3>2
  <2> QED BY <1>1, <1>2, <2>1, <2>2 DEF LoadedOnce
<1> QED BY <1>3, <1>4, <1>5, <1>6 DEF OnceInv

\* Nothing is loaded and no init word has run.
LEMMA OnceInit == LoaderInit => OnceInv
BY DEF LoaderInit, OnceInv, BelowCursor, BelowBase, BaseNamesModule, NotYetLoaded, LoadedOnce,
       Placed, AfterPlacing

\* The invariant of load-once and of the bases, given that modules have code.
THEOREM BasesTellLoads == HasCode => (LoaderSpec => []OnceInv)
<1> SUFFICES ASSUME HasCode PROVE LoaderSpec => []OnceInv
  OBVIOUS
<1>1. Core /\ Core' /\ OnceInv /\ [LoaderNext]_loaderVars => OnceInv'
  BY StepKinds, QuietOnce, RefusalOnce, BeginOnce, PlaceOnce, InitOnce, CommitOnce
<1> QED BY <1>1, OnceInit, LoaderCore, PTL DEF LoaderSpec

\* No identity is loaded twice, and once a module is loaded, no container of
\* its identity runs its init word again.
THEOREM LoadedModulesInitOnce == HasCode => (LoaderSpec => []LoadedOnce)
<1>1. OnceInv => LoadedOnce
  BY DEF OnceInv
<1> QED BY <1>1, BasesTellLoads, PTL
-----------------------------------------------------------------------------
\* The symbols of the successful loads are the firmware's and the exports of
\* those loads at their bases.
Exported(x, l) ==
  \E k \in DOMAIN l : \E e \in DOMAIN l[k].mod.exports :
    x.hash = l[k].mod.exports[e].hash /\ x.addr = l[k].base
FromFirmware(x) ==
  \E i \in DOMAIN Firmware : Firmware[i].hash = x.hash /\ x.addr = Firmware[i].addr
SymsSound(l) ==
  \A i \in DOMAIN SymsOf(l) : FromFirmware(SymsOf(l)[i]) \/ Exported(SymsOf(l)[i], l)

\* What the modules loaded so far export stays exported.
LEMMA ExportedGrows ==
  ASSUME NEW l \in Seq(Loads), NEW r \in Loads, NEW x
  PROVE  Exported(x, l) => Exported(x, Append(l, r))
<1>1. \A k \in DOMAIN l : k \in DOMAIN Append(l, r) /\ Append(l, r)[k] = l[k]
  BY AppendProperties
<1> HIDE DEF Loads
<1> DEFINE m == Append(l, r)
<1> HIDE DEF m
<1>2. \A k \in DOMAIN l : k \in DOMAIN m /\ m[k] = l[k]
  BY <1>1 DEF m
<1>3. Exported(x, l) => Exported(x, m)
  BY <1>2 DEF Exported
<1> QED BY <1>3 DEF m

\* One more loaded module keeps the symbol entries sound.
\* One more loaded module keeps the symbol entries sound.
LEMMA SymsSoundAppend ==
  ASSUME NEW l \in Seq(Loads), NEW r \in Loads, SymsSound(l)
  PROVE  SymsSound(Append(l, r))
<1> DEFINE m == Append(l, r)
           n == Len(SymsOf(l))
<1>1. /\ SymsOf(l) \in Seq(SymEntries) /\ ExportsOf(r) \in Seq(SymEntries)
      /\ SymsOf(m) = SymsOf(l) \o ExportsOf(r) /\ n \in Nat
  BY MoreLoads, ExportsType, LenProperties
<1>2. Len(l) + 1 \in DOMAIN m /\ m[Len(l) + 1] = r
  BY AppendProperties
<1>3. \A x : Exported(x, l) => Exported(x, m)
  BY ExportedGrows
<1> HIDE DEF m, n
<1> SUFFICES ASSUME NEW i \in DOMAIN SymsOf(m)
             PROVE  FromFirmware(SymsOf(m)[i]) \/ Exported(SymsOf(m)[i], m)
  BY DEF SymsSound, m
<1>4. i \in 1 .. n + Len(ExportsOf(r)) /\ DOMAIN ExportsOf(r) = 1 .. Len(ExportsOf(r))
      /\ DOMAIN SymsOf(l) = 1 .. n
  BY <1>1, ConcatProperties DEF n
<1>5. CASE i <= n
  <2>1. i \in DOMAIN SymsOf(l) /\ SymsOf(m)[i] = SymsOf(l)[i]
    BY <1>1, <1>4, <1>5, ConcatProperties DEF n
  <2> QED BY <1>3, <2>1 DEF SymsSound
<1>6. CASE ~(i <= n)
  <2>1. /\ i - n \in DOMAIN ExportsOf(r)
        /\ SymsOf(m)[i] = ExportsOf(r)[i - n]
    BY <1>1, <1>4, <1>6, ConcatProperties DEF n
  <2>2. i - n \in DOMAIN r.mod.exports /\ SymsOf(m)[i] = Entry(r.mod.exports[i - n], r.base)
    BY <2>1 DEF ExportsOf
  <2>3. /\ SymsOf(m)[i].hash = r.mod.exports[i - n].hash
        /\ SymsOf(m)[i].addr = r.base
    BY <2>2 DEF Entry
  <2> QED BY <1>2, <2>2, <2>3 DEF Exported
<1> QED BY <1>4, <1>5, <1>6

\* Links as LinksPointToLoaded wants them.
GoodLink(l, lv) ==
  \/ \E i \in DOMAIN Firmware : Firmware[i].hash = l.hash /\ l.to = Firmware[i].addr
  \/ \E i \in DOMAIN lv :
       /\ lv[i].base = l.to /\ l.to < l.from
       /\ \E e \in DOMAIN lv[i].mod.exports : lv[i].mod.exports[e].hash = l.hash

LinksInv == SymsSound(live) /\ \A l \in links : GoodLink(l, live)

\* How a step changes the links and the loads.
LEMMA LinkStep ==
  ASSUME [LoaderNext]_loaderVars
  PROVE  \/ UNCHANGED <<links, live>>
         \/ links' = links /\ live' = Append(live, Current)
         \/ /\ pc = "reloc" /\ live' = live
            /\ \E r : /\ FirstError(RelocChecks(r)) = "none" /\ r.kind # "aperture"
                      /\ links' = links \cup
                           {[from |-> base, hash |-> r.ref,
                             to |-> symmap[CHOOSE i \in Lookup(r.ref) :
                                      \A j \in Lookup(r.ref) : i <= j].addr]}
<1>1. CASE UNCHANGED loaderVars
  BY <1>1 DEF loaderVars, history
<1>2. CASE \E m \in Modules : LoadModule(m)
  BY <1>2 DEF LoadModule
<1>3. CASE PrepareDecryption \/ Validate \/ BindApertures \/ ReserveAperture
  BY <1>3 DEF PrepareDecryption, Validate, BindApertures, ReserveAperture, Abort, history
<1>4. CASE PlaceSection \/ DecryptSections \/ MakeExec \/ MakeExecFails \/ RunInit
  BY <1>4 DEF PlaceSection, DecryptSections, MakeExec, MakeExecFails, RunInit, Abort, history
<1>5. CASE RegisterExport \/ FinalChecks
  BY <1>5 DEF RegisterExport, FinalChecks, Abort, history
<1>6. CASE Commit
  BY <1>6 DEF Commit, Abort, history, Current
<1>7. CASE ApplyRelocation
  <2> DEFINE r == mod.relocs[idx]
  <2>1. CASE Abort(FirstError(RelocChecks(r)))
    BY <2>1 DEF Abort, history
  <2>2. CASE UNCHANGED <<links, live>>
    BY <2>2
  <2>3. CASE /\ FirstError(RelocChecks(r)) = "none" /\ live' = live
             /\ links' = IF r.kind = "aperture" THEN links
                         ELSE links \cup
                                {[from |-> base, hash |-> r.ref,
                                  to |-> symmap[CHOOSE i \in Lookup(r.ref) :
                                           \A j \in Lookup(r.ref) : i <= j].addr]}
    <3>1. pc = "reloc"
      BY <1>7 DEF ApplyRelocation
    <3> HIDE DEF r
    <3>2. CASE r.kind = "aperture"
      BY <2>3, <3>2
    <3>3. CASE r.kind # "aperture"
      BY <2>3, <3>1, <3>3
    <3> QED BY <3>2, <3>3
  <2> QED BY <1>7, <2>1, <2>2, <2>3 DEF ApplyRelocation
<1> QED
  BY <1>1, <1>2, <1>3, <1>4, <1>5, <1>6, <1>7 DEF LoaderNext, LoadStep

\* The entry that lookup_by_hash returns has the hash that was asked for.
LEMMA RelocPassed ==
  ASSUME Core, NEW r, FirstError(RelocChecks(r)) = "none", r.kind # "aperture"
  PROVE  LET i == CHOOSE i \in Lookup(r.ref) : \A j \in Lookup(r.ref) : i <= j
         IN  i \in DOMAIN symmap /\ symmap[i].hash = r.ref
<1> DEFINE i == CHOOSE i \in Lookup(r.ref) : \A j \in Lookup(r.ref) : i <= j
<1>1. Checks(RelocChecks(r), 5)
  BY DEF RelocChecks, Checks, Check
<1>2. ~RelocChecks(r)[4].fails
  BY <1>1, FirstErrorNone
<1>3. Lookup(r.ref) # {}
  BY <1>2 DEF RelocChecks, Check
<1>4. Lookup(r.ref) \in SUBSET Nat
  BY DEF Lookup, Core, LoadTypes
<1>5. \E n \in Lookup(r.ref) : \A m \in Lookup(r.ref) : n <= m
  <2> DEFINE S == Lookup(r.ref)
  <2>1. S # {} /\ S \in SUBSET Nat
    BY <1>3, <1>4
  <2> HIDE DEF S
  <2>2. \E n \in S : \A m \in S : n <= m
    BY <2>1, LeastElement
  <2> QED BY <2>2 DEF S
<1>6. i \in Lookup(r.ref)
  BY <1>5
<1> HIDE DEF i
<1>7. i \in DOMAIN symmap /\ symmap[i].hash = r.ref
  BY <1>6 DEF Lookup
<1> QED BY <1>7 DEF i

\* Before any load the symbols are the firmware's.
LEMMA LinksInit == LoaderInit => LinksInv
<1> SUFFICES ASSUME LoaderInit PROVE LinksInv
  OBVIOUS
<1>1. symmap = SymsOf(live) /\ symmap = Firmware /\ links = {}
  <2>1. Core /\ ExportsDone = 0
    BY CoreInit DEF LoaderInit, ExportsDone
  <2> QED BY <2>1, NothingEntered DEF LoaderInit
<1> QED BY <1>1 DEF LinksInv, SymsSound, FromFirmware

\* Every step of a load keeps the links sound.
LEMMA LinksStep == Core /\ OnceInv /\ LinksInv /\ [LoaderNext]_loaderVars => LinksInv'
<1> SUFFICES ASSUME Core, OnceInv, LinksInv, [LoaderNext]_loaderVars PROVE LinksInv'
  OBVIOUS
<1>1. CASE UNCHANGED <<links, live>>
  BY <1>1 DEF LinksInv
<1>2. CASE links' = links /\ live' = Append(live, Current)
  <2>1. live \in Seq(Loads) /\ Current \in Loads
    BY CoreFacts DEF Core, LoadTypes
  <2>2. SymsSound(live')
    BY <1>2, <2>1, SymsSoundAppend DEF LinksInv
  <2>3. \A k \in DOMAIN live : k \in DOMAIN live' /\ live'[k] = live[k]
    <3> HIDE DEF Current, Loads
    <3> QED BY <1>2, <2>1, AppendProperties
  <2>4. \A l \in links' : GoodLink(l, live')
    BY <1>2, <2>3 DEF LinksInv, GoodLink
  <2> QED BY <2>2, <2>4 DEF LinksInv
<1>3. ASSUME pc = "reloc", live' = live,
             NEW r, FirstError(RelocChecks(r)) = "none", r.kind # "aperture",
             links' = links \cup
               {[from |-> base, hash |-> r.ref,
                 to |-> symmap[CHOOSE i \in Lookup(r.ref) :
                          \A j \in Lookup(r.ref) : i <= j].addr]}
      PROVE  LinksInv'
  <2> DEFINE i == CHOOSE i \in Lookup(r.ref) : \A j \in Lookup(r.ref) : i <= j
             new == [from |-> base, hash |-> r.ref, to |-> symmap[i].addr]
  <2>1. i \in DOMAIN symmap /\ symmap[i].hash = r.ref
    BY <1>3, RelocPassed
  <2>2. links' = links \cup {new}
    BY <1>3
  <2> HIDE DEF i
  <2>3. symmap = SymsOf(live)
    BY <1>3, NothingEntered DEF ExportsDone
  <2>4. FromFirmware(symmap[i]) \/ Exported(symmap[i], live)
    BY <2>1, <2>3 DEF LinksInv, SymsSound
  <2>5. \A k \in DOMAIN live : live[k].base < base
    BY <1>3 DEF OnceInv, BelowBase, Placed, AfterPlacing
  <2>6. GoodLink(new, live)
    BY <2>1, <2>4, <2>5 DEF GoodLink, FromFirmware, Exported
  <2> QED BY <1>3, <2>2, <2>6 DEF LinksInv
<1> QED BY <1>1, <1>2, <1>3, LinkStep

\* A patched import points at the firmware or into a module whose load has
\* succeeded, that was placed before the importing one and exports that
\* hash; never at what a refused load had registered.
THEOREM ImportsPointToLoaded == HasCode => (LoaderSpec => []LinksPointToLoaded)
<1> SUFFICES ASSUME HasCode PROVE LoaderSpec => []LinksPointToLoaded
  OBVIOUS
<1>1. LinksInv => LinksPointToLoaded
  BY DEF LinksInv, GoodLink, LinksPointToLoaded
<1> QED BY <1>1, LinksInit, LinksStep, LoaderCore, BasesTellLoads, PTL DEF LoaderSpec
-----------------------------------------------------------------------------
\* The code of the load under way has a base above the firmware's addresses,
\* and so has the code that every patched import is in.
PlacedBase == Placed => base > 0
LinksPlaced == \A l \in links : l.from > 0

\* Every step of a load keeps it so.
LEMMA PlacedStep ==
  ASSUME HasCode, Core, PlacedBase, LinksPlaced, [LoaderNext]_loaderVars
  PROVE  PlacedBase' /\ LinksPlaced'
<1>1. PlacedBase'
  BY StepKinds
  DEF QuietStep, RefusalStep, BeginStep, PlaceStep, InitStep, CommitStep, PlacedBase, Placed,
      AfterPlacing, Core, LoadTypes
<1>2. LinksPlaced'
  <2>1. pc = "reloc" => base > 0
    BY DEF PlacedBase, Placed, AfterPlacing
  <2> QED BY <2>1, LinkStep DEF LinksPlaced
<1> QED BY <1>1, <1>2

\* FirstError finds none or the error of one of the checks.
LEMMA FirstErrorOne ==
  ASSUME NEW checks, NEW n, Checks(checks, n), \A i \in 1 .. n : checks[i].err # "ok"
  PROVE  FirstError(checks) # "ok"
<1> DEFINE failing == {i \in DOMAIN checks : checks[i].fails}
<1>1. CASE failing = {}
  BY <1>1 DEF FirstError
<1>2. CASE failing # {}
  <2>1. failing \subseteq Nat
    BY DEF Checks
  <2>2. \E i \in failing : \A j \in failing : i <= j
    <3> HIDE DEF failing
    <3> QED BY <1>2, <2>1, LeastElement
  <2> DEFINE k == CHOOSE i \in failing : \A j \in failing : i <= j
  <2>3. k \in failing
    <3> HIDE DEF failing
    <3> QED BY <2>2
  <2>4. checks[k].err # "ok"
    <3> HIDE DEF k
    <3> QED BY <2>3 DEF Checks
  <2> QED BY <1>2, <2>4 DEF FirstError
<1> QED BY <1>1, <1>2

\* The checks that refuse a load, in groups.
UnwrapChecks == << Check(tier < 1, "EncRequiresSigned"),
                   Check("encHeader" \in mod.faults, "EncBadHeader"),
                   Check(mod.enc = "noKey", "EncNoKey"),
                   Check(~Fits(Scratch), FromU32(5201)) >>
BindChecks == << Check("modinfoVer" \in mod.faults, "ModinfoVersionUnsupported"),
                 Check("platformHash" \in mod.faults, "PlatformHashMismatch"),
                 Check(Len(mod.uses) > ApCap, "ApertureTableMalformed"),
                 Check(\E i, j \in DOMAIN mod.uses : i # j /\ mod.uses[i] = mod.uses[j],
                       "ApertureTableMalformed") >>
LastChecks == << Check(tier >= 2 /\ "rederive" \in mod.faults, "StackBoundUnverifiable"),
                 Check("sharing" \in mod.faults, "ResourceSharingMismatch") >>

\* None of them reports success.
LEMMA RefusalsAreErrors ==
  /\ \A m : FirstError(AuthChecks(m)) # "ok" /\ FirstError(ModinfoChecks(m)) # "ok"
  /\ FirstError(UnwrapChecks) # "ok" /\ FirstError(BindChecks) # "ok"
  /\ FirstError(LastChecks) # "ok"
  /\ \A id : FirstError(ReserveChecks(id)) # "ok"
  /\ \A r : FirstError(RelocChecks(r)) # "ok"
  /\ \A e : FirstError(RegisterChecks(e)) # "ok"
<1>1. ASSUME NEW m PROVE FirstError(AuthChecks(m)) # "ok"
  <2>1. Checks(AuthChecks(m), 5) /\ \A i \in 1 .. 5 : AuthChecks(m)[i].err # "ok"
    BY DEF AuthChecks, Checks, Check
  <2> QED BY <2>1, FirstErrorOne
<1>2. ASSUME NEW m PROVE FirstError(ModinfoChecks(m)) # "ok"
  <2>1. Checks(ModinfoChecks(m), 5) /\ \A i \in 1 .. 5 : ModinfoChecks(m)[i].err # "ok"
    BY DEF ModinfoChecks, Checks, Check
  <2> QED BY <2>1, FirstErrorOne
<1>3. FirstError(UnwrapChecks) # "ok"
  <2>1. Checks(UnwrapChecks, 4) /\ \A i \in 1 .. 4 : UnwrapChecks[i].err # "ok"
    BY DEF UnwrapChecks, Checks, Check, FromU32
  <2> QED BY <2>1, FirstErrorOne
<1>4. FirstError(BindChecks) # "ok"
  <2>1. Checks(BindChecks, 4) /\ \A i \in 1 .. 4 : BindChecks[i].err # "ok"
    BY DEF BindChecks, Checks, Check
  <2> QED BY <2>1, FirstErrorOne
<1>5. FirstError(LastChecks) # "ok"
  <2>1. Checks(LastChecks, 2) /\ \A i \in 1 .. 2 : LastChecks[i].err # "ok"
    BY DEF LastChecks, Checks, Check
  <2> QED BY <2>1, FirstErrorOne
<1>6. ASSUME NEW id PROVE FirstError(ReserveChecks(id)) # "ok"
  <2>1. Checks(ReserveChecks(id), 4) /\ \A i \in 1 .. 4 : ReserveChecks(id)[i].err # "ok"
    BY DEF ReserveChecks, Checks, Check
  <2> QED BY <2>1, FirstErrorOne
<1>7. ASSUME NEW r PROVE FirstError(RelocChecks(r)) # "ok"
  <2>1. Checks(RelocChecks(r), 5) /\ \A i \in 1 .. 5 : RelocChecks(r)[i].err # "ok"
    BY DEF RelocChecks, Checks, Check
  <2> QED BY <2>1, FirstErrorOne
<1>8. ASSUME NEW e PROVE FirstError(RegisterChecks(e)) # "ok"
  <2> DEFINE name == \E i \in DOMAIN symmap : symmap[i].name # "" /\ symmap[i].name = e.name
             hash == \E i \in DOMAIN symmap : symmap[i].hash = e.hash
             full == Len(symmap) >= SymCap
             cs == << Check(name, "BadContainer"), Check(hash, "BadContainer"),
                      Check(full, "BadContainer") >>
  <2>1. RegisterChecks(e) = cs
    BY DEF RegisterChecks, FromU32
  <2> HIDE DEF name, hash, full
  <2>2. Checks(cs, 3) /\ \A i \in 1 .. 3 : cs[i].err # "ok"
    BY DEF Checks, Check
  <2> HIDE DEF cs
  <2> QED BY <2>1, <2>2, FirstErrorOne
<1> QED BY <1>1, <1>2, <1>3, <1>4, <1>5, <1>6, <1>7, <1>8

\* The steps of a load under way, seen from the boot path.
GoesOn ==
  /\ pc' # "idle" /\ mod' = mod /\ live' = live
  /\ \/ pc # "init" /\ inited' = inited /\ (pc' \in AfterInit <=> pc \in AfterInit)
        /\ (pc \in AfterInit => base' = base)
     \/ pc = "init" /\ pc' = "export" /\ base' = base
        /\ inited' = IF mod.init THEN Append(inited, [id |-> mod.id, base |-> base]) ELSE inited
Succeeds ==
  /\ pc = "commit" /\ pc' = "idle" /\ result' = "ok" /\ live' = Append(live, Current)
  /\ inited' = inited
Fails == pc' = "idle" /\ result' # "ok" /\ live' = live

\* A load goes on, succeeds at its last step, or fails.
LEMMA LoadStepKinds ==
  ASSUME Core, LoadStep
  PROVE  pc # "idle" /\ (GoesOn \/ Succeeds \/ Fails)
<1> USE DEF Goto, Return, Abort, history, GoesOn, Fails, AfterInit
<1>1. CASE PrepareDecryption
  <2>1. FirstError(UnwrapChecks) # "ok"
    BY RefusalsAreErrors
  <2> QED BY <1>1, <2>1 DEF PrepareDecryption, UnwrapChecks
<1>2. CASE Validate
  BY <1>2, RefusalsAreErrors DEF Validate
<1>3. CASE BindApertures
  <2>1. FirstError(BindChecks) # "ok"
    BY RefusalsAreErrors
  <2> QED BY <1>3, <2>1 DEF BindApertures, BindChecks
<1>4. CASE ReserveAperture
  BY <1>4, RefusalsAreErrors DEF ReserveAperture
<1>5. CASE PlaceSection \/ DecryptSections
  BY <1>5 DEF PlaceSection, DecryptSections, FromU32
<1>6. CASE ApplyRelocation
  BY <1>6, RefusalsAreErrors DEF ApplyRelocation
<1>7. CASE MakeExec \/ RunInit
  BY <1>7 DEF MakeExec, RunInit
<1>8. CASE RegisterExport
  BY <1>8, RefusalsAreErrors DEF RegisterExport
<1>9. CASE FinalChecks
  <2>1. FirstError(LastChecks) # "ok"
    BY RefusalsAreErrors
  <2> QED BY <1>9, <2>1 DEF FinalChecks, LastChecks
<1>10. CASE Commit
  BY <1>10 DEF Commit, Succeeds, Current
<1> QED
  BY <1>1, <1>2, <1>3, <1>4, <1>5, <1>6, <1>7, <1>8, <1>9, <1>10 DEF LoadStep

\* The init calls of the modules in l, and those that were made.
InitCalls(l) == FlattenSeq([i \in DOMAIN l |-> InitCall(l[i])])
CallsMade == [i \in DOMAIN inited |-> inited[i].base]

\* One more module adds its call.
LEMMA MoreCalls ==
  ASSUME NEW l \in Seq(Loads), NEW r \in Loads
  PROVE  /\ InitCalls(l) \in Seq(Nat) /\ InitCalls(Append(l, r)) = InitCalls(l) \o InitCall(r)
         /\ r.mod.init => InitCall(r) = << r.base >> /\ r.base \in Nat
         /\ ~r.mod.init => InitCall(r) = << >>
<1> DEFINE k == Append(l, r)
           CS(h) == [i \in DOMAIN h |-> InitCall(h[i])]
<1>1. /\ Len(l) \in Nat /\ DOMAIN l = 1 .. Len(l)
      /\ DOMAIN k = 1 .. Len(l) + 1 /\ k[Len(l) + 1] = r
      /\ \A i \in 1 .. Len(l) : k[i] = l[i] /\ l[i] \in Loads
  OBVIOUS
<1>2. \A x \in Loads : InitCall(x) \in Seq(Nat)
  BY DEF InitCall, Loads
<1>3. CS(l) \in Seq(Seq(Nat)) /\ InitCall(r) \in Seq(Nat)
  BY <1>1, <1>2
<1> HIDE DEF k
<1>4. CS(k) = Append(CS(l), InitCall(r))
  BY <1>1
<1> HIDE DEF CS
<1>5. /\ FlattenSeq(CS(l)) \in Seq(Nat)
      /\ FlattenSeq(CS(k)) = FlattenSeq(CS(l)) \o InitCall(r)
  BY <1>3, <1>4, FlattenAppend
<1>6. InitCalls(l) = FlattenSeq(CS(l)) /\ InitCalls(k) = FlattenSeq(CS(k))
  BY DEF InitCalls, CS
<1> QED BY <1>5, <1>6 DEF k, InitCall, Loads
-----------------------------------------------------------------------------
\* The types of the boot path's variables.
BootTypes ==
  /\ pack \in Packs /\ pos \in Nat \ {0} /\ nth \in Nat \ {0}
  /\ containers \in Seq(Modules)
  /\ phase \in {"parse", "load", "loading", "halted"} /\ halt \in {"none", "trap", "main"}
  /\ halt = "none" <=> phase # "halted"

\* The load under way is over, and refused.
JustRefused == phase = "loading" /\ pc = "idle" /\ Refused

\* How many containers are loaded.
LoadsDone ==
  IF phase = "halted" THEN Len(containers)
  ELSE IF phase = "loading" /\ pc = "idle" THEN nth ELSE nth - 1

\* Where the boot path is, and what it has loaded, in embed order.
BootPlace ==
  /\ phase # "loading" => pc = "idle"
  /\ phase = "parse" => nth = 1
  /\ phase = "load" => nth <= Len(containers) + 1
  /\ phase = "loading" => nth <= Len(containers)
  /\ phase = "loading" /\ pc # "idle" => mod = containers[nth]
  /\ ~JustRefused => Len(live) = LoadsDone
  /\ \A i \in 1 .. Len(live) : live[i].mod = containers[i]
CallsInv ==
  ~JustRefused =>
    CallsMade = InitCalls(IF pc \in AfterInit THEN Append(live, Current) ELSE live)

\* What the boot path knows of the loader, as long as it has not trapped:
\* a trap resets the arena, and nothing runs after it.
LoaderSound == Core /\ OnceInv /\ LinksInv /\ PlacedBase /\ LinksPlaced
BootInv == BootTypes /\ (halt # "trap" => LoaderSound /\ BootPlace /\ CallsInv)

\* A load step keeps what holds of the loader.
LEMMA SoundStep ==
  ASSUME HasCode, LoaderSound, [LoaderNext]_loaderVars
  PROVE  LoaderSound'
<1>1. Core'
  BY CoreStep DEF LoaderSound
<1>2. OnceInv'
  BY <1>1, StepKinds, QuietOnce, RefusalOnce, BeginOnce, PlaceOnce, InitOnce, CommitOnce
  DEF LoaderSound
<1>3. LinksInv'
  BY LinksStep DEF LoaderSound
<1> QED BY <1>1, <1>2, <1>3, PlacedStep DEF LoaderSound

\* Nothing is parsed.
LEMMA BootInitInv == BootInit => BootInv
<1> SUFFICES ASSUME BootInit PROVE BootInv
  OBVIOUS
<1>1. LoaderInit /\ live = << >> /\ inited = << >> /\ pc = "idle" /\ links = {}
  BY DEF BootInit, LoaderInit
<1>2. LoaderSound
  BY <1>1, CoreInit, OnceInit, LinksInit
  DEF LoaderSound, PlacedBase, LinksPlaced, Placed, AfterPlacing
<1>3. BootTypes
  BY DEF BootInit, BootTypes
<1>4. BootPlace
  BY <1>1 DEF BootInit, BootPlace, LoadsDone, JustRefused
<1>5. CallsInv
  <2>1. CallsMade = << >> /\ [i \in DOMAIN live |-> InitCall(live[i])] = << >>
    BY <1>1 DEF CallsMade
  <2> QED BY <1>1, <2>1, FlattenEmpty DEF CallsInv, InitCalls, AfterInit
<1> QED BY <1>2, <1>3, <1>4, <1>5 DEF BootInv

\* One step of a load.
LEMMA LoadingStep ==
  ASSUME HasCode, BootInv, Loading
  PROVE  BootInv'
<1>1. /\ phase = "loading" /\ LoadStep /\ UNCHANGED bootVars /\ BootTypes /\ halt = "none"
      /\ LoaderSound /\ BootPlace /\ CallsInv /\ Core
  BY DEF Loading, BootInv, BootTypes, LoaderSound
<1>2. BootTypes' /\ halt' = "none" /\ phase' = "loading" /\ containers' = containers /\ nth' = nth
  BY <1>1 DEF bootVars, BootTypes
<1>3. LoaderSound'
  BY <1>1, SoundStep DEF LoaderNext
<1>4. pc # "idle" /\ (GoesOn \/ Succeeds \/ Fails)
  BY <1>1, LoadStepKinds
<1>5. /\ live \in Seq(Loads) /\ Current \in Loads /\ Current.mod = mod /\ Current.base = base
      /\ Len(live) = nth - 1 /\ nth \in Nat \ {0} /\ mod = containers[nth]
      /\ nth <= Len(containers)
      /\ CallsMade = InitCalls(IF pc \in AfterInit THEN Append(live, Current) ELSE live)
  BY <1>1, <1>4, CoreFacts
  DEF Core, LoadTypes, BootPlace, BootTypes, LoadsDone, JustRefused, CallsInv, Current
<1>6. CASE Fails
  BY <1>1, <1>2, <1>3, <1>6 DEF Fails, BootInv, BootPlace, CallsInv, JustRefused, Refused
<1>7. CASE Succeeds
  <2>1. pc \in AfterInit /\ pc' \notin AfterInit
    BY <1>7 DEF Succeeds, AfterInit
  <2>2. CallsMade' = CallsMade
    BY <1>7 DEF Succeeds, CallsMade
  <2>3. CallsInv'
    BY <1>5, <1>7, <2>1, <2>2 DEF Succeeds, CallsInv
  <2>4. /\ Len(live') = nth /\ live'[nth].mod = mod
        /\ \A i \in 1 .. nth - 1 : live'[i] = live[i]
    <3>1. live' = Append(live, Current)
      BY <1>7 DEF Succeeds
    <3> HIDE DEF Current, Loads
    <3> QED BY <1>5, <3>1, AppendProperties
  <2>5. BootPlace'
    <3>1. \A i \in 1 .. Len(live') : live'[i].mod = containers[i]
      <4> TAKE i \in 1 .. Len(live')
      <4>1. i = nth \/ i \in 1 .. nth - 1
        BY <1>5, <2>4
      <4>2. \A m \in 1 .. nth - 1 : live[m].mod = containers[m]
        BY <1>1, <1>5 DEF BootPlace
      <4> QED BY <1>5, <2>4, <4>1, <4>2
    <3> QED BY <1>2, <1>5, <1>7, <2>4, <3>1 DEF Succeeds, BootPlace, LoadsDone
  <2> QED BY <1>2, <1>3, <2>3, <2>5 DEF BootInv
<1>8. CASE GoesOn
  <2>1. BootPlace'
    BY <1>1, <1>2, <1>4, <1>8 DEF GoesOn, BootPlace, LoadsDone, JustRefused
  <2>2. CallsInv'
    <3>1. CASE inited' = inited /\ (pc' \in AfterInit <=> pc \in AfterInit)
               /\ (pc \in AfterInit => base' = base)
      BY <1>5, <1>8, <3>1 DEF GoesOn, CallsInv, CallsMade, Current
    <3>2. CASE /\ pc = "init" /\ pc' = "export" /\ base' = base
               /\ inited' = IF mod.init THEN Append(inited, [id |-> mod.id, base |-> base])
                            ELSE inited
      <4>1. pc \notin AfterInit /\ pc' \in AfterInit /\ Current' = Current /\ live' = live
        BY <1>8, <3>2 DEF AfterInit, Current, GoesOn
      <4>2. CallsMade = InitCalls(live)
        BY <1>5, <4>1
      <4>3. CallsMade' = CallsMade \o InitCall(Current)
        <5>1. inited \in Seq([id : Ids, base : Nat]) /\ mod \in Modules /\ base \in Nat
          BY <1>1 DEF Core, LoadTypes
        <5>2. CallsMade \in Seq(Nat) /\ Len(CallsMade) = Len(inited)
          <6> DEFINE T == [id : Ids, base : Nat]
          <6>1. inited \in Seq(T) /\ \A x \in T : x.base \in Nat
            BY <5>1
          <6> HIDE DEF T
          <6>2. /\ Len(inited) \in Nat /\ DOMAIN inited = 1 .. Len(inited)
                /\ \A i \in 1 .. Len(inited) : inited[i] \in T
            BY <6>1
          <6>3. \A i \in 1 .. Len(inited) : inited[i].base \in Nat
            BY <6>1, <6>2
          <6> QED BY <6>2, <6>3 DEF CallsMade
        <5>3. CASE mod.init
          <6> DEFINE r == [id |-> mod.id, base |-> base]
          <6>1. r \in [id : Ids, base : Nat] /\ r.base = base
            BY <5>1 DEF Ids
          <6>2. inited' = Append(inited, r)
            BY <3>2, <5>3
          <6> HIDE DEF r
          <6>3. /\ DOMAIN inited = 1 .. Len(inited) /\ Len(inited) \in Nat
                /\ DOMAIN inited' = 1 .. Len(inited) + 1
                /\ \A i \in 1 .. Len(inited) : inited'[i] = inited[i]
                /\ inited'[Len(inited) + 1] = r
            BY <5>1, <6>1, <6>2
          <6>4. CallsMade' = Append(CallsMade, base)
            BY <5>2, <6>1, <6>3 DEF CallsMade
          <6>5. InitCall(Current) = << base >>
            BY <1>5, <5>3 DEF InitCall
          <6>6. Append(CallsMade, base) = CallsMade \o << base >>
            BY <5>1, <5>2
          <6> QED BY <6>4, <6>5, <6>6
        <5>4. CASE ~mod.init
          <6>1. CallsMade' = CallsMade /\ InitCall(Current) = << >>
            BY <1>5, <3>2, <5>4 DEF CallsMade, InitCall
          <6> QED BY <5>2, <6>1, ConcatEmptySeq
        <5> QED BY <5>3, <5>4
      <4>4. InitCalls(Append(live, Current)) = InitCalls(live) \o InitCall(Current)
        BY <1>5, MoreCalls
      <4> QED BY <4>1, <4>2, <4>3, <4>4 DEF CallsInv
    <3> QED BY <1>8, <3>1, <3>2 DEF GoesOn
  <2> QED BY <1>2, <1>3, <2>1, <2>2 DEF BootInv
<1> QED BY <1>4, <1>6, <1>7, <1>8

\* The head of a load, which may refuse it at once.
LEMMA LoadNextStep ==
  ASSUME HasCode, BootInv, LoadNext
  PROVE  BootInv'
<1> DEFINE m == containers[nth]
<1>1. /\ phase = "load" /\ phase' = "loading" /\ nth <= Len(containers) /\ LoadModule(m)
      /\ UNCHANGED <<pack, pos, containers, nth, halt>> /\ BootTypes /\ halt = "none"
      /\ LoaderSound /\ BootPlace /\ CallsInv /\ Core /\ pc = "idle"
  BY DEF LoadNext, BootInv, BootTypes, LoaderSound, BootPlace
<1>2. BootTypes' /\ halt' = "none"
  BY <1>1 DEF BootTypes
<1>3. LoaderSound'
  <2>1. m \in Modules
    BY <1>1 DEF BootTypes
  <2> HIDE DEF m
  <2> QED BY <1>1, <2>1, SoundStep DEF LoaderNext
<1>4. /\ live' = live /\ inited' = inited
      /\ \/ pc' = "unwrap" /\ mod' = m
         \/ pc' = "idle" /\ result' # "ok"
  BY <1>1, RefusalsAreErrors DEF LoadModule, Goto, Return
<1>5. BootPlace'
  BY <1>1, <1>4 DEF BootPlace, BootTypes, LoadsDone, JustRefused, Refused
<1>6. CallsInv'
  <2>1. CallsMade' = CallsMade /\ CallsMade = InitCalls(live) /\ pc' \notin AfterInit
    BY <1>1, <1>4 DEF CallsMade, CallsInv, JustRefused, AfterInit
  <2> QED BY <1>4, <2>1 DEF CallsInv
<1> QED BY <1>2, <1>3, <1>5, <1>6 DEF BootInv

\* The steps of the boot path itself.
LEMMA BootPathStep ==
  ASSUME BootInv, ParseBlob \/ ParseEnds \/ LoadSucceeds \/ CallMain
  PROVE  BootInv'
<1>1. /\ UNCHANGED loaderVars /\ BootTypes /\ halt = "none" /\ halt' # "trap"
      /\ LoaderSound /\ BootPlace /\ CallsInv
  BY DEF ParseBlob, ParseEnds, LoadSucceeds, CallMain, BootInv, BootTypes
<1>2. UNCHANGED <<symmap, loaded, registry, cursor, pc, mod, idx, symMark, apMark, base, result,
                  live, links, inited>>
  BY <1>1 DEF loaderVars, tables, history
<1>3. LoaderSound'
  <2>1. Core'
    BY <1>1, CoreStep DEF LoaderSound
  <2> QED BY <1>1, <1>2, <2>1
    DEF LoaderSound, OnceInv, BelowCursor, BelowBase, BaseNamesModule, NotYetLoaded, LoadedOnce,
        Placed, OwnInit, LinksInv, SymsSound, GoodLink, PlacedBase, LinksPlaced
<1>4. /\ Len(containers) \in Nat /\ Len(live) \in Nat /\ nth \in Nat \ {0} /\ DOMAIN live = 1 .. Len(live)
  BY <1>1 DEF BootTypes, LoaderSound, Core, LoadTypes
<1>5. CallsInv' /\ BootTypes' /\ BootPlace'
  <2>1. ASSUME ParseBlob PROVE CallsInv' /\ BootTypes' /\ BootPlace'
    <3> DEFINE x == pack[pos].mod
    <3>1. x \in Modules
      <4> DEFINE T == [prefix : BOOLEAN, parses : BOOLEAN, mod : Modules]
      <4>1. pack \in Packs /\ pos \in Nat \ {0} /\ pos <= Len(pack) /\ Packs \subseteq Seq(T)
        BY <1>1, <2>1, PackAssumption DEF BootTypes, ParseBlob, BlobAt
      <4>2. \A z \in T : z.mod \in Modules
        OBVIOUS
      <4> HIDE DEF T
      <4>3. pack \in Seq(T)
        BY <4>1
      <4>4. Len(pack) \in Nat
        BY <4>3
      <4>5. pos \in 1 .. Len(pack)
        BY <4>1, <4>4
      <4>6. pack[pos] \in T
        BY <4>3, <4>5
      <4> QED BY <4>2, <4>6
    <3>2. /\ containers' = Append(containers, x) /\ pos' = pos + 1 /\ phase = "parse"
          /\ UNCHANGED <<pack, nth, phase, halt>>
      BY <2>1 DEF ParseBlob
    <3> HIDE DEF x
    <3>3. BootTypes'
      BY <1>1, <3>1, <3>2 DEF BootTypes
    <3>4. Len(live) = 0
      BY <1>1, <3>2 DEF BootPlace, LoadsDone, JustRefused
    <3> QED BY <1>1, <1>2, <3>2, <3>3, <3>4
      DEF BootPlace, LoadsDone, CallsInv, CallsMade, JustRefused, Refused, Current
  <2>2. ASSUME ParseEnds PROVE CallsInv' /\ BootTypes' /\ BootPlace'
    BY <1>1, <1>2, <1>4, <2>2
    DEF ParseEnds, BootTypes, BootPlace, LoadsDone, CallsInv, CallsMade, JustRefused, Refused,
        Current
  <2>3. ASSUME LoadSucceeds PROVE CallsInv' /\ BootTypes' /\ BootPlace'
    BY <1>1, <1>2, <1>4, <2>3
    DEF LoadSucceeds, BootTypes, BootPlace, LoadsDone, CallsInv, CallsMade, JustRefused, Refused,
        Current
  <2>4. ASSUME CallMain PROVE CallsInv' /\ BootTypes' /\ BootPlace'
    BY <1>1, <1>2, <1>4, <2>4
    DEF CallMain, BootTypes, BootPlace, LoadsDone, CallsInv, CallsMade, JustRefused, Refused,
        Current
  <2> QED BY <2>1, <2>2, <2>3, <2>4
<1> QED BY <1>1, <1>3, <1>5 DEF BootInv

\* Every step of the boot path keeps its invariant.
LEMMA BootStepInv == ASSUME HasCode PROVE BootInv /\ [BootNext]_allVars => BootInv'
<1> SUFFICES ASSUME BootInv, [BootNext]_allVars PROVE BootInv'
  OBVIOUS
<1>1. ASSUME TooManyBlobs \/ ParseFails \/ NoBlob \/ LoadFails \/ NoMain PROVE BootInv'
  BY <1>1
  DEF TooManyBlobs, ParseFails, NoBlob, LoadFails, NoMain, ResetAndTrap, Trap, BootInv, BootTypes
<1>2. ASSUME UNCHANGED allVars PROVE BootInv'
  <2>1. UNCHANGED loaderVars /\ UNCHANGED bootVars
    BY <1>2 DEF allVars
  <2>2. UNCHANGED <<symmap, loaded, registry, cursor, pc, mod, idx, symMark, apMark, base, result,
                    live, links, inited>>
    BY <2>1 DEF loaderVars, tables, history
  <2>3. ASSUME LoaderSound PROVE LoaderSound'
    <3>1. Core'
      BY <2>1, <2>3, CoreStep DEF LoaderSound
    <3> QED BY <2>2, <2>3, <3>1
      DEF LoaderSound, OnceInv, BelowCursor, BelowBase, BaseNamesModule, NotYetLoaded, LoadedOnce,
          Placed, OwnInit, LinksInv, SymsSound, GoodLink, PlacedBase, LinksPlaced
  <2> QED BY <2>1, <2>2, <2>3
    DEF bootVars, BootInv, BootTypes, BootPlace, LoadsDone, CallsInv, CallsMade, JustRefused,
        Refused, Current
<1> QED BY <1>1, <1>2, LoadingStep, LoadNextStep, BootPathStep DEF BootNext, BootStep, Halted

\* Main runs only when every container that was parsed has been loaded, in
\* embed order, each init word has run once and in that order, and every
\* import was patched to code below the importing module's.
THEOREM MainSeesWholeImage == HasCode => (BootSpec => []MainRunsOnWholeImage)
<1> SUFFICES ASSUME HasCode PROVE BootSpec => []MainRunsOnWholeImage
  OBVIOUS
<1>1. BootInv => MainRunsOnWholeImage
  <2> SUFFICES ASSUME BootInv, halt = "main"
               PROVE  /\ [i \in DOMAIN live |-> live[i].mod] = containers
                      /\ CallsMade = InitCalls(live)
                      /\ \A l \in links : l.to < l.from
    BY DEF MainRunsOnWholeImage, CallsMade, InitCalls
  <2>1. /\ BootTypes /\ LoaderSound /\ BootPlace /\ CallsInv /\ phase = "halted" /\ pc = "idle"
        /\ Len(live) = Len(containers)
    BY DEF BootInv, BootTypes, BootPlace, LoadsDone, JustRefused
  <2>2. /\ containers \in Seq(Modules) /\ DOMAIN live = 1 .. Len(live)
        /\ \A i \in 1 .. Len(live) : live[i].mod = containers[i]
    BY <2>1 DEF BootTypes, LoaderSound, Core, LoadTypes, BootPlace
  <2>3. [i \in DOMAIN live |-> live[i].mod] = containers
    BY <2>1, <2>2
  <2>4. CallsMade = InitCalls(live)
    BY <2>1 DEF CallsInv, JustRefused, AfterInit
  <2>5. ASSUME NEW l \in links PROVE l.to < l.from
    <3>1. GoodLink(l, live) /\ l.from > 0
      BY <2>1 DEF LoaderSound, LinksInv, LinksPlaced
    <3>2. \A i \in DOMAIN Firmware : Firmware[i].addr = 0
      <4> DEFINE T == [hash : STRING, name : STRING, addr : {0}]
      <4>1. Firmware \in Seq(T)
        BY LoaderAssumption
      <4>2. \A x \in T : x.addr = 0
        OBVIOUS
      <4> HIDE DEF T
      <4>3. \A i \in DOMAIN Firmware : Firmware[i] \in T
        BY <4>1
      <4> QED BY <4>2, <4>3
    <3> QED BY <3>1, <3>2 DEF GoodLink
  <2> QED BY <2>3, <2>4, <2>5
<1> QED BY <1>1, BootInitInv, BootStepInv, PTL DEF BootSpec
=============================================================================
