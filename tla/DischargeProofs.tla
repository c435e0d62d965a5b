-------------------------- MODULE DischargeProofs ---------------------------
(***************************************************************************)
(* Three layers of proof for a word of any size.                           *)
(*                                                                         *)
(* The interval lattice is sound: whatever concrete values the operands    *)
(* stand for, the wrapped result is a value of the abstract result, and a  *)
(* definite answer is the machine's answer.                                *)
(*                                                                         *)
(* The verdicts are sound: while a word is compiled, every code position   *)
(* carries a note, the abstract state and the types that describe every    *)
(* machine stack there.  A step of the compiler extends the notes, every   *)
(* instruction leads from described stacks to described stacks, and a      *)
(* verdict judges an obligation on its note, hence on every run.           *)
(*                                                                         *)
(* An accepted predicate keeps the inputs: while it is compiled, the       *)
(* origins of the slots tell what the machine's stack holds at every       *)
(* position, and the body never jumps back into it.                        *)
(***************************************************************************)
EXTENDS Discharge, TLAPS

\* A value of the word is its own wrapped value.
LEMMA WrapIdentity == \A n \in Word : Wrap(n) = n
<1> SUFFICES ASSUME NEW n \in Word PROVE Wrap(n) = n
  OBVIOUS
<1> DEFINE m == n - IntMin
           s == 2 * IntMax + 2
<1>1. n \in Int /\ IntMin \in Int /\ m \in Int /\ s \in Int /\ s > 0 /\ 0 <= m /\ m < s
  BY IntMaxAssumption DEF Word, IntMin
<1>2. m % s = m
  <2> HIDE DEF m, s
  <2> QED BY <1>1
<1> QED BY <1>1, <1>2 DEF Wrap

\* Every wrapped value is a value of the word.
LEMMA WrapInWord == \A n \in Int : Wrap(n) \in Word
<1> SUFFICES ASSUME NEW n \in Int PROVE Wrap(n) \in Word
  OBVIOUS
<1> DEFINE m == n - IntMin
           s == 2 * IntMax + 2
<1>1. IntMin \in Int /\ m \in Int /\ s \in Int /\ s > 0 /\ IntMax \in Int /\ IntMin = -IntMax - 1
  BY IntMaxAssumption DEF IntMin
<1>2. m % s \in 0 .. s - 1
  <2> HIDE DEF m, s
  <2> QED BY <1>1
<1> QED BY <1>1, <1>2 DEF Wrap, Word

\* add: sound against the wrapping machine for every word size.
THEOREM AddSound ==
  \A a, b \in Interval, x, y \in Word :
    Contains(a, x) /\ Contains(b, y) => Contains(Add(a, b), Wrap(x + y))
<1> SUFFICES ASSUME NEW a \in Interval, NEW b \in Interval, NEW x \in Word, NEW y \in Word,
                    Contains(a, x), Contains(b, y)
             PROVE  Contains(Add(a, b), Wrap(x + y))
  OBVIOUS
<1>0. IntMin \in Int /\ IntMax \in Int
  BY IntMaxAssumption DEF IntMin
<1>1. CASE a.k = "range" /\ b.k = "range" /\ a.lo + b.lo \in Word /\ a.hi + b.hi \in Word
  <2>1. Add(a, b) = Range(a.lo + b.lo, a.hi + b.hi)
    BY <1>1 DEF Add, Lift, CheckedRange
  <2>2. a.lo <= x /\ x <= a.hi /\ b.lo <= y /\ y <= b.hi
    BY <1>1 DEF Contains
  <2>3. a.lo \in Int /\ a.hi \in Int /\ b.lo \in Int /\ b.hi \in Int /\ x \in Int /\ y \in Int
    BY <1>0 DEF Interval, Word
  <2>4. x + y \in Word
    BY <1>0, <1>1, <2>2, <2>3 DEF Word
  <2>5. Wrap(x + y) = x + y
    BY <2>4, WrapIdentity
  <2> QED BY <2>1, <2>2, <2>3, <2>5 DEF Contains, Range
<1>2. CASE ~(a.k = "range" /\ b.k = "range" /\ a.lo + b.lo \in Word /\ a.hi + b.hi \in Word)
  <2>1. Add(a, b) = Top
    BY <1>2 DEF Add, Lift, CheckedRange, Contains
  <2> QED BY <2>1 DEF Contains, Top
<1> QED BY <1>1, <1>2

\* sub: sound against the wrapping machine for every word size.
THEOREM SubSound ==
  \A a, b \in Interval, x, y \in Word :
    Contains(a, x) /\ Contains(b, y) => Contains(Sub(a, b), Wrap(x - y))
<1> SUFFICES ASSUME NEW a \in Interval, NEW b \in Interval, NEW x \in Word, NEW y \in Word,
                    Contains(a, x), Contains(b, y)
             PROVE  Contains(Sub(a, b), Wrap(x - y))
  OBVIOUS
<1>0. IntMin \in Int /\ IntMax \in Int
  BY IntMaxAssumption DEF IntMin
<1>1. CASE a.k = "range" /\ b.k = "range" /\ a.lo - b.hi \in Word /\ a.hi - b.lo \in Word
  <2>1. Sub(a, b) = Range(a.lo - b.hi, a.hi - b.lo)
    BY <1>1 DEF Sub, Lift, CheckedRange
  <2>2. a.lo <= x /\ x <= a.hi /\ b.lo <= y /\ y <= b.hi
    BY <1>1 DEF Contains
  <2>3. a.lo \in Int /\ a.hi \in Int /\ b.lo \in Int /\ b.hi \in Int /\ x \in Int /\ y \in Int
    BY <1>0 DEF Interval, Word
  <2>4. x - y \in Word
    BY <1>0, <1>1, <2>2, <2>3 DEF Word
  <2>5. Wrap(x - y) = x - y
    BY <2>4, WrapIdentity
  <2> QED BY <2>1, <2>2, <2>3, <2>5 DEF Contains, Range
<1>2. CASE ~(a.k = "range" /\ b.k = "range" /\ a.lo - b.hi \in Word /\ a.hi - b.lo \in Word)
  <2>1. Sub(a, b) = Top
    BY <1>2 DEF Sub, Lift, CheckedRange, Contains
  <2> QED BY <2>1 DEF Contains, Top
<1> QED BY <1>1, <1>2

\* Multiplication is monotone for one sign of the factor.
LEMMA TimesMonotone ==
  \A p, q, r \in Int : p <= q => /\ (r >= 0 => p * r <= q * r)
                               /\ (r <= 0 => q * r <= p * r)
<1> SUFFICES ASSUME NEW p \in Int, NEW q \in Int, NEW r \in Int, p <= q
             PROVE  (r >= 0 => p * r <= q * r) /\ (r <= 0 => q * r <= p * r)
  OBVIOUS
<1> DEFINE d == q - p
<1>1. d \in Int /\ d >= 0 /\ q = p + d
  OBVIOUS
<1> HIDE DEF d
<1>2. q * r = p * r + d * r
  BY <1>1
<1>3. (r >= 0 => d * r >= 0) /\ (r <= 0 => d * r <= 0)
  BY <1>1
<1>4. d * r \in Int /\ p * r \in Int
  BY <1>1
<1> QED BY <1>2, <1>3, <1>4

\* A product with one factor in a range lies between the products of the ends.
LEMMA Between ==
  \A lo, hi, x, y \in Int :
    lo <= x /\ x <= hi => /\ LeastOf(lo * y, hi * y) <= x * y
                         /\ x * y <= GreatestOf(lo * y, hi * y)
<1> SUFFICES ASSUME NEW lo \in Int, NEW hi \in Int, NEW x \in Int, NEW y \in Int,
                    lo <= x, x <= hi
             PROVE  LeastOf(lo * y, hi * y) <= x * y /\ x * y <= GreatestOf(lo * y, hi * y)
  OBVIOUS
<1>1. /\ y >= 0 => lo * y <= x * y /\ x * y <= hi * y
      /\ y <= 0 => hi * y <= x * y /\ x * y <= lo * y
  BY TimesMonotone
<1>2. lo * y \in Int /\ hi * y \in Int /\ x * y \in Int
  OBVIOUS
<1> QED BY <1>1, <1>2 DEF LeastOf, GreatestOf

\* mul: the four corners bound every product of the two ranges.
LEMMA FourCorners ==
  ASSUME NEW a \in Int, NEW b \in Int, NEW c \in Int, NEW d \in Int,
         NEW x \in Int, NEW y \in Int, a <= x, x <= b, c <= y, y <= d
  PROVE  /\ LeastOf(LeastOf(a * c, a * d), LeastOf(b * c, b * d)) <= x * y
         /\ x * y <= GreatestOf(GreatestOf(a * c, a * d), GreatestOf(b * c, b * d))
<1>1. LeastOf(a * y, b * y) <= x * y /\ x * y <= GreatestOf(a * y, b * y)
  BY Between
<1>2. LeastOf(c * a, d * a) <= y * a /\ y * a <= GreatestOf(c * a, d * a)
  BY Between
<1>3. LeastOf(c * b, d * b) <= y * b /\ y * b <= GreatestOf(c * b, d * b)
  BY Between
<1>4. /\ a * c = c * a /\ a * d = d * a /\ b * c = c * b /\ b * d = d * b
      /\ a * y = y * a /\ b * y = y * b
  OBVIOUS
<1>5. /\ a * c \in Int /\ a * d \in Int /\ b * c \in Int /\ b * d \in Int
      /\ a * y \in Int /\ b * y \in Int /\ x * y \in Int
  OBVIOUS
<1> QED BY <1>1, <1>2, <1>3, <1>4, <1>5 DEF LeastOf, GreatestOf

\* mul: sound against the wrapping machine for every word size.
THEOREM MulSound ==
  \A a, b \in Interval, x, y \in Word :
    Contains(a, x) /\ Contains(b, y) => Contains(Mul(a, b), Wrap(x * y))
<1> SUFFICES ASSUME NEW a \in Interval, NEW b \in Interval, NEW x \in Word, NEW y \in Word,
                    Contains(a, x), Contains(b, y)
             PROVE  Contains(Mul(a, b), Wrap(x * y))
  OBVIOUS
<1> DEFINE lo == LeastOf(LeastOf(a.lo * b.lo, a.lo * b.hi), LeastOf(a.hi * b.lo, a.hi * b.hi))
           hi == GreatestOf(GreatestOf(a.lo * b.lo, a.lo * b.hi),
                            GreatestOf(a.hi * b.lo, a.hi * b.hi))
           p == x * y
<1>0. /\ IntMin \in Int /\ IntMax \in Int /\ x \in Int /\ y \in Int
      /\ a.lo \in Int /\ a.hi \in Int /\ b.lo \in Int /\ b.hi \in Int
  BY IntMaxAssumption DEF IntMin, Word, Interval
<1>1. p \in Int /\ lo \in Int /\ hi \in Int
  BY <1>0 DEF LeastOf, GreatestOf
<1>2. Mul(a, b) = Lift(a, b, CheckedRange(lo, hi))
  BY DEF Mul
<1>3. a.k = "range" /\ b.k = "range" => lo <= p /\ p <= hi
  BY <1>0, FourCorners DEF Contains
<1> HIDE DEF lo, hi, p
<1>4. CASE a.k = "range" /\ b.k = "range" /\ lo \in Word /\ hi \in Word
  <2>1. Mul(a, b) = Range(lo, hi)
    BY <1>2, <1>4 DEF Lift, CheckedRange
  <2>2. p \in Word
    BY <1>0, <1>1, <1>3, <1>4 DEF Word
  <2>3. Wrap(p) = p
    BY <2>2, WrapIdentity
  <2>4. Contains(Mul(a, b), Wrap(p))
    BY <1>1, <1>3, <1>4, <2>1, <2>3 DEF Contains, Range
  <2> QED BY <2>4 DEF p
<1>5. CASE ~(a.k = "range" /\ b.k = "range" /\ lo \in Word /\ hi \in Word)
  <2>1. Mul(a, b) = Top
    BY <1>2, <1>5 DEF Lift, CheckedRange, Contains
  <2> QED BY <2>1 DEF Contains, Top
<1> QED BY <1>4, <1>5

\* join and intersect: the hull holds every value of both, the meet exactly the
\* common ones, and subset_of answers yes only for inclusion.
THEOREM LatticeSound ==
  \A a, b \in Interval, v \in Word :
    /\ Contains(a, v) \/ Contains(b, v) => Contains(Join(a, b), v)
    /\ Contains(Intersect(a, b), v) <=> Contains(a, v) /\ Contains(b, v)
    /\ SubsetOf(a, b) /\ Contains(a, v) => Contains(b, v)
<1> SUFFICES ASSUME NEW a \in Interval, NEW b \in Interval, NEW v \in Word
             PROVE  /\ Contains(a, v) \/ Contains(b, v) => Contains(Join(a, b), v)
                    /\ Contains(Intersect(a, b), v) <=> Contains(a, v) /\ Contains(b, v)
                    /\ SubsetOf(a, b) /\ Contains(a, v) => Contains(b, v)
  OBVIOUS
<1>0. /\ v \in Int /\ a.lo \in Int /\ a.hi \in Int /\ b.lo \in Int /\ b.hi \in Int
      /\ a.k \in {"bottom", "range", "top"} /\ b.k \in {"bottom", "range", "top"}
  BY IntMaxAssumption DEF IntMin, Word, Interval
<1>1. Contains(a, v) \/ Contains(b, v) => Contains(Join(a, b), v)
  BY <1>0 DEF Contains, Join, Range, Top, LeastOf, GreatestOf
<1>2. Contains(Intersect(a, b), v) <=> Contains(a, v) /\ Contains(b, v)
  BY <1>0 DEF Contains, Intersect, Range, Bottom, LeastOf, GreatestOf
<1>3. SubsetOf(a, b) /\ Contains(a, v) => Contains(b, v)
  BY <1>0 DEF Contains, SubsetOf
<1> QED BY <1>1, <1>2, <1>3

\* eval_in_range: a definite verdict is the verdict of the run-time check.
THEOREM VerdictSound ==
  \A a \in Interval, v, lo, hi \in Word :
    Contains(a, v) => /\ EvalInRange(a, lo, hi) = "DefTrue" => lo <= v /\ v <= hi
                      /\ EvalInRange(a, lo, hi) = "DefFalse" => ~(lo <= v /\ v <= hi)
<1> SUFFICES ASSUME NEW a \in Interval, NEW v \in Word, NEW lo \in Word, NEW hi \in Word,
                    Contains(a, v)
             PROVE  /\ EvalInRange(a, lo, hi) = "DefTrue" => lo <= v /\ v <= hi
                    /\ EvalInRange(a, lo, hi) = "DefFalse" => ~(lo <= v /\ v <= hi)
  OBVIOUS
<1>0. /\ v \in Int /\ lo \in Int /\ hi \in Int /\ a.lo \in Int /\ a.hi \in Int
      /\ a.k \in {"bottom", "range", "top"}
  BY IntMaxAssumption DEF IntMin, Word, Interval
<1> QED BY <1>0 DEF Contains, EvalInRange

\* tri_cmp: a definite comparison is the comparison of every pair of values.
THEOREM ComparisonSound ==
  \A a, b \in Interval, x, y \in Word, kind \in CmpKinds :
    Contains(a, x) /\ Contains(b, y) =>
      /\ TriCmp(a, b, kind) = "DefTrue" => Holds(kind, x, y)
      /\ TriCmp(a, b, kind) = "DefFalse" => ~Holds(kind, x, y)
<1> SUFFICES ASSUME NEW a \in Interval, NEW b \in Interval, NEW x \in Word, NEW y \in Word,
                    NEW kind \in CmpKinds, Contains(a, x), Contains(b, y)
             PROVE  /\ TriCmp(a, b, kind) = "DefTrue" => Holds(kind, x, y)
                    /\ TriCmp(a, b, kind) = "DefFalse" => ~Holds(kind, x, y)
  OBVIOUS
<1>0. /\ x \in Int /\ y \in Int
      /\ a.lo \in Int /\ a.hi \in Int /\ b.lo \in Int /\ b.hi \in Int
  BY IntMaxAssumption DEF IntMin, Word, Interval
<1>1. CASE a.k = "range" /\ b.k = "range"
  <2>0. a.lo <= x /\ x <= a.hi /\ b.lo <= y /\ y <= b.hi
    BY <1>1 DEF Contains
  <2>1. CASE kind = "lt"
    BY <1>0, <1>1, <2>0, <2>1 DEF TriCmp, Decide, Holds
  <2>2. CASE kind = "le"
    BY <1>0, <1>1, <2>0, <2>2 DEF TriCmp, Decide, Holds
  <2>3. CASE kind = "gt"
    BY <1>0, <1>1, <2>0, <2>3 DEF TriCmp, Decide, Holds
  <2>4. CASE kind = "ge"
    BY <1>0, <1>1, <2>0, <2>4 DEF TriCmp, Decide, Holds
  <2>5. CASE kind = "eq"
    BY <1>0, <1>1, <2>0, <2>5 DEF TriCmp, Decide, Holds
  <2>6. CASE kind = "ne"
    BY <1>0, <1>1, <2>0, <2>6 DEF TriCmp, Decide, Holds
  <2> QED BY <2>1, <2>2, <2>3, <2>4, <2>5, <2>6 DEF CmpKinds
<1>2. CASE ~(a.k = "range" /\ b.k = "range")
  BY <1>2 DEF TriCmp
<1> QED BY <1>1, <1>2

\* A flag's interval holds the flag, and the connectives of definite flags are
\* the machine's connectives.
THEOREM FlagsSound ==
  \A a, b \in Interval, x, y \in {0, 1} :
    Contains(a, x) /\ Contains(b, y) =>
      /\ Contains(BoolIv(TriFromBoolIv(a)), x)
      /\ Contains(BoolIv(TriNot(TriFromBoolIv(a))), 1 - x)
      /\ Contains(BoolIv(TriAnd(TriFromBoolIv(a), TriFromBoolIv(b))), x * y)
      /\ Contains(BoolIv(TriOr(TriFromBoolIv(a), TriFromBoolIv(b))), GreatestOf(x, y))
<1> SUFFICES ASSUME NEW a \in Interval, NEW b \in Interval, NEW x \in {0, 1}, NEW y \in {0, 1},
                    Contains(a, x), Contains(b, y)
             PROVE  /\ Contains(BoolIv(TriFromBoolIv(a)), x)
                    /\ Contains(BoolIv(TriNot(TriFromBoolIv(a))), 1 - x)
                    /\ Contains(BoolIv(TriAnd(TriFromBoolIv(a), TriFromBoolIv(b))), x * y)
                    /\ Contains(BoolIv(TriOr(TriFromBoolIv(a), TriFromBoolIv(b))),
                                GreatestOf(x, y))
  OBVIOUS
<1> DEFINE s == TriFromBoolIv(a)
           t == TriFromBoolIv(b)
<1>1. (s = "DefTrue" /\ x = 1) \/ (s = "DefFalse" /\ x = 0) \/ s = "Top"
  BY DEF TriFromBoolIv, Contains, Range
<1>2. (t = "DefTrue" /\ y = 1) \/ (t = "DefFalse" /\ y = 0) \/ t = "Top"
  BY DEF TriFromBoolIv, Contains, Range
<1> HIDE DEF s, t
<1>3. Contains(BoolIv(s), x) /\ Contains(BoolIv(TriNot(s)), 1 - x)
  BY <1>1 DEF BoolIv, TriNot, Contains, Range, Const
<1>4. Contains(BoolIv(TriAnd(s, t)), x * y)
  BY <1>1, <1>2 DEF BoolIv, TriAnd, Contains, Range, Const
<1>5. Contains(BoolIv(TriOr(s, t)), GreatestOf(x, y))
  BY <1>1, <1>2 DEF BoolIv, TriOr, Contains, Range, Const, GreatestOf
<1> QED BY <1>3, <1>4, <1>5 DEF s, t
-----------------------------------------------------------------------------
(***************************************************************************)
(* From here on: the compiler of Discharge.  Every position of the code    *)
(* has an abstract state and a stack of types, chosen while it is          *)
(* compiled, that describe every stack the machine can have there; the     *)
(* verdicts were given on those states.                                    *)
(***************************************************************************)
Ops == OpNames \cup {"const", "get", "check", "elided", "as?", "br", "brif", "trapiffalse", "ret"}
Types == {"int", "sub", "bool"}
Slots == [iv : Interval, org : Int]
States == Seq(Slots)
Stacks == Seq(Word)
Inputs == [1 .. NIn -> Word]

\* A machine stack is described by an abstract stack and its types.
CoversAt(st, ty, c, i) ==
  Contains(st[i].iv, c[i]) /\ (ty[i] = "bool" => c[i] \in {0, 1})
Covers(st, ty, c) ==
  /\ Len(st) = Len(ty) /\ Len(c) = Len(ty)
  /\ \A i \in 1 .. Len(ty) : CoversAt(st, ty, c, i)

\* Sequences shortened and lengthened at their end.
LEMMA BelowFacts ==
  ASSUME NEW S, NEW s \in Seq(S), NEW n \in Nat, n <= Len(s)
  PROVE  /\ Below(s, n) \in Seq(S) /\ Len(Below(s, n)) = Len(s) - n
         /\ \A i \in 1 .. Len(s) - n : Below(s, n)[i] = s[i]
BY DEF Below

\* One element longer.
LEMMA AppendFacts ==
  ASSUME NEW S, NEW s \in Seq(S), NEW x \in S
  PROVE  /\ Append(s, x) \in Seq(S) /\ Len(Append(s, x)) = Len(s) + 1
         /\ \A i \in 1 .. Len(s) : Append(s, x)[i] = s[i]
         /\ Append(s, x)[Len(s) + 1] = x
OBVIOUS

\* The bounds of the word.
LEMMA WordFacts ==
  /\ IntMin \in Int /\ IntMax \in Nat \ {0} /\ 0 \in Word /\ 1 \in Word
  /\ Word \subseteq Int /\ \A n \in Int : n \in Word <=> IntMin <= n /\ n <= IntMax
BY IntMaxAssumption DEF IntMin, Word

\* What the domain computes are intervals.
LEMMA IntervalTypes ==
  /\ Top \in Interval /\ Bottom \in Interval /\ \A v \in Word : Const(v) \in Interval
  /\ \A t : BoolIv(t) \in Interval
  /\ \A a, b \in Interval : /\ Add(a, b) \in Interval /\ Sub(a, b) \in Interval
                            /\ Join(a, b) \in Interval /\ Intersect(a, b) \in Interval
                            /\ Mul(a, b) \in Interval
  /\ \A a \in Interval, lo, hi \in Word : CastNarrow(a, lo, hi) \in Interval
<1> USE WordFacts
<1>1. \A lo, hi \in Word : Range(lo, hi) \in Interval
  BY DEF Range, Interval
<1>2. Top \in Interval /\ Bottom \in Interval
  BY DEF Top, Bottom, Interval
<1>3. \A v \in Word : Const(v) \in Interval
  BY <1>1 DEF Const
<1>4. \A t : BoolIv(t) \in Interval
  BY <1>1, <1>3 DEF BoolIv
<1>5. \A lo, hi : CheckedRange(lo, hi) \in Interval
  BY <1>1, <1>2 DEF CheckedRange
<1>6. \A a, b : \A r \in Interval : Lift(a, b, r) \in Interval
  BY <1>2 DEF Lift
<1>7. \A a, b : Add(a, b) \in Interval /\ Sub(a, b) \in Interval /\ Mul(a, b) \in Interval
  BY <1>5, <1>6 DEF Add, Sub, Mul
<1>8. ASSUME NEW a \in Interval, NEW b \in Interval
      PROVE  Join(a, b) \in Interval /\ Intersect(a, b) \in Interval
  <2>1. a.lo \in Word /\ a.hi \in Word /\ b.lo \in Word /\ b.hi \in Word
    BY DEF Interval
  <2>2. \A x, y \in Word : LeastOf(x, y) \in Word /\ GreatestOf(x, y) \in Word
    BY DEF LeastOf, GreatestOf
  <2> QED BY <1>1, <1>2, <2>1, <2>2 DEF Join, Intersect
<1>9. \A a \in Interval, lo, hi \in Word : CastNarrow(a, lo, hi) \in Interval
  BY <1>1, <1>8 DEF CastNarrow
<1> QED BY <1>2, <1>3, <1>4, <1>7, <1>8, <1>9

\* A pop on all three stacks.
LEMMA PopCovers ==
  ASSUME NEW st \in States, NEW ty \in Seq(Types), NEW c \in Stacks, Covers(st, ty, c),
         NEW n \in Nat, n <= Len(ty)
  PROVE  /\ Pop(st, n) \in States /\ Below(ty, n) \in Seq(Types) /\ Below(c, n) \in Stacks
         /\ Len(Below(ty, n)) = Len(ty) - n
         /\ Covers(Pop(st, n), Below(ty, n), Below(c, n))
<1>1. Len(st) = Len(ty) /\ Len(c) = Len(ty) /\ Len(ty) \in Nat
  BY DEF Covers
<1>2. GreatestOf(Len(st) - n, 0) = Len(st) - n /\ LeastOf(Len(st) - n, Len(st)) = Len(st) - n
  BY <1>1 DEF GreatestOf, LeastOf
<1>3. Pop(st, n) = Below(st, n)
  BY <1>2 DEF Pop, Truncate, Below
<1>4. /\ Below(st, n) \in States /\ Len(Below(st, n)) = Len(ty) - n
      /\ \A i \in 1 .. Len(ty) - n : Below(st, n)[i] = st[i]
  BY <1>1, BelowFacts DEF States
<1>5. /\ Below(ty, n) \in Seq(Types) /\ Len(Below(ty, n)) = Len(ty) - n
      /\ \A i \in 1 .. Len(ty) - n : Below(ty, n)[i] = ty[i]
  BY <1>1, BelowFacts
<1>6. /\ Below(c, n) \in Stacks /\ Len(Below(c, n)) = Len(ty) - n
      /\ \A i \in 1 .. Len(ty) - n : Below(c, n)[i] = c[i]
  BY <1>1, BelowFacts DEF Stacks
<1>7. \A i \in 1 .. Len(ty) - n : CoversAt(Below(st, n), Below(ty, n), Below(c, n), i)
  <2> TAKE i \in 1 .. Len(ty) - n
  <2>1. i \in 1 .. Len(ty)
    BY <1>1
  <2>2. CoversAt(st, ty, c, i)
    BY <2>1 DEF Covers
  <2>3. Below(st, n)[i] = st[i] /\ Below(ty, n)[i] = ty[i] /\ Below(c, n)[i] = c[i]
    BY <1>4, <1>5, <1>6
  <2> QED BY <2>2, <2>3 DEF CoversAt
<1> QED BY <1>3, <1>4, <1>5, <1>6, <1>7 DEF Covers

\* A push on all three stacks, while the abstract one is not full.
LEMMA PushCovers ==
  ASSUME NEW st \in States, NEW ty \in Seq(Types), NEW c \in Stacks, Covers(st, ty, c),
         Len(ty) < MaxSlots,
         NEW s \in Slots, NEW t \in Types, NEW x \in Word,
         Contains(s.iv, x), t = "bool" => x \in {0, 1}
  PROVE  /\ Push(st, s) \in States /\ Append(ty, t) \in Seq(Types) /\ Append(c, x) \in Stacks
         /\ Len(Append(ty, t)) = Len(ty) + 1
         /\ Covers(Push(st, s), Append(ty, t), Append(c, x))
<1>1. Len(st) = Len(ty) /\ Len(c) = Len(ty) /\ Len(ty) \in Nat /\ MaxSlots \in Nat
  BY DischargeAssumption DEF Covers
<1>2. LeastOf(MaxSlots - 1, Len(st)) = Len(st)
  BY <1>1 DEF LeastOf
<1>3. Truncate(st, MaxSlots - 1) = st
  BY <1>2 DEF Truncate, States
<1>4. Push(st, s) = Append(st, s)
  BY <1>3 DEF Push
<1>5. /\ Append(st, s) \in States /\ Len(Append(st, s)) = Len(ty) + 1
      /\ \A i \in 1 .. Len(ty) : Append(st, s)[i] = st[i]
      /\ Append(st, s)[Len(ty) + 1] = s
  BY <1>1, AppendFacts DEF States
<1>6. /\ Append(ty, t) \in Seq(Types) /\ Len(Append(ty, t)) = Len(ty) + 1
      /\ \A i \in 1 .. Len(ty) : Append(ty, t)[i] = ty[i]
      /\ Append(ty, t)[Len(ty) + 1] = t
  BY <1>1, AppendFacts
<1>7. /\ Append(c, x) \in Stacks /\ Len(Append(c, x)) = Len(ty) + 1
      /\ \A i \in 1 .. Len(ty) : Append(c, x)[i] = c[i]
      /\ Append(c, x)[Len(ty) + 1] = x
  BY <1>1, AppendFacts DEF Stacks
<1>8. \A i \in 1 .. Len(ty) + 1 : CoversAt(Append(st, s), Append(ty, t), Append(c, x), i)
  <2> TAKE i \in 1 .. Len(ty) + 1
  <2>1. CASE i \in 1 .. Len(ty)
    BY <1>5, <1>6, <1>7, <2>1 DEF Covers, CoversAt
  <2>2. CASE i = Len(ty) + 1
    BY <1>5, <1>6, <1>7, <2>2 DEF CoversAt
  <2> QED BY <1>1, <2>1, <2>2
<1> QED BY <1>4, <1>5, <1>6, <1>7, <1>8 DEF Covers
\* A sequence is its front and its last element.
LEMMA FrontLast ==
  ASSUME NEW S, NEW s \in Seq(S), NEW n \in Nat, n < Len(s)
  PROVE  /\ Append(Below(s, n + 1), s[Len(s) - n]) = Below(s, n)
         /\ s[Len(s) - n] \in S
<1>1. Len(s) \in Nat /\ Len(s) - n \in 1 .. Len(s)
  OBVIOUS
<1>2. s[Len(s) - n] \in S
  BY <1>1
<1>3. /\ Below(s, n + 1) \in Seq(S) /\ Len(Below(s, n + 1)) = Len(s) - n - 1
      /\ \A i \in 1 .. Len(s) - n - 1 : Below(s, n + 1)[i] = s[i]
  <2>1. n + 1 \in Nat /\ n + 1 <= Len(s) /\ Len(s) - (n + 1) = Len(s) - n - 1
    BY <1>1
  <2> QED BY <2>1, BelowFacts
<1>4. /\ Below(s, n) \in Seq(S) /\ Len(Below(s, n)) = Len(s) - n
      /\ \A i \in 1 .. Len(s) - n : Below(s, n)[i] = s[i]
  <2>1. n <= Len(s)
    BY <1>1
  <2> QED BY <2>1, BelowFacts
<1> DEFINE a == Append(Below(s, n + 1), s[Len(s) - n])
<1>5. /\ a \in Seq(S) /\ Len(a) = Len(s) - n
      /\ \A i \in 1 .. Len(s) - n - 1 : a[i] = s[i]
      /\ a[Len(s) - n] = s[Len(s) - n]
  BY <1>1, <1>2, <1>3, AppendFacts
<1> HIDE DEF a
<1>6. \A i \in 1 .. Len(s) - n : a[i] = Below(s, n)[i]
  BY <1>1, <1>4, <1>5
<1>7. a = Below(s, n)
  BY <1>1, <1>4, <1>5, <1>6
<1> QED BY <1>2, <1>7 DEF a

\* Two elements appended at once, or one after the other.
LEMMA AppendTwice ==
  ASSUME NEW S, NEW s \in Seq(S), NEW x \in S, NEW y \in S
  PROVE  s \o <<x, y>> = Append(Append(s, x), y)
OBVIOUS

\* Nothing dropped.
LEMMA BelowNone == ASSUME NEW S, NEW s \in Seq(S) PROVE Below(s, 0) = s
<1>1. Len(s) - 0 = Len(s)
  OBVIOUS
<1> QED BY <1>1 DEF Below

\* The slots at the top describe the values at the top.
LEMMA PeekCovers ==
  ASSUME NEW st \in States, NEW ty \in Seq(Types), NEW c \in Stacks, Covers(st, ty, c),
         NEW n \in Nat \ {0}, n <= Len(ty)
  PROVE  /\ Peek(st, n) \in Slots /\ c[Len(c) + 1 - n] \in Word /\ ty[Len(ty) + 1 - n] \in Types
         /\ Contains(Peek(st, n).iv, c[Len(c) + 1 - n])
         /\ ty[Len(ty) + 1 - n] = "bool" => c[Len(c) + 1 - n] \in {0, 1}
<1> DEFINE i == Len(ty) + 1 - n
<1>1. Len(st) = Len(ty) /\ Len(c) = Len(ty) /\ Len(ty) \in Nat /\ i \in 1 .. Len(ty)
  BY DEF Covers
<1>2. Peek(st, n) = st[i] /\ c[Len(c) + 1 - n] = c[i]
  BY <1>1 DEF Peek
<1>3. st[i] \in Slots
  <2> HIDE DEF i, Slots
  <2> QED BY <1>1 DEF States
<1>4. c[i] \in Word /\ ty[i] \in Types
  <2> HIDE DEF i, Types
  <2> QED BY <1>1 DEF Stacks
<1>5. CoversAt(st, ty, c, i)
  BY <1>1 DEF Covers
<1> QED BY <1>2, <1>3, <1>4, <1>5 DEF CoversAt

\* Abstract stacks stay abstract stacks, also when they are too short.
LEMMA StateTypes ==
  ASSUME NEW st \in States
  PROVE  /\ \A n \in Nat \ {0} : Peek(st, n) \in Slots
         /\ \A n \in Nat : Pop(st, n) \in States /\ Truncate(st, n) \in States
         /\ \A s \in Slots : Push(st, s) \in States
<1>1. Len(st) \in Nat /\ MaxSlots - 1 \in Nat
  BY DischargeAssumption DEF States
<1>2. \A n \in Nat : Truncate(st, n) \in States
  <2> TAKE n \in Nat
  <2>1. LeastOf(n, Len(st)) \in 0 .. Len(st)
    BY <1>1 DEF LeastOf
  <2> HIDE DEF Slots
  <2> QED BY <2>1 DEF Truncate, States
<1>3. \A n \in Nat : Pop(st, n) \in States
  BY <1>1, <1>2 DEF Pop, GreatestOf
<1>4. \A s \in Slots : Push(st, s) \in States
  <2> TAKE s \in Slots
  <2>1. Truncate(st, MaxSlots - 1) \in States
    BY <1>1, <1>2
  <2> HIDE DEF Slots
  <2> QED BY <2>1 DEF Push, States
<1>5. ASSUME NEW n \in Nat \ {0} PROVE Peek(st, n) \in Slots
  <2>1. TopSlot \in Slots
    BY IntervalTypes DEF TopSlot, Slots, OrgTop
  <2>2. CASE n <= Len(st)
    <3>1. Len(st) + 1 - n \in 1 .. Len(st)
      BY <1>1, <2>2
    <3> HIDE DEF Slots
    <3> QED BY <2>2, <3>1 DEF Peek, States
  <2>3. CASE n > Len(st)
    BY <1>1, <2>1, <2>3 DEF Peek
  <2> QED BY <1>1, <2>2, <2>3
<1> QED BY <1>2, <1>3, <1>4, <1>5
\* A constant holds itself.
LEMMA ConstHolds == \A v \in Word : Contains(Const(v), v)
  BY WordFacts DEF Const, Range, Contains

\* What the typechecker requires of each operation, and what it leaves.
TypedArm(o, t) ==
  /\ o.op = "const" => t = Append(ts, o.ty)
  /\ o.op = "get" => t = Append(ts, InTypes[o.v + 1])
  /\ o.op = "dup" => Deep(1) /\ t = Append(ts, TypeAt(1))
  /\ o.op = "drop" => Deep(1) /\ t = Rest(1)
  /\ o.op = "swap" => Deep(2) /\ t = Rest(2) \o <<TypeAt(1), TypeAt(2)>>
  /\ o.op \in {"add", "sub", "mul"} => Deep(2) /\ t = Append(Rest(2), "int")
  /\ o.op \in CmpKinds => Deep(2) /\ t = Append(Rest(2), "bool")
  /\ o.op \in {"and", "or"} =>
       Deep(2) /\ TypeAt(1) = "bool" /\ TypeAt(2) = "bool" /\ t = Rest(1)
  /\ o.op = "not" => Deep(1) /\ TypeAt(1) = "bool" /\ t = ts
  /\ o.op = "havoc" => Deep(1) /\ t = Append(Rest(1), "int")

\* A TypedArm is how the operation's case reads.
LEMMA TypedArms == ASSUME NEW o, NEW t \in Typed(o) PROVE TypedArm(o, t)
  BY DEF TypedArm, Typed, CmpKinds

\* The transfer function, operation by operation.
TransferArm(st, o, a, b) ==
  /\ o.op = "const" => Transfer(st, o) = Push(st, Computed(Const(o.v)))
  /\ o.op = "get" => Transfer(st, o) = Push(st, [iv |-> Top, org |-> o.v])
  /\ o.op = "dup" => Transfer(st, o) = Push2(Pop(st, 1), b, b)
  /\ o.op = "drop" => Transfer(st, o) = Pop(st, 1)
  /\ o.op = "swap" => Transfer(st, o) = Push2(Pop(st, 2), b, a)
  /\ o.op = "add" => Transfer(st, o) = Push(Pop(st, 2), Computed(Add(a.iv, b.iv)))
  /\ o.op = "sub" => Transfer(st, o) = Push(Pop(st, 2), Computed(Sub(a.iv, b.iv)))
  /\ o.op = "mul" => Transfer(st, o) = Push(Pop(st, 2), Computed(Mul(a.iv, b.iv)))
  /\ o.op \in CmpKinds =>
       Transfer(st, o) = Push(Pop(st, 2), Computed(BoolIv(TriCmp(a.iv, b.iv, o.op))))
  /\ o.op = "and" => Transfer(st, o) =
       Push(Pop(st, 2), Computed(BoolIv(TriAnd(TriFromBoolIv(a.iv), TriFromBoolIv(b.iv)))))
  /\ o.op = "or" => Transfer(st, o) =
       Push(Pop(st, 2), Computed(BoolIv(TriOr(TriFromBoolIv(a.iv), TriFromBoolIv(b.iv)))))
  /\ o.op = "not" => Transfer(st, o) =
       Push(Pop(st, 1), Computed(BoolIv(TriNot(TriFromBoolIv(b.iv)))))
  /\ o.op = "havoc" => Transfer(st, o) = Push(Pop(st, 1), Computed(Top))
  /\ o.op = "cast" =>
       Transfer(st, o) = Push(Pop(st, 1), Computed(CastNarrow(b.iv, SubLo, SubHi)))

\* A TransferArm is how the operation's case reads.
LEMMA TransferArms == ASSUME NEW o, NEW st, NEW a, NEW b, a = Peek(st, 2), b = Peek(st, 1) PROVE TransferArm(st, o, a, b)
  BY DEF TransferArm, Transfer, CmpKinds

\* What the machine makes of each operation.
ResultArm(o, in, c, x, y, r) ==
  /\ o.op = "const" => r = Append(c, o.v)
  /\ o.op = "get" => r = Append(c, in[o.v + 1])
  /\ o.op = "dup" => r = Append(c, y)
  /\ o.op = "drop" => r = Below(c, 1)
  /\ o.op = "swap" => r = Below(c, 2) \o <<y, x>>
  /\ o.op = "add" => r = Append(Below(c, 2), Wrap(x + y))
  /\ o.op = "sub" => r = Append(Below(c, 2), Wrap(x - y))
  /\ o.op = "mul" => r = Append(Below(c, 2), Wrap(x * y))
  /\ o.op \in CmpKinds => r = Append(Below(c, 2), Flag(Holds(o.op, x, y)))
  /\ o.op = "and" => r = Append(Below(c, 2), x * y)
  /\ o.op = "or" => r = Append(Below(c, 2), GreatestOf(x, y))
  /\ o.op = "not" => r = Append(Below(c, 1), 1 - y)
  /\ o.op = "havoc" => \E v \in Word : r = Append(Below(c, 1), v)
  /\ o.op = "as?" => r = Append(c, Flag(InRange(y)))
  /\ o.op \in {"check", "elided", "br", "ret"} => r = c
  /\ o.op \in {"brif", "trapiffalse"} => r = Below(c, 1)

\* A ResultArm is how the operation's case reads.
LEMMA ResultArms == ASSUME NEW o, NEW in, NEW c, NEW r \in Results(o, in, c),
         NEW x, NEW y, x = At(c, 2), y = At(c, 1) PROVE ResultArm(o, in, c, x, y, r)
  BY DEF ResultArm, Results, CmpKinds

\* The transfer function covers what an operation does on the machine.
LEMMA TransferSound ==
  ASSUME NEW st \in States, ts \in Seq(Types), NEW c \in Stacks, Covers(st, ts, c),
         NEW in \in Inputs, NEW o \in PlainOps, NEW t \in Typed(o), Len(t) <= MaxSlots,
         NEW r \in Results(Emitted(o), in, c)
  PROVE  /\ Transfer(st, o) \in States /\ t \in Seq(Types) /\ r \in Stacks
         /\ Covers(Transfer(st, o), t, r)
<1> DEFINE a == Peek(st, 2)
           b == Peek(st, 1)
           x == At(c, 2)
           y == At(c, 1)
<1>0. /\ Emitted(o).op = o.op /\ Emitted(o).v = o.v
      /\ \/ o.op = "const" /\ o.ty \in {"int", "bool"} /\ o.v \in Word
            /\ (o.ty = "bool" => o.v \in {0, 1})
         \/ o.op = "get" /\ o.v \in 0 .. NIn - 1
         \/ o.op \in OpNames
  BY WordFacts, DischargeAssumption DEF PlainOps, Op, Emitted, Instr
<1>1. /\ Len(st) = Len(ts) /\ Len(c) = Len(ts) /\ Len(ts) \in Nat
      /\ MaxSlots \in Nat
  BY DischargeAssumption DEF Covers
<1>2. ASSUME Deep(1)
      PROVE  /\ Covers(Pop(st, 1), Rest(1), Below(c, 1)) /\ Pop(st, 1) \in States
             /\ Rest(1) \in Seq(Types) /\ Below(c, 1) \in Stacks /\ Len(Rest(1)) = Len(ts) - 1
             /\ b \in Slots /\ y \in Word /\ TypeAt(1) \in Types /\ Contains(b.iv, y)
             /\ TypeAt(1) = "bool" => y \in {0, 1}
             /\ b.iv \in Interval
  <2>1. Below(ts, 1) = Rest(1) /\ 1 <= Len(ts) /\ At(c, 1) = c[Len(c) + 1 - 1]
        /\ ts[Len(ts) + 1 - 1] = TypeAt(1)
    BY <1>1, <1>2 DEF Below, Rest, Deep, At, TypeAt
  <2>2. /\ Covers(Pop(st, 1), Rest(1), Below(c, 1)) /\ Pop(st, 1) \in States
        /\ Rest(1) \in Seq(Types) /\ Below(c, 1) \in Stacks /\ Len(Rest(1)) = Len(ts) - 1
    BY <2>1, PopCovers
  <2>3. /\ b \in Slots /\ y \in Word /\ TypeAt(1) \in Types /\ Contains(b.iv, y)
        /\ TypeAt(1) = "bool" => y \in {0, 1}
    BY <2>1, PeekCovers
  <2> QED BY <2>2, <2>3 DEF Slots
<1>3. ASSUME Deep(2)
      PROVE  /\ Covers(Pop(st, 2), Rest(2), Below(c, 2)) /\ Pop(st, 2) \in States
             /\ Rest(2) \in Seq(Types) /\ Below(c, 2) \in Stacks /\ Len(Rest(2)) = Len(ts) - 2
             /\ a \in Slots /\ x \in Word /\ TypeAt(2) \in Types /\ Contains(a.iv, x)
             /\ TypeAt(2) = "bool" => x \in {0, 1}
             /\ a.iv \in Interval /\ Deep(1)
  <2>1. Below(ts, 2) = Rest(2) /\ 2 <= Len(ts) /\ At(c, 2) = c[Len(c) + 1 - 2]
        /\ ts[Len(ts) + 1 - 2] = TypeAt(2)
    BY <1>1, <1>3 DEF Below, Rest, Deep, At, TypeAt
  <2>2. /\ Covers(Pop(st, 2), Rest(2), Below(c, 2)) /\ Pop(st, 2) \in States
        /\ Rest(2) \in Seq(Types) /\ Below(c, 2) \in Stacks /\ Len(Rest(2)) = Len(ts) - 2
    BY <2>1, PopCovers
  <2>3. /\ a \in Slots /\ x \in Word /\ TypeAt(2) \in Types /\ Contains(a.iv, x)
        /\ TypeAt(2) = "bool" => x \in {0, 1}
    BY <2>1, PeekCovers
  <2> QED BY <1>1, <2>1, <2>2, <2>3 DEF Slots, Deep
<1> HIDE DEF a, b, x, y
<1>b. TypedArm(o, t) /\ TransferArm(st, o, a, b) /\ ResultArm(o, in, c, x, y, r)
  <2>1. ResultArm(Emitted(o), in, c, x, y, r)
    BY ResultArms DEF x, y
  <2>2. ResultArm(o, in, c, x, y, r)
    BY <1>0, <2>1 DEF ResultArm
  <2> QED BY <2>2, TypedArms, TransferArms DEF a, b
\* One result where the top was, or the two at the top were.
<1>4. ASSUME Deep(1), NEW iv \in Interval, NEW v \in Word, NEW tt \in Types, Contains(iv, v),
             tt = "bool" => v \in {0, 1},
             Transfer(st, o) = Push(Pop(st, 1), Computed(iv)), t = Append(Rest(1), tt),
             r = Append(Below(c, 1), v)
      PROVE  /\ Transfer(st, o) \in States /\ t \in Seq(Types) /\ r \in Stacks
             /\ Covers(Transfer(st, o), t, r)
  <2>1. Computed(iv) \in Slots /\ Computed(iv).iv = iv
    BY <1>4 DEF Computed, Slots, OrgComputed
  <2>2. /\ Covers(Pop(st, 1), Rest(1), Below(c, 1)) /\ Pop(st, 1) \in States
        /\ Rest(1) \in Seq(Types) /\ Below(c, 1) \in Stacks /\ Len(Rest(1)) < MaxSlots
    BY <1>1, <1>2, <1>4
  <2> QED BY <1>4, <2>1, <2>2, PushCovers
<1>5. ASSUME Deep(2), NEW iv \in Interval, NEW v \in Word, NEW tt \in Types, Contains(iv, v),
             tt = "bool" => v \in {0, 1},
             Transfer(st, o) = Push(Pop(st, 2), Computed(iv)), t = Append(Rest(2), tt),
             r = Append(Below(c, 2), v)
      PROVE  /\ Transfer(st, o) \in States /\ t \in Seq(Types) /\ r \in Stacks
             /\ Covers(Transfer(st, o), t, r)
  <2>1. Computed(iv) \in Slots /\ Computed(iv).iv = iv
    BY <1>5 DEF Computed, Slots, OrgComputed
  <2>2. /\ Covers(Pop(st, 2), Rest(2), Below(c, 2)) /\ Pop(st, 2) \in States
        /\ Rest(2) \in Seq(Types) /\ Below(c, 2) \in Stacks /\ Len(Rest(2)) < MaxSlots
    <3>1. Len(Append(Rest(2), tt)) = Len(Rest(2)) + 1
      BY <1>3, <1>5, AppendFacts
    <3> QED BY <1>1, <1>3, <1>5, <3>1
  <2> QED BY <1>5, <2>1, <2>2, PushCovers
<1>6. CASE o.op \in {"const", "get"}
  <2>1. PICK s \in Slots, v \in Word, tt \in Types :
           /\ Contains(s.iv, v) /\ (tt = "bool" => v \in {0, 1})
           /\ Transfer(st, o) = Push(st, s) /\ t = Append(ts, tt) /\ r = Append(c, v)
    <3>1. CASE o.op = "const"
      <4>1. o.v \in Word /\ o.ty \in Types /\ (o.ty = "bool" => o.v \in {0, 1})
        BY <1>0, <3>1 DEF OpNames, CmpKinds, Types
      <4>2. Computed(Const(o.v)) \in Slots /\ Contains(Computed(Const(o.v)).iv, o.v)
        <5>1. Const(o.v) \in Interval
          BY <4>1, IntervalTypes
        <5>2. Contains(Const(o.v), o.v)
          BY <4>1, ConstHolds
        <5> QED BY <5>1, <5>2 DEF Computed, Slots, OrgComputed
      <4>3. /\ Transfer(st, o) = Push(st, Computed(Const(o.v))) /\ t = Append(ts, o.ty)
            /\ r = Append(c, o.v)
        BY <1>0, <3>1, <1>b DEF TypedArm, TransferArm, ResultArm
      <4> QED BY <4>1, <4>2, <4>3
    <3>2. CASE o.op = "get"
      <4>1. o.v \in 0 .. NIn - 1 /\ NIn \in Nat
        BY <1>0, <3>2, DischargeAssumption DEF OpNames, CmpKinds, NIn
      <4>2. o.v + 1 \in 1 .. NIn /\ in[o.v + 1] \in Word
        BY <4>1 DEF Inputs
      <4>3. InTypes[o.v + 1] \in {"int", "sub"}
        BY <4>2, DischargeAssumption DEF NIn
      <4>4. [iv |-> Top, org |-> o.v] \in Slots /\ Contains(Top, in[o.v + 1])
        BY <4>1, IntervalTypes DEF Slots, Contains, Top
      <4>5. /\ Transfer(st, o) = Push(st, [iv |-> Top, org |-> o.v])
            /\ t = Append(ts, InTypes[o.v + 1]) /\ r = Append(c, in[o.v + 1])
        BY <1>0, <3>2, <1>b DEF TypedArm, TransferArm, ResultArm
      <4> QED BY <4>2, <4>3, <4>4, <4>5 DEF Types
    <3> QED BY <1>6, <3>1, <3>2
  <2>2. Len(ts) < MaxSlots
    <3>1. Len(Append(ts, tt)) = Len(ts) + 1
      BY <1>1, <2>1, AppendFacts
    <3> QED BY <1>1, <2>1, <3>1
  <2> QED BY <2>1, <2>2, PushCovers
<1>7. CASE o.op = "drop"
  <2>1. Deep(1) /\ Transfer(st, o) = Pop(st, 1) /\ t = Rest(1) /\ r = Below(c, 1)
    BY <1>0, <1>7, <1>b DEF TypedArm, TransferArm, ResultArm
  <2> QED BY <1>2, <2>1
<1>8. CASE o.op = "dup"
  <2>1. /\ Deep(1) /\ Transfer(st, o) = Push(Push(Pop(st, 1), b), b)
        /\ t = Append(ts, TypeAt(1)) /\ r = Append(c, y)
    BY <1>0, <1>8, <1>b DEF TypedArm, TransferArm, ResultArm, Push2, b, y
  <2>2. Append(Rest(1), TypeAt(1)) = ts /\ Append(Below(c, 1), y) = c /\ Len(ts) > 0
    <3>1. Len(ts) > 0 /\ Len(c) > 0 /\ Len(ts) + 1 - 1 = Len(ts) - 0 /\ Len(c) + 1 - 1 = Len(c) - 0
      BY <1>1, <2>1 DEF Deep
    <3>2. Append(Below(ts, 0 + 1), ts[Len(ts) - 0]) = Below(ts, 0)
      BY <3>1, FrontLast
    <3>3. Append(Below(c, 0 + 1), c[Len(c) - 0]) = Below(c, 0)
      BY <3>1, FrontLast DEF Stacks
    <3>4. Below(ts, 0) = ts /\ Below(c, 0) = c
      BY BelowNone DEF Stacks
    <3>5. Below(ts, 0 + 1) = Rest(1) /\ ts[Len(ts) - 0] = TypeAt(1)
      BY <3>1 DEF Below, Rest, TypeAt
    <3>6. Below(c, 0 + 1) = Below(c, 1) /\ c[Len(c) - 0] = y
      BY <3>1 DEF At, y
    <3> QED BY <3>1, <3>2, <3>3, <3>4, <3>5, <3>6
  <2>3. Len(ts) < MaxSlots
    <3>1. Len(Append(ts, TypeAt(1))) = Len(ts) + 1
      BY <1>1, <1>2, <2>1, AppendFacts
    <3> QED BY <1>1, <2>1, <3>1
  <2>4. /\ Push(Pop(st, 1), b) \in States
        /\ Covers(Push(Pop(st, 1), b), Append(Rest(1), TypeAt(1)), Append(Below(c, 1), y))
    <3>1. Len(Rest(1)) < MaxSlots
      BY <1>1, <1>2, <2>1, <2>3
    <3> QED BY <1>2, <2>1, <3>1, PushCovers
  <2> DEFINE s1 == Push(Pop(st, 1), b)
  <2>5. Push(s1, b) \in States /\ Covers(Push(s1, b), Append(ts, TypeAt(1)), Append(c, y))
        /\ Append(ts, TypeAt(1)) \in Seq(Types) /\ Append(c, y) \in Stacks
    <3>1. s1 \in States /\ Covers(s1, ts, c)
      BY <2>2, <2>4
    <3> HIDE DEF s1
    <3> QED BY <1>2, <2>1, <2>3, <3>1, PushCovers
  <2> QED BY <2>1, <2>5
<1>9. CASE o.op = "swap"
  <2>1. /\ Deep(2) /\ Transfer(st, o) = Push(Push(Pop(st, 2), b), a)
        /\ t = Rest(2) \o <<TypeAt(1), TypeAt(2)>> /\ r = Below(c, 2) \o <<y, x>>
    BY <1>0, <1>9, <1>b DEF TypedArm, TransferArm, ResultArm, Push2, a, b, x, y
  <2>2. /\ t = Append(Append(Rest(2), TypeAt(1)), TypeAt(2))
        /\ r = Append(Append(Below(c, 2), y), x)
    BY <1>2, <1>3, <2>1, AppendTwice DEF Stacks
  <2>3. Len(Rest(2)) = Len(ts) - 2 /\ Len(Append(Rest(2), TypeAt(1))) = Len(ts) - 1
        /\ Append(Rest(2), TypeAt(1)) \in Seq(Types)
    <3>1. Len(Append(Rest(2), TypeAt(1))) = Len(Rest(2)) + 1
          /\ Append(Rest(2), TypeAt(1)) \in Seq(Types)
      BY <1>2, <1>3, <2>1, AppendFacts
    <3> QED BY <1>1, <1>3, <2>1, <3>1
  <2>4. Len(ts) <= MaxSlots
    <3>1. Len(t) = Len(Append(Rest(2), TypeAt(1))) + 1
      BY <1>2, <1>3, <2>1, <2>2, <2>3, AppendFacts
    <3> QED BY <1>1, <2>3, <3>1
  <2>5. /\ Push(Pop(st, 2), b) \in States /\ Append(Below(c, 2), y) \in Stacks
        /\ Covers(Push(Pop(st, 2), b), Append(Rest(2), TypeAt(1)), Append(Below(c, 2), y))
    <3>1. Len(Rest(2)) < MaxSlots
      BY <1>1, <2>3, <2>4
    <3> QED BY <1>2, <1>3, <2>1, <3>1, PushCovers
  <2>6. Len(Append(Rest(2), TypeAt(1))) < MaxSlots
    BY <1>1, <2>3, <2>4
  <2> DEFINE s1 == Push(Pop(st, 2), b)
             t1 == Append(Rest(2), TypeAt(1))
             c1 == Append(Below(c, 2), y)
  <2>7. Push(s1, a) \in States /\ Covers(Push(s1, a), Append(t1, TypeAt(2)), Append(c1, x))
        /\ Append(t1, TypeAt(2)) \in Seq(Types) /\ Append(c1, x) \in Stacks
    <3>1. s1 \in States /\ Covers(s1, t1, c1) /\ t1 \in Seq(Types) /\ c1 \in Stacks
          /\ Len(t1) < MaxSlots
      BY <2>3, <2>5, <2>6
    <3> HIDE DEF s1, t1, c1
    <3> QED BY <1>3, <2>1, <3>1, PushCovers
  <2> QED BY <2>1, <2>2, <2>7
<1>10. CASE o.op \in {"add", "sub", "mul"}
  <2>1. Deep(2) /\ t = Append(Rest(2), "int")
    BY <1>0, <1>10, <1>b DEF TypedArm
  <2>2. x \in Int /\ y \in Int
    BY <1>2, <1>3, <2>1, WordFacts
  <2>3. CASE o.op = "add"
    <3>1. Contains(Add(a.iv, b.iv), Wrap(x + y)) /\ Wrap(x + y) \in Word
      BY <1>2, <1>3, <2>1, <2>2, AddSound, WrapInWord
    <3>2. /\ Transfer(st, o) = Push(Pop(st, 2), Computed(Add(a.iv, b.iv)))
          /\ r = Append(Below(c, 2), Wrap(x + y))
      BY <1>0, <2>3, <1>b DEF TypedArm, TransferArm, ResultArm, a, b, x, y
    <3>3. Add(a.iv, b.iv) \in Interval /\ "int" \in Types
      BY <1>2, <1>3, <2>1, IntervalTypes DEF Types
    <3> QED BY <1>5, <2>1, <3>1, <3>2, <3>3
  <2>4. CASE o.op = "sub"
    <3>1. Contains(Sub(a.iv, b.iv), Wrap(x - y)) /\ Wrap(x - y) \in Word
      BY <1>2, <1>3, <2>1, <2>2, SubSound, WrapInWord
    <3>2. /\ Transfer(st, o) = Push(Pop(st, 2), Computed(Sub(a.iv, b.iv)))
          /\ r = Append(Below(c, 2), Wrap(x - y))
      BY <1>0, <2>4, <1>b DEF TypedArm, TransferArm, ResultArm, a, b, x, y
    <3>3. Sub(a.iv, b.iv) \in Interval /\ "int" \in Types
      BY <1>2, <1>3, <2>1, IntervalTypes DEF Types
    <3> QED BY <1>5, <2>1, <3>1, <3>2, <3>3
  <2>5. CASE o.op = "mul"
    <3>0. x * y \in Int
      BY <2>2
    <3>1. Contains(Mul(a.iv, b.iv), Wrap(x * y)) /\ Wrap(x * y) \in Word
      BY <1>2, <1>3, <2>1, <3>0, MulSound, WrapInWord
    <3>2. /\ Transfer(st, o) = Push(Pop(st, 2), Computed(Mul(a.iv, b.iv)))
          /\ r = Append(Below(c, 2), Wrap(x * y))
      BY <1>0, <2>5, <1>b DEF TypedArm, TransferArm, ResultArm, a, b, x, y
    <3>3. Mul(a.iv, b.iv) \in Interval /\ "int" \in Types
      BY <1>2, <1>3, <2>1, IntervalTypes DEF Types
    <3> QED BY <1>5, <2>1, <3>1, <3>2, <3>3
  <2> QED BY <1>10, <2>3, <2>4, <2>5
<1>11. CASE o.op \in CmpKinds
  <2> DEFINE v == Flag(Holds(o.op, x, y))
             iv == BoolIv(TriCmp(a.iv, b.iv, o.op))
  <2>1. Deep(2) /\ t = Append(Rest(2), "bool")
    BY <1>0, <1>11, <1>b DEF TypedArm
  <2>2. /\ TriCmp(a.iv, b.iv, o.op) = "DefTrue" => Holds(o.op, x, y)
        /\ TriCmp(a.iv, b.iv, o.op) = "DefFalse" => ~Holds(o.op, x, y)
    BY <1>2, <1>3, <1>11, <2>1, ComparisonSound
  <2>3. v \in {0, 1} /\ v \in Word /\ iv \in Interval /\ Contains(iv, v)
    <3>1. v \in {0, 1} /\ v \in Word /\ iv \in Interval
      BY WordFacts, IntervalTypes DEF Flag
    <3>2. Contains(iv, v)
      BY <2>2 DEF BoolIv, Contains, Const, Range, Flag
    <3> QED BY <3>1, <3>2
  <2>4. Transfer(st, o) = Push(Pop(st, 2), Computed(iv)) /\ r = Append(Below(c, 2), v)
    BY <1>0, <1>11, <1>b DEF TypedArm, TransferArm, ResultArm, a, b, x, y
  <2> HIDE DEF v, iv
  <2> QED BY <1>5, <2>1, <2>3, <2>4 DEF Types
<1>12. CASE o.op \in {"and", "or"}
  <2>1. Deep(2) /\ TypeAt(1) = "bool" /\ TypeAt(2) = "bool" /\ t = Rest(1)
    BY <1>0, <1>12, <1>b DEF TypedArm
  <2>2. x \in {0, 1} /\ y \in {0, 1}
    BY <1>2, <1>3, <2>1
  <2>3. t = Append(Rest(2), "bool")
    <3>1. /\ Len(ts) > 1 /\ Len(ts) + 1 - 2 = Len(ts) - 1 /\ 1 + 1 = 2
      BY <1>1, <2>1 DEF Deep
    <3>2. Append(Below(ts, 1 + 1), ts[Len(ts) - 1]) = Below(ts, 1)
      BY <3>1, FrontLast
    <3> QED BY <2>1, <3>1, <3>2 DEF Rest, Below, TypeAt
  <2>4. CASE o.op = "and"
    <3> DEFINE iv == BoolIv(TriAnd(TriFromBoolIv(a.iv), TriFromBoolIv(b.iv)))
    <3>1. Contains(iv, x * y) /\ iv \in Interval
      BY <1>2, <1>3, <2>1, <2>2, FlagsSound, IntervalTypes
    <3>2. x * y \in {0, 1} /\ x * y \in Word
      BY <2>2, WordFacts
    <3>3. Transfer(st, o) = Push(Pop(st, 2), Computed(iv)) /\ r = Append(Below(c, 2), x * y)
      BY <1>0, <2>4, <1>b DEF TypedArm, TransferArm, ResultArm, a, b, x, y
    <3> HIDE DEF iv
    <3> QED BY <1>5, <2>1, <2>3, <3>1, <3>2, <3>3 DEF Types
  <2>5. CASE o.op = "or"
    <3> DEFINE iv == BoolIv(TriOr(TriFromBoolIv(a.iv), TriFromBoolIv(b.iv)))
    <3>1. Contains(iv, GreatestOf(x, y)) /\ iv \in Interval
      BY <1>2, <1>3, <2>1, <2>2, FlagsSound, IntervalTypes
    <3>2. GreatestOf(x, y) \in {0, 1} /\ GreatestOf(x, y) \in Word
      BY <2>2, WordFacts DEF GreatestOf
    <3>3. Transfer(st, o) = Push(Pop(st, 2), Computed(iv)) /\ r = Append(Below(c, 2), GreatestOf(x, y))
      BY <1>0, <2>5, <1>b DEF TypedArm, TransferArm, ResultArm, a, b, x, y
    <3> HIDE DEF iv
    <3> QED BY <1>5, <2>1, <2>3, <3>1, <3>2, <3>3 DEF Types
  <2> QED BY <1>12, <2>4, <2>5
<1>13. CASE o.op = "not"
  <2> DEFINE iv == BoolIv(TriNot(TriFromBoolIv(b.iv)))
  <2>1. /\ Deep(1) /\ TypeAt(1) = "bool" /\ t = ts
        /\ Transfer(st, o) = Push(Pop(st, 1), Computed(iv)) /\ r = Append(Below(c, 1), 1 - y)
    BY <1>0, <1>13, <1>b DEF TypedArm, TransferArm, ResultArm, b, y
  <2>2. y \in {0, 1} /\ 1 - y \in {0, 1} /\ 1 - y \in Word
    BY <1>2, <2>1, WordFacts
  <2>3. Contains(iv, 1 - y) /\ iv \in Interval
    BY <1>2, <2>1, <2>2, FlagsSound, IntervalTypes, SMTT(20)
  <2>4. t = Append(Rest(1), "bool")
    <3>1. Len(ts) > 0 /\ Len(ts) + 1 - 1 = Len(ts) - 0
      BY <1>1, <2>1 DEF Deep
    <3>2. Append(Below(ts, 0 + 1), ts[Len(ts) - 0]) = Below(ts, 0) /\ Below(ts, 0) = ts
      BY <3>1, FrontLast, BelowNone
    <3>3. Below(ts, 0 + 1) = Rest(1) /\ ts[Len(ts) - 0] = TypeAt(1)
      BY <3>1 DEF Below, Rest, TypeAt
    <3> QED BY <2>1, <3>1, <3>2, <3>3
  <2> HIDE DEF iv
  <2> QED BY <1>4, <2>1, <2>2, <2>3, <2>4 DEF Types
<1>14. CASE o.op = "havoc"
  <2>1. /\ Deep(1) /\ t = Append(Rest(1), "int")
        /\ Transfer(st, o) = Push(Pop(st, 1), Computed(Top))
    BY <1>0, <1>14, <1>b DEF TypedArm, TransferArm, ResultArm
  <2>2. PICK v \in Word : r = Append(Below(c, 1), v)
    BY <1>0, <1>14, <1>b DEF ResultArm
  <2>3. Contains(Top, v) /\ Top \in Interval
    BY IntervalTypes DEF Contains, Top
  <2> QED BY <1>4, <2>1, <2>2, <2>3 DEF Types
<1> QED
  BY <1>0, <1>6, <1>7, <1>8, <1>9, <1>10, <1>11, <1>12, <1>13, <1>14 DEF OpNames

\* Lengths of popped and pushed abstract stacks.
LEMMA StackLengths ==
  ASSUME NEW st \in States, Len(st) <= MaxSlots
  PROVE  /\ \A n \in Nat : n <= Len(st) => Pop(st, n) \in States /\ Len(Pop(st, n)) = Len(st) - n
         /\ Len(st) < MaxSlots =>
              \A s \in Slots : Push(st, s) \in States /\ Len(Push(st, s)) = Len(st) + 1
<1>1. Len(st) \in Nat /\ MaxSlots \in Nat /\ st \in Seq(Slots)
  BY DischargeAssumption DEF States
<1>2. ASSUME NEW n \in Nat, n <= Len(st)
      PROVE  Pop(st, n) \in States /\ Len(Pop(st, n)) = Len(st) - n
  <2>1. GreatestOf(Len(st) - n, 0) = Len(st) - n /\ LeastOf(Len(st) - n, Len(st)) = Len(st) - n
    BY <1>1, <1>2 DEF GreatestOf, LeastOf
  <2>2. Pop(st, n) = SubSeq(st, 1, Len(st) - n)
    BY <2>1 DEF Pop, Truncate
  <2>3. Below(st, n) \in Seq(Slots) /\ Len(Below(st, n)) = Len(st) - n
    BY <1>1, <1>2, BelowFacts
  <2> QED BY <2>2, <2>3 DEF Below, States
<1>3. ASSUME NEW s \in Slots, Len(st) < MaxSlots
      PROVE  Push(st, s) \in States /\ Len(Push(st, s)) = Len(st) + 1
  <2>1. LeastOf(MaxSlots - 1, Len(st)) = Len(st)
    BY <1>1, <1>3 DEF LeastOf
  <2>2. SubSeq(st, 1, Len(st)) = st
    <3>1. Below(st, 0) = st /\ Len(st) - 0 = Len(st)
      BY <1>1, BelowNone
    <3> QED BY <3>1 DEF Below
  <2>3. Push(st, s) = Append(st, s)
    BY <2>1, <2>2 DEF Push, Truncate
  <2>4. Append(st, s) \in Seq(Slots) /\ Len(Append(st, s)) = Len(st) + 1
    BY <1>1, AppendFacts
  <2> QED BY <2>3, <2>4 DEF States
<1> QED BY <1>2, <1>3

\* A computed slot is a slot, and holds what its interval holds.
LEMMA ComputedSlot == \A iv \in Interval : Computed(iv) \in Slots /\ Computed(iv).iv = iv
  BY DEF Computed, Slots, OrgComputed

\* Pops and pushes of the types.
LEMMA RestFacts ==
  ASSUME ts \in Seq(Types), NEW n \in Nat, Deep(n)
  PROVE  /\ Rest(n) \in Seq(Types) /\ Len(Rest(n)) = Len(ts) - n /\ n <= Len(ts)
         /\ \A t \in Types : Append(Rest(n), t) \in Seq(Types)
                             /\ Len(Append(Rest(n), t)) = Len(ts) - n + 1
         /\ \A i \in 1 .. n : TypeAt(i) \in Types
<1>1. n <= Len(ts) /\ Len(ts) \in Nat
  BY DEF Deep
<1>2. Rest(n) = Below(ts, n)
  BY DEF Rest, Below
<1>3. Rest(n) \in Seq(Types) /\ Len(Rest(n)) = Len(ts) - n
  BY <1>1, <1>2, BelowFacts
<1>4. \A t \in Types : Append(Rest(n), t) \in Seq(Types)
                       /\ Len(Append(Rest(n), t)) = Len(Rest(n)) + 1
  BY <1>3, AppendFacts
<1>5. \A i \in 1 .. n : TypeAt(i) \in Types
  BY <1>1 DEF TypeAt
<1> QED BY <1>1, <1>3, <1>4, <1>5

\* The abstract stack and the stack of types stay of one length.
LEMMA TransferTypes ==
  ASSUME NEW st \in States, ts \in Seq(Types), Len(st) = Len(ts), Len(ts) <= MaxSlots,
         NEW o \in PlainOps, NEW t \in Typed(o), Len(t) <= MaxSlots
  PROVE  Transfer(st, o) \in States /\ t \in Seq(Types) /\ Len(Transfer(st, o)) = Len(t)
<1> DEFINE a == Peek(st, 2)
           b == Peek(st, 1)
<1>0. \/ o.op = "const" /\ o.ty \in {"int", "bool"} /\ o.v \in Word
      \/ o.op = "get" /\ o.v \in 0 .. NIn - 1
      \/ o.op \in OpNames
  BY WordFacts, DischargeAssumption DEF PlainOps, Op
<1>1. Len(ts) \in Nat /\ MaxSlots \in Nat
  BY DischargeAssumption
<1>2. a \in Slots /\ b \in Slots /\ a.iv \in Interval /\ b.iv \in Interval
  <2>1. Peek(st, 2) \in Slots /\ Peek(st, 1) \in Slots
    BY StateTypes
  <2> QED BY <2>1 DEF Slots
<1> HIDE DEF a, b
<1>b. TypedArm(o, t) /\ TransferArm(st, o, a, b)
  BY TypedArms, TransferArms DEF a, b
<1>3. ASSUME NEW n \in {1, 2}, Deep(n), NEW iv \in Interval, NEW tt \in Types,
             Transfer(st, o) = Push(Pop(st, n), Computed(iv)), t = Append(Rest(n), tt)
      PROVE  Transfer(st, o) \in States /\ t \in Seq(Types) /\ Len(Transfer(st, o)) = Len(t)
  <2>1. t \in Seq(Types) /\ Len(t) = Len(ts) - n + 1 /\ n <= Len(ts)
    BY <1>3, RestFacts
  <2>2. Pop(st, n) \in States /\ Len(Pop(st, n)) = Len(st) - n
    BY <1>3, <2>1, StackLengths
  <2>3. Len(Pop(st, n)) < MaxSlots /\ Len(Pop(st, n)) <= MaxSlots
    BY <1>1, <2>1, <2>2
  <2>4. /\ Push(Pop(st, n), Computed(iv)) \in States
        /\ Len(Push(Pop(st, n), Computed(iv))) = Len(Pop(st, n)) + 1
    BY <1>3, <2>2, <2>3, ComputedSlot, StackLengths
  <2> QED BY <1>1, <1>3, <2>1, <2>2, <2>4
<1>4. ASSUME NEW s \in Slots, NEW tt \in Types,
             Transfer(st, o) = Push(st, s), t = Append(ts, tt)
      PROVE  Transfer(st, o) \in States /\ t \in Seq(Types) /\ Len(Transfer(st, o)) = Len(t)
  <2>1. t \in Seq(Types) /\ Len(t) = Len(ts) + 1
    BY <1>4, AppendFacts
  <2>2. Len(st) < MaxSlots
    BY <1>1, <2>1
  <2> QED BY <1>4, <2>1, <2>2, StackLengths
<1>5. CASE o.op \in {"const", "get"}
  <2>1. CASE o.op = "const"
    <3>1. o.v \in Word /\ o.ty \in Types
      BY <1>0, <2>1 DEF OpNames, CmpKinds, Types
    <3>2. Computed(Const(o.v)) \in Slots
      BY <3>1, IntervalTypes, ComputedSlot
    <3> QED BY <1>4, <2>1, <3>1, <3>2, <1>b DEF TypedArm, TransferArm
  <2>2. CASE o.op = "get"
    <3>1. o.v \in 0 .. NIn - 1 /\ NIn \in Nat
      BY <1>0, <2>2, DischargeAssumption DEF OpNames, CmpKinds, NIn
    <3>2. InTypes[o.v + 1] \in Types /\ [iv |-> Top, org |-> o.v] \in Slots
      BY <3>1, IntervalTypes, DischargeAssumption DEF NIn, Types, Slots
    <3> QED BY <1>4, <2>2, <3>2, <1>b DEF TypedArm, TransferArm
  <2> QED BY <1>5, <2>1, <2>2
<1>6. CASE o.op = "drop"
  <2>1. Deep(1) /\ Transfer(st, o) = Pop(st, 1) /\ t = Rest(1)
    BY <1>6, <1>b DEF TypedArm, TransferArm
  <2> QED BY <1>1, <2>1, RestFacts, StackLengths
<1>7. CASE o.op = "dup"
  <2>1. Deep(1) /\ Transfer(st, o) = Push(Push(Pop(st, 1), b), b) /\ t = Append(ts, TypeAt(1))
    BY <1>7, <1>b DEF TypedArm, TransferArm, Push2
  <2>2. TypeAt(1) \in Types /\ 1 <= Len(ts)
    BY <2>1, RestFacts
  <2>3. t \in Seq(Types) /\ Len(t) = Len(ts) + 1
    BY <2>1, <2>2, AppendFacts
  <2>4. Pop(st, 1) \in States /\ Len(Pop(st, 1)) = Len(st) - 1
    BY <2>2, StackLengths
  <2> DEFINE s0 == Pop(st, 1)
             s1 == Push(s0, b)
  <2>5. s1 \in States /\ Len(s1) = Len(ts)
    <3>1. s0 \in States /\ Len(s0) = Len(ts) - 1
      BY <2>4
    <3> HIDE DEF s0
    <3>2. Len(s0) < MaxSlots /\ Len(s0) <= MaxSlots /\ Len(s0) + 1 = Len(ts)
      BY <1>1, <2>2, <3>1
    <3>3. Push(s0, b) \in States /\ Len(Push(s0, b)) = Len(s0) + 1
      BY <1>2, <3>1, <3>2, StackLengths
    <3> QED BY <3>2, <3>3
  <2> HIDE DEF s1
  <2>6. Push(s1, b) \in States /\ Len(Push(s1, b)) = Len(ts) + 1
    <3>1. Len(s1) < MaxSlots /\ Len(s1) <= MaxSlots
      BY <1>1, <2>3, <2>5
    <3>2. Push(s1, b) \in States /\ Len(Push(s1, b)) = Len(s1) + 1
      BY <1>2, <2>5, <3>1, StackLengths
    <3> QED BY <2>5, <3>2
  <2> QED BY <2>1, <2>3, <2>6 DEF s1
<1>8. CASE o.op = "swap"
  <2>1. Deep(2) /\ Transfer(st, o) = Push(Push(Pop(st, 2), b), a)
        /\ t = Rest(2) \o <<TypeAt(1), TypeAt(2)>>
    BY <1>8, <1>b DEF TypedArm, TransferArm, Push2
  <2>2. TypeAt(1) \in Types /\ TypeAt(2) \in Types /\ 2 <= Len(ts)
        /\ Rest(2) \in Seq(Types) /\ Len(Rest(2)) = Len(ts) - 2
    BY <2>1, RestFacts
  <2>3. t \in Seq(Types) /\ Len(t) = Len(ts)
    <3>1. t = Append(Append(Rest(2), TypeAt(1)), TypeAt(2))
      BY <2>1, <2>2, AppendTwice
    <3>2. Append(Rest(2), TypeAt(1)) \in Seq(Types)
          /\ Len(Append(Rest(2), TypeAt(1))) = Len(Rest(2)) + 1
      BY <2>2, AppendFacts
    <3>3. t \in Seq(Types) /\ Len(t) = Len(Append(Rest(2), TypeAt(1))) + 1
      BY <2>2, <3>1, <3>2, AppendFacts
    <3> QED BY <1>1, <2>2, <3>2, <3>3
  <2> DEFINE s0 == Pop(st, 2)
             s1 == Push(s0, b)
  <2>4. s0 \in States /\ Len(s0) = Len(st) - 2
    BY <2>2, StackLengths
  <2>5. s1 \in States /\ Len(s1) = Len(ts) - 1
    <3> HIDE DEF s0
    <3>2. Len(s0) < MaxSlots /\ Len(s0) <= MaxSlots /\ Len(s0) + 1 = Len(ts) - 1
      BY <1>1, <2>2, <2>4
    <3>3. Push(s0, b) \in States /\ Len(Push(s0, b)) = Len(s0) + 1
      BY <1>2, <2>4, <3>2, StackLengths
    <3> QED BY <3>2, <3>3
  <2> HIDE DEF s1
  <2>6. Push(s1, a) \in States /\ Len(Push(s1, a)) = Len(ts)
    <3>1. Len(s1) < MaxSlots /\ Len(s1) <= MaxSlots /\ Len(s1) + 1 = Len(ts)
      BY <1>1, <2>2, <2>5
    <3>2. Push(s1, a) \in States /\ Len(Push(s1, a)) = Len(s1) + 1
      BY <1>2, <2>5, <3>1, StackLengths
    <3> QED BY <3>1, <3>2
  <2> QED BY <2>1, <2>3, <2>6 DEF s1
<1>9. CASE o.op \in {"add", "sub", "mul"}
  <2>1. Deep(2) /\ t = Append(Rest(2), "int")
    BY <1>9, <1>b DEF TypedArm
  <2>2. PICK iv \in Interval : Transfer(st, o) = Push(Pop(st, 2), Computed(iv))
    <3>1. /\ Add(a.iv, b.iv) \in Interval /\ Sub(a.iv, b.iv) \in Interval
          /\ Mul(a.iv, b.iv) \in Interval
      BY <1>2, IntervalTypes
    <3> QED BY <1>9, <3>1, <1>b DEF TransferArm
  <2> QED BY <1>3, <2>1, <2>2 DEF Types
<1>10. CASE o.op \in CmpKinds
  <2>1. Deep(2) /\ t = Append(Rest(2), "bool")
    BY <1>10, <1>b DEF TypedArm
  <2>2. Transfer(st, o) = Push(Pop(st, 2), Computed(BoolIv(TriCmp(a.iv, b.iv, o.op))))
    BY <1>10, <1>b DEF TransferArm
  <2>3. BoolIv(TriCmp(a.iv, b.iv, o.op)) \in Interval
    BY IntervalTypes
  <2> QED BY <1>3, <2>1, <2>2, <2>3 DEF Types
<1>11. CASE o.op \in {"and", "or"}
  <2>1. Deep(2) /\ TypeAt(1) = "bool" /\ TypeAt(2) = "bool" /\ t = Rest(1)
    BY <1>11, <1>b DEF TypedArm
  <2>2. PICK iv \in Interval : Transfer(st, o) = Push(Pop(st, 2), Computed(iv))
    <3>1. /\ BoolIv(TriAnd(TriFromBoolIv(a.iv), TriFromBoolIv(b.iv))) \in Interval
          /\ BoolIv(TriOr(TriFromBoolIv(a.iv), TriFromBoolIv(b.iv))) \in Interval
      BY IntervalTypes
    <3> QED BY <1>11, <3>1, <1>b DEF TransferArm
  <2>3. t = Append(Rest(2), "bool")
    <3>1. /\ Len(ts) > 1 /\ Len(ts) + 1 - 2 = Len(ts) - 1 /\ 1 + 1 = 2
      BY <1>1, <2>1 DEF Deep
    <3>2. Append(Below(ts, 1 + 1), ts[Len(ts) - 1]) = Below(ts, 1)
      BY <3>1, FrontLast
    <3> QED BY <2>1, <3>1, <3>2 DEF Rest, Below, TypeAt
  <2> QED BY <1>3, <2>1, <2>2, <2>3 DEF Types
<1>12. CASE o.op = "not"
  <2>1. /\ Deep(1) /\ t = ts
        /\ Transfer(st, o) = Push(Pop(st, 1), Computed(BoolIv(TriNot(TriFromBoolIv(b.iv)))))
    BY <1>12, <1>b DEF TypedArm, TransferArm
  <2> DEFINE s0 == Pop(st, 1)
             s1 == Computed(BoolIv(TriNot(TriFromBoolIv(b.iv))))
  <2>2. s1 \in Slots
    BY IntervalTypes, ComputedSlot
  <2>3. 1 <= Len(ts) /\ s0 \in States /\ Len(s0) = Len(ts) - 1
    BY <2>1, RestFacts, StackLengths
  <2> HIDE DEF s0, s1
  <2>4. Push(s0, s1) \in States /\ Len(Push(s0, s1)) = Len(ts)
    <3>1. Len(s0) < MaxSlots /\ Len(s0) <= MaxSlots /\ Len(s0) + 1 = Len(ts)
      BY <1>1, <2>3
    <3>2. Push(s0, s1) \in States /\ Len(Push(s0, s1)) = Len(s0) + 1
      BY <2>2, <2>3, <3>1, StackLengths
    <3> QED BY <3>1, <3>2
  <2> QED BY <2>1, <2>4 DEF s0, s1
<1>13. CASE o.op = "havoc"
  <2>1. /\ Deep(1) /\ t = Append(Rest(1), "int")
        /\ Transfer(st, o) = Push(Pop(st, 1), Computed(Top))
    BY <1>13, <1>b DEF TypedArm, TransferArm
  <2> QED BY <1>3, <2>1, IntervalTypes DEF Types
<1> QED
  BY <1>0, <1>5, <1>6, <1>7, <1>8, <1>9, <1>10, <1>11, <1>12, <1>13 DEF OpNames

-----------------------------------------------------------------------------
\* What is known of the machine's stack at a position of the code.
Notes == [st : States, ty : Seq(Types)]
Note(st, ty) == [st |-> st, ty |-> ty]
Held(n, c) == Covers(n.st, n.ty, c)
Goes(ann, j, r) == j \in 1 .. Len(ann) /\ r \in Stacks /\ Held(ann[j], r)

\* The verdict left at a site is right for a stack.
Judged(o, c) ==
  /\ o.op = "elided" => InRange(At(c, 1))
  /\ o.op = "check" /\ o.v = 1 => ~InRange(At(c, 1))

\* Whatever a position describes is judged rightly there and described again
\* where the machine goes.
StepOK(ann, o, i) ==
  \A in \in Inputs, c \in Stacks :
    Held(ann[i], c) =>
      /\ Judged(o, c)
      /\ ~Traps(o, c) /\ o.op # "ret" =>
           \A r \in Results(o, in, c) : Goes(ann, Target(o, i, c), r)

\* The open constructs: a branch whose target is not known yet.
Instrs == [op : Ops, v : Int]
FrameKinds == {"then", "else", "header", "cond", "while"}
Frames == [kind : FrameKinds, at : Nat, head : Nat, seed : States, end : States,
           base : Seq(Types), types : Seq(Types), entry : States]
Branching == {"then", "else", "while"}
Loops == {"header", "cond", "while"}

\* Falling through a conditional branch is settled; where it jumps, the
\* construct's seed describes the stack.
Leaves(ann, f) ==
  \A c \in Stacks :
    Held(ann[f.at], c) => Goes(ann, f.at + 1, Below(c, 1)) /\ Covers(f.seed, f.base, Below(c, 1))
Joins(ann, f) == \A c \in Stacks : Held(ann[f.at], c) => Covers(f.end, f.types, c)

FrameInv(ann, cd, f) ==
  /\ f.head <= Len(ann)
  /\ f.kind \in Branching => f.at \in 1 .. Len(cd)
  /\ f.kind \in {"then", "while"} =>
       cd[f.at].op = "brif" /\ Leaves(ann, f) /\ Len(f.seed) = Len(f.base)
  /\ f.kind = "else" => cd[f.at].op = "br" /\ Joins(ann, f) /\ Len(f.end) = Len(f.types)
  /\ f.kind \in Loops => f.head \in 1 .. Len(ann) /\ ann[f.head] = Note(f.entry, f.base)

Waits(fr, i) == \E k \in 1 .. Len(fr) : fr[k].kind \in Branching /\ fr[k].at = i

\* The code so far, with its notes: the last note is the state at its end.
Building(ann, st, ty, cd, fr) ==
  /\ st \in States /\ ty \in Seq(Types) /\ cd \in Seq(Instrs) /\ fr \in Seq(Frames)
  /\ ann \in Seq(Notes) /\ Len(ann) = Len(cd) + 1
  /\ ann[1] = Note(ArgSlots, InTypes) /\ ann[Len(ann)] = Note(st, ty) /\ Len(st) = Len(ty)
  /\ \A i \in 1 .. Len(cd) : cd[i].op # "ret" /\ (~Waits(fr, i) => StepOK(ann, cd[i], i))
  /\ \A k \in 1 .. Len(fr) :
       FrameInv(ann, cd, fr[k]) /\ (k < Len(fr) => fr[k].head <= Len(cd))

\* Notes that are added, or weakened at the end.
Weaker(ann, bnn) ==
  /\ Len(ann) <= Len(bnn)
  /\ \A i \in 1 .. Len(ann) - 1 : bnn[i] = ann[i]
  /\ \A c \in Stacks : Held(ann[Len(ann)], c) => Held(bnn[Len(ann)], c)

\* Where the machine goes is described by weaker notes too.
LEMMA GoesKept ==
  ASSUME NEW ann \in Seq(Notes), NEW bnn \in Seq(Notes), Weaker(ann, bnn),
         NEW j, NEW r, Goes(ann, j, r)
  PROVE  Goes(bnn, j, r)
<1>1. j \in 1 .. Len(ann) /\ r \in Stacks /\ Held(ann[j], r) /\ Len(ann) \in Nat /\ Len(bnn) \in Nat
  BY DEF Goes
<1>2. j \in 1 .. Len(bnn)
  BY <1>1 DEF Weaker
<1>3. CASE j = Len(ann)
  BY <1>1, <1>2, <1>3 DEF Weaker, Goes
<1>4. CASE j # Len(ann)
  <2>1. j \in 1 .. Len(ann) - 1
    BY <1>1, <1>4
  <2> QED BY <1>1, <1>2, <2>1 DEF Weaker, Goes
<1> QED BY <1>3, <1>4

\* A position before the last keeps what was shown of it.
LEMMA StepsKept ==
  ASSUME NEW ann \in Seq(Notes), NEW bnn \in Seq(Notes), Weaker(ann, bnn),
         NEW i \in 1 .. Len(ann) - 1, NEW o, StepOK(ann, o, i)
  PROVE  StepOK(bnn, o, i)
<1> SUFFICES ASSUME NEW in \in Inputs, NEW c \in Stacks, Held(bnn[i], c)
             PROVE  /\ Judged(o, c)
                    /\ ~Traps(o, c) /\ o.op # "ret" =>
                         \A r \in Results(o, in, c) : Goes(bnn, Target(o, i, c), r)
  BY DEF StepOK
<1>1. Held(ann[i], c)
  BY DEF Weaker
<1>2. /\ Judged(o, c)
      /\ ~Traps(o, c) /\ o.op # "ret" =>
           \A r \in Results(o, in, c) : Goes(ann, Target(o, i, c), r)
  BY <1>1 DEF StepOK
<1> QED BY <1>2, GoesKept

\* So does an open construct, if its loop head is not the position weakened.
LEMMA FramesKept ==
  ASSUME NEW ann \in Seq(Notes), NEW bnn \in Seq(Notes), Weaker(ann, bnn),
         NEW cd, NEW cd2, Len(cd) \in Nat, Len(cd2) \in Nat,
         Len(ann) = Len(cd) + 1, Len(cd) <= Len(cd2),
         \A i \in 1 .. Len(cd) : cd2[i].op = cd[i].op,
         NEW f \in Frames, FrameInv(ann, cd, f),
         f.head <= Len(cd) \/ bnn[Len(ann)] = ann[Len(ann)]
  PROVE  FrameInv(bnn, cd2, f)
<1>1. Len(ann) \in Nat /\ Len(bnn) \in Nat /\ f.head \in Nat /\ f.at \in Nat
  BY DEF Frames
<1>2. ASSUME f.kind \in Branching
      PROVE  f.at \in 1 .. Len(cd) /\ f.at \in 1 .. Len(cd2) /\ bnn[f.at] = ann[f.at]
             /\ cd2[f.at].op = cd[f.at].op
  <2>1. f.at \in 1 .. Len(cd)
    BY <1>2 DEF FrameInv
  <2>2. f.at \in 1 .. Len(ann) - 1 /\ f.at \in 1 .. Len(cd2)
    BY <1>1, <2>1
  <2> QED BY <2>1, <2>2 DEF Weaker
<1>3. ASSUME f.kind \in {"then", "while"}
      PROVE  cd2[f.at].op = "brif" /\ Leaves(bnn, f) /\ Len(f.seed) = Len(f.base)
  <2>1. cd[f.at].op = "brif" /\ Leaves(ann, f) /\ Len(f.seed) = Len(f.base)
    BY <1>3 DEF FrameInv
  <2>2. f.kind \in Branching
    BY <1>3 DEF Branching
  <2>3. Leaves(bnn, f)
    <3> SUFFICES ASSUME NEW c \in Stacks, Held(bnn[f.at], c)
                 PROVE  Goes(bnn, f.at + 1, Below(c, 1)) /\ Covers(f.seed, f.base, Below(c, 1))
      BY DEF Leaves
    <3>1. Held(ann[f.at], c)
      BY <1>2, <2>2
    <3>2. Goes(ann, f.at + 1, Below(c, 1)) /\ Covers(f.seed, f.base, Below(c, 1))
      BY <2>1, <3>1 DEF Leaves
    <3> QED BY <3>2, GoesKept
  <2> QED BY <1>2, <2>1, <2>2, <2>3
<1>4. ASSUME f.kind = "else"
      PROVE  cd2[f.at].op = "br" /\ Joins(bnn, f) /\ Len(f.end) = Len(f.types)
  <2>1. cd[f.at].op = "br" /\ Joins(ann, f) /\ Len(f.end) = Len(f.types)
    BY <1>4 DEF FrameInv
  <2>2. f.kind \in Branching
    BY <1>4 DEF Branching
  <2> QED BY <1>2, <2>1, <2>2 DEF Joins
<1>5. ASSUME f.kind \in Loops
      PROVE  f.head \in 1 .. Len(bnn) /\ bnn[f.head] = Note(f.entry, f.base)
  <2>1. f.head \in 1 .. Len(ann) /\ ann[f.head] = Note(f.entry, f.base)
    BY <1>5 DEF FrameInv
  <2>2. f.head \in 1 .. Len(bnn)
    BY <1>1, <2>1 DEF Weaker
  <2>3. bnn[f.head] = ann[f.head]
    <3>1. CASE f.head = Len(ann)
      BY <1>1, <3>1
    <3>2. CASE f.head # Len(ann)
      <4>1. f.head \in 1 .. Len(ann) - 1
        BY <1>1, <2>1, <3>2
      <4> QED BY <4>1 DEF Weaker
    <3> QED BY <3>1, <3>2
  <2> QED BY <2>1, <2>2, <2>3
<1>6. f.head <= Len(bnn)
  BY <1>1 DEF FrameInv, Weaker
<1> QED BY <1>2, <1>3, <1>4, <1>5, <1>6 DEF FrameInv

\* What must be shown of new code and new constructs.
StepsOn(bnn, cd, fr, cd2, fr2) ==
  \A i \in 1 .. Len(cd2) : ~Waits(fr2, i) =>
    \/ StepOK(bnn, cd2[i], i)
    \/ i <= Len(cd) /\ cd2[i] = cd[i] /\ ~Waits(fr, i)
FramesOn(ann, bnn, cd, fr, cd2, fr2) ==
  \A k \in 1 .. Len(fr2) :
    /\ \/ FrameInv(bnn, cd2, fr2[k])
       \/ /\ k <= Len(fr) /\ fr2[k] = fr[k]
          /\ fr[k].head <= Len(cd) \/ bnn[Len(ann)] = ann[Len(ann)]
    /\ k < Len(fr2) => fr2[k].head <= Len(cd2)

\* One step of the compiler: what is new must be shown, what is old stays.
LEMMA BuildOn ==
  ASSUME NEW ann, NEW st, NEW ty, NEW cd, NEW fr, Building(ann, st, ty, cd, fr),
         NEW bnn \in Seq(Notes), NEW st2 \in States, NEW ty2 \in Seq(Types),
         NEW cd2 \in Seq(Instrs), NEW fr2 \in Seq(Frames),
         Weaker(ann, bnn), Len(bnn) = Len(cd2) + 1,
         bnn[1] = ann[1], bnn[Len(bnn)] = Note(st2, ty2), Len(st2) = Len(ty2),
         Len(cd) <= Len(cd2), \A i \in 1 .. Len(cd) : cd2[i].op = cd[i].op,
         \A i \in 1 .. Len(cd2) : i > Len(cd) => cd2[i].op # "ret",
         StepsOn(bnn, cd, fr, cd2, fr2), FramesOn(ann, bnn, cd, fr, cd2, fr2)
  PROVE  Building(bnn, st2, ty2, cd2, fr2)
<1>1. /\ cd \in Seq(Instrs) /\ fr \in Seq(Frames) /\ ann \in Seq(Notes) /\ Len(ann) = Len(cd) + 1
      /\ ann[1] = Note(ArgSlots, InTypes) /\ Len(cd) \in Nat /\ Len(cd2) \in Nat
      /\ Len(fr) \in Nat /\ Len(fr2) \in Nat
  BY DEF Building
<1>2. \A i \in 1 .. Len(cd) : cd[i].op # "ret" /\ (~Waits(fr, i) => StepOK(ann, cd[i], i))
  BY DEF Building
<1>3. \A k \in 1 .. Len(fr) : FrameInv(ann, cd, fr[k])
  BY DEF Building
<1>4. ASSUME NEW i \in 1 .. Len(cd2)
      PROVE  cd2[i].op # "ret" /\ (~Waits(fr2, i) => StepOK(bnn, cd2[i], i))
  <2>1. cd2[i].op # "ret"
    <3>1. CASE i > Len(cd)
      BY <3>1
    <3>2. CASE ~(i > Len(cd))
      <4>1. i \in 1 .. Len(cd)
        BY <1>1, <3>2
      <4> QED BY <1>2, <4>1
    <3> QED BY <3>1, <3>2
  <2>2. ASSUME i <= Len(cd), cd2[i] = cd[i], ~Waits(fr, i)
        PROVE  StepOK(bnn, cd2[i], i)
    <3>1. i \in 1 .. Len(cd) /\ i \in 1 .. Len(ann) - 1
      BY <1>1, <2>2
    <3>2. StepOK(ann, cd2[i], i)
      BY <1>2, <2>2, <3>1
    <3> QED BY <1>1, <3>1, <3>2, StepsKept
  <2> QED BY <2>1, <2>2 DEF StepsOn
<1>5. ASSUME NEW k \in 1 .. Len(fr2)
      PROVE  FrameInv(bnn, cd2, fr2[k]) /\ (k < Len(fr2) => fr2[k].head <= Len(cd2))
  <2>1. ASSUME k <= Len(fr), fr2[k] = fr[k],
               fr[k].head <= Len(cd) \/ bnn[Len(ann)] = ann[Len(ann)]
        PROVE  FrameInv(bnn, cd2, fr2[k])
    <3>1. k \in 1 .. Len(fr)
      BY <1>1, <2>1
    <3>2. FrameInv(ann, cd, fr[k]) /\ fr[k] \in Frames
      BY <1>1, <1>3, <3>1
    <3> QED BY <1>1, <2>1, <3>2, FramesKept
  <2> QED BY <2>1 DEF FramesOn
<1> QED BY <1>1, <1>4, <1>5 DEF Building

\* The same, with what must be shown under one name.
Builds(ann, st, ty, cd, fr, bnn, st2, ty2, cd2, fr2) ==
  /\ Building(ann, st, ty, cd, fr) /\ bnn \in Seq(Notes) /\ st2 \in States
  /\ ty2 \in Seq(Types) /\ cd2 \in Seq(Instrs) /\ fr2 \in Seq(Frames)
  /\ Weaker(ann, bnn) /\ Len(bnn) = Len(cd2) + 1
  /\ bnn[1] = ann[1] /\ bnn[Len(bnn)] = Note(st2, ty2) /\ Len(st2) = Len(ty2)
  /\ Len(cd) <= Len(cd2) /\ \A i \in 1 .. Len(cd) : cd2[i].op = cd[i].op
  /\ \A i \in 1 .. Len(cd2) : i > Len(cd) => cd2[i].op # "ret"
  /\ StepsOn(bnn, cd, fr, cd2, fr2) /\ FramesOn(ann, bnn, cd, fr, cd2, fr2)

\* What Builds names is what BuildOn asks for.
LEMMA BuiltOn ==
  ASSUME NEW ann, NEW st, NEW ty, NEW cd, NEW fr, NEW bnn, NEW st2, NEW ty2, NEW cd2, NEW fr2,
         Builds(ann, st, ty, cd, fr, bnn, st2, ty2, cd2, fr2)
  PROVE  Building(bnn, st2, ty2, cd2, fr2)
  BY BuildOn DEF Builds
\* Notes added at the end weaken nothing.
LEMMA NotesAdded ==
  ASSUME NEW ann \in Seq(Notes), Len(ann) > 0, NEW n \in Notes
  PROVE  /\ Append(ann, n) \in Seq(Notes) /\ Weaker(ann, Append(ann, n))
         /\ Len(Append(ann, n)) = Len(ann) + 1 /\ Append(ann, n)[Len(ann) + 1] = n
         /\ \A i \in 1 .. Len(ann) : Append(ann, n)[i] = ann[i]
<1> DEFINE bnn == Append(ann, n)
<1>1. /\ bnn \in Seq(Notes) /\ Len(bnn) = Len(ann) + 1 /\ bnn[Len(ann) + 1] = n
      /\ \A i \in 1 .. Len(ann) : bnn[i] = ann[i]
  BY AppendFacts
<1> HIDE DEF bnn
<1>2. Len(ann) \in 1 .. Len(ann) /\ \A i \in 1 .. Len(ann) - 1 : i \in 1 .. Len(ann)
  OBVIOUS
<1>3. Weaker(ann, bnn)
  BY <1>1, <1>2 DEF Weaker
<1> QED BY <1>1, <1>3 DEF bnn

\* A note is a note.
LEMMA NoteFacts ==
  ASSUME NEW st \in States, NEW ty \in Seq(Types)
  PROVE  /\ Note(st, ty) \in Notes
         /\ \A c : Held(Note(st, ty), c) <=> Covers(st, ty, c)
  BY DEF Note, Notes, Held

\* An instruction that goes on to the next position.
Straight(o, i) == o.op \notin {"br", "brif", "ret"} \/ (o.op = "br" /\ o.v = i + 1)
Steps(st, ty, o, st2, ty2) ==
  \A in \in Inputs, c \in Stacks :
    Covers(st, ty, c) =>
      /\ Judged(o, c)
      /\ ~Traps(o, c) => \A r \in Results(o, in, c) : r \in Stacks /\ Covers(st2, ty2, r)

\* An instruction is emitted and the abstract state follows it.
LEMMA Extend ==
  ASSUME NEW ann, NEW st, NEW ty, NEW cd, NEW fr, Building(ann, st, ty, cd, fr),
         NEW o \in Instrs, Straight(o, Len(cd) + 1), o.op # "ret",
         NEW st2 \in States, NEW ty2 \in Seq(Types), Len(st2) = Len(ty2),
         Steps(st, ty, o, st2, ty2)
  PROVE  Building(Append(ann, Note(st2, ty2)), st2, ty2, Append(cd, o), fr)
<1> DEFINE n == Note(st2, ty2)
           bnn == Append(ann, n)
           cd2 == Append(cd, o)
<1>1. /\ cd \in Seq(Instrs) /\ fr \in Seq(Frames) /\ ann \in Seq(Notes) /\ Len(ann) = Len(cd) + 1
      /\ Len(cd) \in Nat /\ Len(fr) \in Nat /\ ann[Len(ann)] = Note(st, ty)
      /\ st \in States /\ ty \in Seq(Types)
      /\ \A k \in 1 .. Len(fr) : k < Len(fr) => fr[k].head <= Len(cd)
  BY DEF Building
<1>2. n \in Notes /\ Len(ann) > 0
  BY <1>1, NoteFacts
<1>3. /\ bnn \in Seq(Notes) /\ Weaker(ann, bnn) /\ Len(bnn) = Len(ann) + 1 /\ bnn[Len(bnn)] = n
      /\ \A i \in 1 .. Len(ann) : bnn[i] = ann[i]
  BY <1>1, <1>2, NotesAdded
<1>4. /\ cd2 \in Seq(Instrs) /\ Len(cd2) = Len(cd) + 1 /\ cd2[Len(cd) + 1] = o
      /\ \A i \in 1 .. Len(cd) : cd2[i] = cd[i]
  BY <1>1, AppendFacts
<1> HIDE DEF n, bnn, cd2
<1>5. StepOK(bnn, o, Len(cd) + 1)
  <2> SUFFICES ASSUME NEW in \in Inputs, NEW c \in Stacks, Held(bnn[Len(cd) + 1], c)
               PROVE  /\ Judged(o, c)
                      /\ ~Traps(o, c) /\ o.op # "ret" =>
                           \A r \in Results(o, in, c) : Goes(bnn, Target(o, Len(cd) + 1, c), r)
    BY DEF StepOK
  <2>1. bnn[Len(cd) + 1] = Note(st, ty)
    BY <1>1, <1>3
  <2>2. Covers(st, ty, c)
    BY <1>1, <2>1, NoteFacts
  <2>3. Judged(o, c) /\ (~Traps(o, c) => \A r \in Results(o, in, c) : r \in Stacks /\ Covers(st2, ty2, r))
    BY <2>2 DEF Steps
  <2>4. Target(o, Len(cd) + 1, c) = Len(cd) + 2
    BY <1>1 DEF Straight, Target
  <2>5. \A r \in Stacks : Covers(st2, ty2, r) => Goes(bnn, Len(cd) + 2, r)
    <3>1. Len(cd) + 2 \in 1 .. Len(bnn) /\ bnn[Len(cd) + 2] = n
      BY <1>1, <1>3
    <3> QED BY <3>1, NoteFacts DEF Goes, n
  <2> QED BY <2>3, <2>4, <2>5
<1>6. \A i \in 1 .. Len(cd2) : i > Len(cd) => i = Len(cd) + 1
  BY <1>1, <1>4
<1>7. \A i \in 1 .. Len(cd2) :
        StepOK(bnn, cd2[i], i) \/ (i <= Len(cd) /\ cd2[i] = cd[i])
  <2> TAKE i \in 1 .. Len(cd2)
  <2>1. CASE i > Len(cd)
    BY <1>4, <1>5, <1>6, <2>1
  <2>2. CASE ~(i > Len(cd))
    <3>1. i \in 1 .. Len(cd) /\ i <= Len(cd)
      BY <1>1, <1>4, <2>2
    <3> QED BY <1>4, <3>1
  <2> QED BY <2>1, <2>2
<1>8. \A k \in 1 .. Len(fr) : k <= Len(fr) /\ (k < Len(fr) => fr[k].head <= Len(cd2))
  <2> TAKE k \in 1 .. Len(fr)
  <2>1. ASSUME k < Len(fr) PROVE fr[k].head <= Len(cd2)
    <3>0. fr[k] \in Frames
      BY <1>1
    <3>1. fr[k].head <= Len(cd) /\ fr[k].head \in Nat
      BY <1>1, <2>1, <3>0 DEF Frames
    <3> QED BY <1>1, <1>4, <3>1
  <2> QED BY <1>1, <2>1
<1>9. bnn[1] = ann[1] /\ bnn[Len(ann)] = ann[Len(ann)] /\ Len(bnn) = Len(cd2) + 1
      /\ Len(cd) <= Len(cd2)
  <2>1. 1 \in 1 .. Len(ann) /\ Len(ann) \in 1 .. Len(ann)
    BY <1>1
  <2>2. bnn[1] = ann[1] /\ bnn[Len(ann)] = ann[Len(ann)]
    BY <1>3, <2>1
  <2>3. Len(bnn) = Len(cd2) + 1 /\ Len(cd) <= Len(cd2)
    BY <1>1, <1>3, <1>4
  <2> QED BY <2>2, <2>3
<1>10. /\ \A i \in 1 .. Len(cd) : cd2[i].op = cd[i].op
       /\ \A i \in 1 .. Len(cd2) : i > Len(cd) => cd2[i].op # "ret"
  BY <1>4, <1>6
<1> QED
  <2>1. Building(bnn, st2, ty2, cd2, fr)
    <3>1. StepsOn(bnn, cd, fr, cd2, fr)
      BY <1>7 DEF StepsOn
    <3>2. FramesOn(ann, bnn, cd, fr, cd2, fr)
      BY <1>8, <1>9 DEF FramesOn
    <3> QED BY <1>1, <1>3, <1>4, <1>9, <1>10, <3>1, <3>2, BuildOn DEF n
  <2> QED BY <2>1 DEF bnn, cd2, n

\* Constructs replaced by others that wait at the same places.
LEMMA Reframe ==
  ASSUME NEW ann, NEW st, NEW ty, NEW cd, NEW fr, Building(ann, st, ty, cd, fr),
         NEW fr2 \in Seq(Frames), \A i : Waits(fr, i) => Waits(fr2, i),
         \A k \in 1 .. Len(fr2) :
           FrameInv(ann, cd, fr2[k]) /\ (k < Len(fr2) => fr2[k].head <= Len(cd))
  PROVE  Building(ann, st, ty, cd, fr2)
  BY DEF Building

\* A conditional branch is emitted whose target is not known yet, and the
\* construct f that waits for it is opened, or moves on.
LEMMA Branch ==
  ASSUME NEW ann, NEW st, NEW ty, NEW cd, NEW fr, Building(ann, st, ty, cd, fr),
         NEW st2 \in States, NEW ty2 \in Seq(Types), Len(st2) = Len(ty2),
         NEW fr2 \in Seq(Frames), Len(fr2) > 0,
         NEW f \in Frames, fr2[Len(fr2)] = f, f.kind \in {"then", "while"},
         f.at = Len(cd) + 1, Len(f.seed) = Len(f.base), f.head <= Len(cd) + 1,
         f.kind = "while" => f.head \in 1 .. Len(ann) /\ ann[f.head] = Note(f.entry, f.base),
         \A c \in Stacks : Covers(st, ty, c) =>
           /\ Below(c, 1) \in Stacks /\ Covers(st2, ty2, Below(c, 1))
           /\ Covers(f.seed, f.base, Below(c, 1)),
         \A k \in 1 .. Len(fr2) : k < Len(fr2) => k <= Len(fr) /\ fr2[k] = fr[k],
         \A k \in 1 .. Len(fr) : k < Len(fr2) \/ fr[k].kind \notin Branching
  PROVE  Building(Append(ann, Note(st2, ty2)), st2, ty2, Append(cd, Instr("brif", 0)), fr2)
<1> DEFINE n == Note(st2, ty2)
           o == Instr("brif", 0)
           bnn == Append(ann, n)
           cd2 == Append(cd, o)
<1>1. /\ cd \in Seq(Instrs) /\ fr \in Seq(Frames) /\ ann \in Seq(Notes) /\ Len(ann) = Len(cd) + 1
      /\ Len(cd) \in Nat /\ Len(fr) \in Nat /\ ann[Len(ann)] = Note(st, ty)
      /\ st \in States /\ ty \in Seq(Types) /\ Len(fr2) \in Nat
  BY DEF Building
<1>2. n \in Notes /\ Len(ann) > 0 /\ o \in Instrs /\ o.op = "brif"
  <2>1. o \in Instrs /\ o.op = "brif"
    BY DEF Instr, Instrs, Ops
  <2> QED BY <1>1, <2>1, NoteFacts
<1>3. /\ bnn \in Seq(Notes) /\ Weaker(ann, bnn) /\ Len(bnn) = Len(ann) + 1 /\ bnn[Len(bnn)] = n
      /\ \A i \in 1 .. Len(ann) : bnn[i] = ann[i]
  BY <1>1, <1>2, NotesAdded
<1>4. /\ cd2 \in Seq(Instrs) /\ Len(cd2) = Len(cd) + 1 /\ cd2[Len(cd) + 1] = o
      /\ \A i \in 1 .. Len(cd) : cd2[i] = cd[i]
  BY <1>1, <1>2, AppendFacts
<1>5. \A c : Held(bnn[Len(cd) + 2], c) <=> Covers(st2, ty2, c)
  <2>1. bnn[Len(cd) + 2] = n
    BY <1>1, <1>3
  <2> QED BY <2>1, NoteFacts DEF n
<1> HIDE DEF n, bnn, cd2, o
<1>6. Leaves(bnn, f)
  <2> SUFFICES ASSUME NEW c \in Stacks, Held(bnn[f.at], c)
               PROVE  /\ Goes(bnn, f.at + 1, Below(c, 1))
                      /\ Covers(f.seed, f.base, Below(c, 1))
    BY DEF Leaves
  <2>1. bnn[f.at] = Note(st, ty) /\ f.at + 1 = Len(cd) + 2 /\ f.at + 1 \in 1 .. Len(bnn)
    BY <1>1, <1>3
  <2>2. Covers(st, ty, c)
    BY <1>1, <2>1, NoteFacts
  <2>3. Below(c, 1) \in Stacks /\ Covers(st2, ty2, Below(c, 1)) /\ Covers(f.seed, f.base, Below(c, 1))
    BY <2>2
  <2> QED BY <1>5, <2>1, <2>3 DEF Goes
<1>7. FrameInv(bnn, cd2, f)
  <2>1. f.head <= Len(bnn) /\ f.at \in 1 .. Len(cd2) /\ cd2[f.at].op = "brif"
    <3>1. f.head \in Nat
      BY DEF Frames
    <3> QED BY <1>1, <1>2, <1>3, <1>4, <3>1
  <2>2. ASSUME f.kind \in Loops
        PROVE  f.head \in 1 .. Len(bnn) /\ bnn[f.head] = Note(f.entry, f.base)
    <3>1. f.kind = "while"
      BY <2>2 DEF Loops
    <3>2. f.head \in 1 .. Len(ann) /\ ann[f.head] = Note(f.entry, f.base)
      BY <3>1
    <3> QED BY <1>1, <1>3, <3>2
  <2> QED BY <1>6, <2>1, <2>2 DEF FrameInv
<1>8. \A i \in 1 .. Len(cd2) : ~Waits(fr2, i) =>
        i <= Len(cd) /\ cd2[i] = cd[i] /\ ~Waits(fr, i)
  <2> SUFFICES ASSUME NEW i \in 1 .. Len(cd2), ~Waits(fr2, i)
               PROVE  i <= Len(cd) /\ cd2[i] = cd[i] /\ ~Waits(fr, i)
    OBVIOUS
  <2>1. i # f.at
    <3>1. f.kind \in Branching /\ Len(fr2) \in 1 .. Len(fr2)
      BY <1>1 DEF Branching
    <3> QED BY <3>1 DEF Waits
  <2>2. i \in 1 .. Len(cd) /\ i <= Len(cd)
    BY <1>1, <1>4, <2>1
  <2>3. ~Waits(fr, i)
    <3> SUFFICES ASSUME NEW k \in 1 .. Len(fr), fr[k].kind \in Branching, fr[k].at = i
                 PROVE  FALSE
      BY DEF Waits
    <3>1. k < Len(fr2) /\ k \in 1 .. Len(fr2)
      BY <1>1
    <3>2. fr2[k] = fr[k]
      BY <3>1
    <3> QED BY <3>1, <3>2 DEF Waits
  <2> QED BY <1>4, <2>2, <2>3
<1>9. \A k \in 1 .. Len(fr2) :
        /\ FrameInv(bnn, cd2, fr2[k]) \/ (k <= Len(fr) /\ fr2[k] = fr[k])
        /\ k < Len(fr2) => fr2[k].head <= Len(cd2)
  <2> TAKE k \in 1 .. Len(fr2)
  <2>1. CASE k < Len(fr2)
    <3>1. k <= Len(fr) /\ fr2[k] = fr[k] /\ k \in 1 .. Len(fr)
      BY <1>1, <2>1
    <3>2. FrameInv(ann, cd, fr[k])
      BY <3>1 DEF Building
    <3>3. fr[k].head <= Len(ann)
      BY <3>2 DEF FrameInv
    <3> QED BY <1>1, <1>4, <3>1, <3>3
  <2>2. CASE ~(k < Len(fr2))
    <3>1. k = Len(fr2)
      BY <1>1, <2>2
    <3> QED BY <1>7, <2>2, <3>1
  <2> QED BY <2>1, <2>2
<1>10. bnn[1] = ann[1] /\ bnn[Len(ann)] = ann[Len(ann)] /\ Len(bnn) = Len(cd2) + 1
       /\ Len(cd) <= Len(cd2)
  <2>1. 1 \in 1 .. Len(ann) /\ Len(ann) \in 1 .. Len(ann)
    BY <1>1
  <2>2. bnn[1] = ann[1] /\ bnn[Len(ann)] = ann[Len(ann)]
    BY <1>3, <2>1
  <2>3. Len(bnn) = Len(cd2) + 1 /\ Len(cd) <= Len(cd2)
    BY <1>1, <1>3, <1>4
  <2> QED BY <2>2, <2>3
<1>11. /\ \A i \in 1 .. Len(cd) : cd2[i].op = cd[i].op
       /\ \A i \in 1 .. Len(cd2) : i > Len(cd) => cd2[i].op # "ret"
  <2>1. \A i \in 1 .. Len(cd2) : i > Len(cd) => i = Len(cd) + 1
    BY <1>1, <1>4
  <2> QED BY <1>2, <1>4, <2>1
<1> QED
  <2>1. Building(bnn, st2, ty2, cd2, fr2)
    <3>1. StepsOn(bnn, cd, fr, cd2, fr2)
      BY <1>8 DEF StepsOn
    <3>2. FramesOn(ann, bnn, cd, fr, cd2, fr2)
      BY <1>9, <1>10 DEF FramesOn
    <3> QED BY <1>3, <1>4, <1>10, <1>11, <3>1, <3>2, BuildOn DEF n
  <2> QED BY <2>1 DEF bnn, cd2, n, o

\* The step of an operation.
LEMMA PlainSteps ==
  ASSUME ts \in Seq(Types), NEW st \in States, Len(st) = Len(ts), Len(ts) <= MaxSlots,
         NEW o \in PlainOps, NEW t \in Typed(o), Len(t) <= MaxSlots
  PROVE  /\ Emitted(o) \in Instrs /\ Emitted(o).op \notin {"br", "brif", "ret"}
         /\ Steps(st, ts, Emitted(o), Transfer(st, o), t)
<1>1. /\ Emitted(o).op = o.op /\ o.op \in OpNames \cup {"const", "get"}
  BY DischargeAssumption DEF PlainOps, Op, Emitted, Instr
<1>2. Emitted(o).v \in Int
  BY WordFacts, DischargeAssumption DEF PlainOps, Op, Emitted, Instr
<1>3. Emitted(o) \in Instrs
  BY <1>1, <1>2 DEF Emitted, Instr, Instrs, Ops
<1>4. o.op \notin {"br", "brif", "ret", "check", "elided"}
  BY <1>1 DEF OpNames, CmpKinds
<1>5. Steps(st, ts, Emitted(o), Transfer(st, o), t)
  <2> SUFFICES ASSUME NEW in \in Inputs, NEW c \in Stacks, Covers(st, ts, c)
               PROVE  /\ Judged(Emitted(o), c)
                      /\ ~Traps(Emitted(o), c) => \A r \in Results(Emitted(o), in, c) :
                           r \in Stacks /\ Covers(Transfer(st, o), t, r)
    BY DEF Steps
  <2>1. Judged(Emitted(o), c)
    BY <1>1, <1>4 DEF Judged
  <2>2. \A r \in Results(Emitted(o), in, c) : r \in Stacks /\ Covers(Transfer(st, o), t, r)
    BY TransferSound
  <2> QED BY <2>1, <2>2
<1> QED BY <1>1, <1>3, <1>4, <1>5

\* What stands at a site is right of the values it was judged on.
LEMMA SiteSound ==
  ASSUME NEW iv \in Interval, NEW o, o = EmitSubtypeCheck(OfRange(iv, SubLo, SubHi))
  PROVE  /\ o \in Instrs /\ o.op \in {"check", "elided"}
         /\ \A v \in Word : Contains(iv, v) =>
              /\ o.op = "elided" => InRange(v)
              /\ o.op = "check" /\ o.v = 1 => ~InRange(v)
<1> DEFINE t == EvalInRange(iv, SubLo, SubHi)
<1>1. /\ o.op = IF t # "DefTrue" THEN "check" ELSE "elided"
      /\ o.v = IF t = "DefFalse" THEN 1 ELSE 0
  BY DEF EmitSubtypeCheck, OfRange, Instr
<1>2. o \in Instrs
  BY DEF EmitSubtypeCheck, OfRange, Instr, Instrs, Ops
<1>3. ASSUME NEW v \in Word, Contains(iv, v)
      PROVE  (t = "DefTrue" => InRange(v)) /\ (t = "DefFalse" => ~InRange(v))
  BY <1>3, VerdictSound, DischargeAssumption DEF InRange
<1> HIDE DEF t
<1> QED BY <1>1, <1>2, <1>3

\* The value on top of the machine's stack and the slot that describes it.
LEMMA TopHolds ==
  ASSUME NEW st \in States, ts \in Seq(Types), NEW c \in Stacks, Covers(st, ts, c), Deep(1)
  PROVE  /\ TopInterval(st) \in Interval /\ TopInterval(st) = Peek(st, 1).iv
         /\ At(c, 1) \in Word /\ Contains(TopInterval(st), At(c, 1))
<1>1. Len(st) = Len(ts) /\ Len(c) = Len(ts) /\ Len(ts) \in Nat /\ 1 <= Len(ts)
  BY DEF Covers, Deep
<1>2. /\ Peek(st, 1) \in Slots /\ c[Len(c) + 1 - 1] \in Word
      /\ Contains(Peek(st, 1).iv, c[Len(c) + 1 - 1])
  BY <1>1, PeekCovers
<1>3. TopInterval(st) = Peek(st, 1).iv
  <2>1. st # <<>> /\ Len(st) + 1 - 1 = Len(st)
    BY <1>1
  <2> QED BY <1>1, <2>1 DEF TopInterval, Peek
<1> QED BY <1>2, <1>3 DEF At, Slots

\* The slot on top is an interval whether or not a stack is described.
LEMMA TopTyped ==
  ASSUME NEW st \in States, ts \in Seq(Types), Len(st) = Len(ts), Deep(1)
  PROVE  TopInterval(st) \in Interval /\ TopInterval(st) = Peek(st, 1).iv
<1>1. Len(st) = Len(ts) /\ Len(ts) \in Nat /\ 1 <= Len(ts)
  BY DEF Deep
<1>2. Peek(st, 1) \in Slots
  BY StateTypes
<1>3. st # <<>> /\ Len(st) + 1 - 1 = Len(st)
  BY <1>1
<1> QED BY <1>1, <1>2, <1>3 DEF TopInterval, Peek, Slots

CastState(st) == Transfer(st, Op("cast", 0))

\* The cast narrows the top slot to the subtype's range, and describes the
\* stacks whose top value is in it.
LEMMA CastFacts ==
  ASSUME NEW st \in States, ts \in Seq(Types), Len(st) = Len(ts), Len(ts) <= MaxSlots, Deep(1)
  PROVE  /\ CastState(st) \in States /\ Append(Rest(1), "sub") \in Seq(Types)
         /\ Len(CastState(st)) = Len(ts) /\ Len(Append(Rest(1), "sub")) = Len(ts)
         /\ TopInterval(CastState(st)) = CastNarrow(TopInterval(st), SubLo, SubHi)
         /\ CastNarrow(TopInterval(st), SubLo, SubHi) \in Interval
         /\ \A c \in Stacks : Covers(st, ts, c) /\ InRange(At(c, 1)) =>
              /\ Covers(CastState(st), Append(Rest(1), "sub"), c)
              /\ Contains(TopInterval(CastState(st)), At(c, 1))
<1> DEFINE iv == CastNarrow(TopInterval(st), SubLo, SubHi)
           s0 == Pop(st, 1)
           t2 == Append(Rest(1), "sub")
<1>1. Len(ts) \in Nat /\ MaxSlots \in Nat /\ 1 <= Len(ts) /\ "sub" \in Types
      /\ SubLo \in Word /\ SubHi \in Word
  BY DischargeAssumption DEF Deep, Types
<1>2. TopInterval(st) \in Interval /\ TopInterval(st) = Peek(st, 1).iv /\ iv \in Interval
  BY <1>1, TopTyped, IntervalTypes
<1>3. CastState(st) = Push(s0, Computed(iv))
  <2>1. TransferArm(st, Op("cast", 0), Peek(st, 2), Peek(st, 1))
    BY TransferArms
  <2>2. Op("cast", 0).op = "cast"
    BY DEF Op
  <2> QED BY <1>2, <2>1, <2>2 DEF TransferArm, CastState
<1>4. Computed(iv) \in Slots /\ Computed(iv).iv = iv
  BY <1>2, ComputedSlot
<1>5. s0 \in States /\ Len(s0) = Len(st) - 1
  BY <1>1, StackLengths
<1>6. t2 \in Seq(Types) /\ Len(t2) = Len(ts) /\ Rest(1) \in Seq(Types) /\ Len(Rest(1)) = Len(ts) - 1
  <2>1. t2 \in Seq(Types) /\ Len(t2) = Len(ts) - 1 + 1 /\ Rest(1) \in Seq(Types)
        /\ Len(Rest(1)) = Len(ts) - 1
    BY <1>1, RestFacts
  <2> QED BY <1>1, <2>1
<1> HIDE DEF iv, s0
<1>7. Push(s0, Computed(iv)) \in States /\ Len(Push(s0, Computed(iv))) = Len(ts)
  <2>1. Len(s0) < MaxSlots /\ Len(s0) <= MaxSlots /\ Len(s0) + 1 = Len(ts)
    BY <1>1, <1>5
  <2>2. Push(s0, Computed(iv)) \in States /\ Len(Push(s0, Computed(iv))) = Len(s0) + 1
    BY <1>4, <1>5, <2>1, StackLengths
  <2> QED BY <2>1, <2>2
<1>8. TopInterval(Push(s0, Computed(iv))) = iv
  <2>1. Push(s0, Computed(iv))[Len(Push(s0, Computed(iv)))] = Computed(iv)
    <3>1. Truncate(s0, MaxSlots - 1) \in Seq(Slots)
      BY <1>1, <1>5, StateTypes, DischargeAssumption DEF States
    <3> HIDE DEF t2
    <3> QED BY <1>4, <3>1, AppendFacts DEF Push
  <2>2. Push(s0, Computed(iv)) # <<>>
    BY <1>1, <1>7
  <2> QED BY <1>4, <2>1, <2>2 DEF TopInterval
<1>9. ASSUME NEW c \in Stacks, Covers(st, ts, c), InRange(At(c, 1))
      PROVE  Covers(CastState(st), t2, c) /\ Contains(iv, At(c, 1))
  <2> DEFINE y == At(c, 1)
  <2>1. y \in Word /\ Contains(TopInterval(st), y)
    BY <1>9, TopHolds
  <2>2. Contains(iv, y)
    <3>1. Range(SubLo, SubHi) \in Interval /\ Contains(Range(SubLo, SubHi), y)
      BY <1>1, <1>9 DEF Range, Interval, Contains, InRange
    <3> QED BY <1>2, <2>1, <3>1, LatticeSound DEF iv, CastNarrow
  <2>3. /\ s0 \in States /\ Below(ts, 1) \in Seq(Types) /\ Below(c, 1) \in Stacks
        /\ Covers(s0, Below(ts, 1), Below(c, 1)) /\ Below(ts, 1) = Rest(1)
    <3>1. Below(ts, 1) = Rest(1)
      BY DEF Below, Rest
    <3> QED BY <1>1, <1>9, <3>1, PopCovers DEF s0
  <2>4. Len(Rest(1)) < MaxSlots
    BY <1>1, <1>6
  <2> HIDE DEF y
  <2>5. Covers(Push(s0, Computed(iv)), t2, Append(Below(c, 1), y))
    BY <1>1, <1>4, <1>6, <2>1, <2>2, <2>3, <2>4, PushCovers
  <2>6. Append(Below(c, 1), y) = c
    <3>1. c \in Seq(Word) /\ Len(c) = Len(ts)
      BY <1>9 DEF Covers, Stacks
    <3>2. /\ Len(c) > 0 /\ Len(c) + 1 - 1 = Len(c) - 0
      BY <1>1, <3>1
    <3>3. Append(Below(c, 0 + 1), c[Len(c) - 0]) = Below(c, 0) /\ Below(c, 0) = c
      BY <3>1, <3>2, FrontLast, BelowNone
    <3>4. c[Len(c) - 0] = y /\ Below(c, 0 + 1) = Below(c, 1)
      BY <3>2 DEF At, y
    <3> QED BY <3>3, <3>4
  <2> QED BY <1>3, <2>2, <2>5, <2>6 DEF y
<1> QED BY <1>2, <1>3, <1>6, <1>7, <1>8, <1>9 DEF iv, s0

-----------------------------------------------------------------------------
\* The compiler's actions.  The abstract stack has MaxSlots slots: past that
\* it replaces the wrong slot, and what follows says nothing.
Fits == Len(ts) <= MaxSlots
Compiles == \E ann : Building(ann, abs, ts, code, ctl)

\* Every action that emits one straight instruction.
LEMMA ExtendCode ==
  ASSUME Compiles, NEW o \in Instrs, Straight(o, Len(code) + 1), o.op # "ret",
         abs' \in States, ts' \in Seq(Types), Len(abs') = Len(ts'),
         Steps(abs, ts, o, abs', ts'), code' = Append(code, o), ctl' = ctl
  PROVE  Compiles'
<1>1. PICK ann : Building(ann, abs, ts, code, ctl)
  BY DEF Compiles
<1>2. Building(Append(ann, Note(abs', ts')), abs', ts', Append(code, o), ctl)
  BY <1>1, Extend
<1> QED BY <1>2 DEF Compiles

\* The types of what the compiler keeps.
LEMMA CompilerTypes ==
  ASSUME Compiles
  PROVE  /\ abs \in States /\ ts \in Seq(Types) /\ Len(abs) = Len(ts) /\ Len(ts) \in Nat
         /\ code \in Seq(Instrs) /\ Len(code) \in Nat /\ ctl \in Seq(Frames) /\ Len(ctl) \in Nat
  BY DEF Compiles, Building

\* A plain operation steps the abstract state.
LEMMA EmitOpBuilds ==
  ASSUME Compiles, Fits, Fits', NEW op \in PlainOps, EmitOp(op)
  PROVE  Compiles'
<1>1. PICK t \in Typed(op) : ts' = t
  BY DEF EmitOp
<1>2. /\ abs' = Transfer(abs, op) /\ code' = Append(code, Emitted(op)) /\ ctl' = ctl
  BY DEF EmitOp
<1>3. Len(ts) <= MaxSlots /\ Len(t) <= MaxSlots
  BY <1>1 DEF Fits
<1>4. abs' \in States /\ ts' \in Seq(Types) /\ Len(abs') = Len(ts')
  BY <1>1, <1>2, <1>3, CompilerTypes, TransferTypes
<1>5. /\ Emitted(op) \in Instrs /\ Emitted(op).op \notin {"br", "brif", "ret"}
      /\ Steps(abs, ts, Emitted(op), abs', ts')
  BY <1>1, <1>2, <1>3, CompilerTypes, PlainSteps
<1>6. Straight(Emitted(op), Len(code) + 1)
  BY <1>5 DEF Straight
<1> QED BY <1>2, <1>4, <1>5, <1>6, ExtendCode

\* A cast's site is judged on the state before it.
LEMMA CompileCastBuilds ==
  ASSUME Compiles, Fits, CompileCast
  PROVE  Compiles'
<1> DEFINE o == EmitSubtypeCheck(OfRange(TopInterval(abs), SubLo, SubHi))
<1>1. /\ Deep(1) /\ ts' = Append(Rest(1), "sub") /\ code' = Append(code, o) /\ ctl' = ctl
      /\ abs' = CastState(abs)
  BY DEF CompileCast, CastState
<1>2. /\ abs' \in States /\ ts' \in Seq(Types) /\ Len(abs') = Len(ts')
      /\ \A c \in Stacks : Covers(abs, ts, c) /\ InRange(At(c, 1)) => Covers(abs', ts', c)
  BY <1>1, CompilerTypes, CastFacts DEF Fits
<1>3. /\ o \in Instrs /\ o.op \in {"check", "elided"}
      /\ \A v \in Word : Contains(TopInterval(abs), v) =>
              /\ o.op = "elided" => InRange(v)
              /\ o.op = "check" /\ o.v = 1 => ~InRange(v)
  <2>1. TopInterval(abs) \in Interval
    BY <1>1, CompilerTypes, TopTyped
  <2> QED BY <2>1, SiteSound
<1> HIDE DEF o
<1>4. Steps(abs, ts, o, abs', ts')
  <2> SUFFICES ASSUME NEW in \in Inputs, NEW c \in Stacks, Covers(abs, ts, c)
               PROVE  /\ Judged(o, c)
                      /\ ~Traps(o, c) => \A r \in Results(o, in, c) :
                           r \in Stacks /\ Covers(abs', ts', r)
    BY DEF Steps
  <2>1. At(c, 1) \in Word /\ Contains(TopInterval(abs), At(c, 1))
    BY <1>1, CompilerTypes, TopHolds
  <2>2. Judged(o, c)
    BY <1>3, <2>1 DEF Judged
  <2>3. ~Traps(o, c) => InRange(At(c, 1))
    BY <1>3, <2>1 DEF Traps
  <2>4. ASSUME NEW r \in Results(o, in, c) PROVE r = c
    <3>1. ResultArm(o, in, c, At(c, 2), At(c, 1), r)
      BY ResultArms
    <3> QED BY <1>3, <3>1 DEF ResultArm
  <2> QED BY <1>2, <2>2, <2>3, <2>4
<1>5. Straight(o, Len(code) + 1) /\ o.op # "ret"
  BY <1>3 DEF Straight
<1> QED BY <1>1, <1>2, <1>3, <1>4, <1>5, ExtendCode

\* A question whose value is known to be in the range narrows nothing.
LEMMA CompileCastQBuilds ==
  ASSUME Compiles, Fits, Fits', CompileCastQ, exact'
  PROVE  Compiles'
<1> DEFINE o == Instr("as?", 0)
           s1 == CastState(abs)
           v == TopInterval(s1)
           t1 == Append(Rest(1), "sub")
           iv == BoolIv(TriAnd(TriCmp(v, Const(SubLo), "ge"), TriCmp(v, Const(SubHi), "le")))
<1>1. /\ Deep(1) /\ ts' = Rest(1) \o <<"sub", "bool">> /\ code' = Append(code, o) /\ ctl' = ctl
      /\ abs' = Push(s1, Computed(iv)) /\ SubsetOf(TopInterval(abs), Range(SubLo, SubHi))
  BY DEF CompileCastQ, CastState
<1>2. SubLo \in Word /\ SubHi \in Word /\ MaxSlots \in Nat
  BY DischargeAssumption
<1>3. /\ s1 \in States /\ t1 \in Seq(Types) /\ Len(s1) = Len(ts) /\ Len(t1) = Len(ts)
      /\ v \in Interval
      /\ \A c \in Stacks : Covers(abs, ts, c) /\ InRange(At(c, 1)) =>
           Covers(s1, t1, c) /\ Contains(v, At(c, 1))
  BY <1>1, CompilerTypes, CastFacts DEF Fits
<1>4. ts' = Append(t1, "bool") /\ ts' \in Seq(Types) /\ Len(ts') = Len(ts) + 1 /\ "bool" \in Types
  <2>1. "bool" \in Types /\ "sub" \in Types /\ Rest(1) \in Seq(Types)
    BY <1>1, CompilerTypes, RestFacts DEF Types
  <2>2. ts' = Append(t1, "bool")
    BY <1>1, <2>1, AppendTwice
  <2>3. Append(t1, "bool") \in Seq(Types) /\ Len(Append(t1, "bool")) = Len(t1) + 1
    BY <1>3, <2>1, AppendFacts
  <2> QED BY <1>3, <2>1, <2>2, <2>3
<1>5. Computed(iv) \in Slots /\ Computed(iv).iv = iv
  BY IntervalTypes, ComputedSlot
<1>6. Len(s1) < MaxSlots /\ Len(s1) <= MaxSlots /\ Len(t1) < MaxSlots
  BY <1>2, <1>3, <1>4, CompilerTypes DEF Fits
<1>7. abs' \in States /\ Len(abs') = Len(ts')
  <2>1. Push(s1, Computed(iv)) \in States /\ Len(Push(s1, Computed(iv))) = Len(s1) + 1
    BY <1>3, <1>5, <1>6, StackLengths
  <2> QED BY <1>1, <1>3, <1>4, <2>1
<1>8. ASSUME NEW y \in Word, InRange(y), Contains(v, y) PROVE Contains(iv, 1)
  <2> DEFINE p == TriCmp(v, Const(SubLo), "ge")
             q == TriCmp(v, Const(SubHi), "le")
  <2>1. /\ Const(SubLo) \in Interval /\ Contains(Const(SubLo), SubLo)
        /\ Const(SubHi) \in Interval /\ Contains(Const(SubHi), SubHi)
    BY <1>2, IntervalTypes, ConstHolds
  <2>2. Holds("ge", y, SubLo) /\ Holds("le", y, SubHi)
    BY <1>2, <1>8, WordFacts DEF InRange, Holds
  <2>3. "ge" \in CmpKinds /\ "le" \in CmpKinds
    BY DEF CmpKinds
  <2>4. p # "DefFalse" /\ q # "DefFalse"
    BY <1>2, <1>3, <1>8, <2>1, <2>2, <2>3, ComparisonSound
  <2>5. TriAnd(p, q) # "DefFalse"
    <3> HIDE DEF p, q
    <3> QED BY <2>4 DEF TriAnd
  <2> HIDE DEF p, q
  <2>6. Contains(BoolIv(TriAnd(p, q)), 1)
    BY <2>5 DEF BoolIv, Contains, Const, Range
  <2> QED BY <2>6 DEF p, q
<1> HIDE DEF s1, v, t1, iv
<1>9. Steps(abs, ts, o, abs', ts')
  <2> SUFFICES ASSUME NEW in \in Inputs, NEW c \in Stacks, Covers(abs, ts, c)
               PROVE  /\ Judged(o, c)
                      /\ ~Traps(o, c) => \A r \in Results(o, in, c) :
                           r \in Stacks /\ Covers(abs', ts', r)
    BY DEF Steps
  <2>0. o.op = "as?"
    BY DEF Instr
  <2>1. At(c, 1) \in Word /\ Contains(TopInterval(abs), At(c, 1)) /\ TopInterval(abs) \in Interval
    BY <1>1, CompilerTypes, TopHolds
  <2>2. InRange(At(c, 1))
    <3>1. Range(SubLo, SubHi) \in Interval
      BY <1>2 DEF Range, Interval
    <3>2. Contains(Range(SubLo, SubHi), At(c, 1))
      BY <1>1, <2>1, <3>1, LatticeSound
    <3> QED BY <3>2 DEF Contains, Range, InRange
  <2>3. Covers(s1, t1, c) /\ Contains(iv, 1)
    BY <1>3, <1>8, <2>1, <2>2
  <2>4. ASSUME NEW r \in Results(o, in, c) PROVE r = Append(c, 1)
    <3>1. ResultArm(o, in, c, At(c, 2), At(c, 1), r)
      BY ResultArms
    <3>2. r = Append(c, Flag(InRange(At(c, 1))))
      BY <2>0, <3>1 DEF ResultArm
    <3> QED BY <2>2, <3>2 DEF Flag
  <2>5. Append(c, 1) \in Stacks /\ Covers(abs', ts', Append(c, 1))
    <3> DEFINE w == Computed(iv)
    <3>1. w \in Slots /\ Contains(w.iv, 1)
      BY <1>5, <2>3
    <3>2. 1 \in Word /\ ("bool" = "bool" => 1 \in {0, 1}) /\ "bool" \in Types
      BY <1>4, WordFacts
    <3>3. abs' = Push(s1, w) /\ ts' = Append(t1, "bool")
      BY <1>1, <1>4
    <3>4. s1 \in States /\ t1 \in Seq(Types) /\ Covers(s1, t1, c) /\ Len(t1) < MaxSlots
      BY <1>3, <1>6, <2>3
    <3> HIDE DEF w
    <3>5. Append(c, 1) \in Stacks /\ Covers(Push(s1, w), Append(t1, "bool"), Append(c, 1))
      BY <3>1, <3>2, <3>4, PushCovers
    <3> QED BY <3>3, <3>5
  <2> QED BY <2>0, <2>4, <2>5 DEF Judged
<1>10. o \in Instrs /\ Straight(o, Len(code) + 1) /\ o.op # "ret"
  BY DEF Instr, Instrs, Ops, Straight
<1> QED BY <1>1, <1>4, <1>7, <1>9, <1>10, ExtendCode

\* The innermost construct, taken off and replaced.
LEMMA FrameFacts ==
  ASSUME ctl \in Seq(Frames), ctl # <<>>
  PROVE  /\ Len(ctl) \in Nat \ {0} /\ Len(ctl) \in 1 .. Len(ctl) /\ Frame \in Frames
         /\ Outer \in Seq(Frames) /\ Len(Outer) = Len(ctl) - 1
         /\ \A k \in 1 .. Len(ctl) - 1 : Outer[k] = ctl[k]
         /\ \A g \in Frames :
              /\ Append(Outer, g) \in Seq(Frames) /\ Len(Append(Outer, g)) = Len(ctl)
              /\ Append(Outer, g)[Len(ctl)] = g
              /\ \A k \in 1 .. Len(ctl) - 1 : Append(Outer, g)[k] = ctl[k]
<1>1. Len(ctl) \in Nat \ {0} /\ Len(ctl) \in 1 .. Len(ctl)
  OBVIOUS
<1>2. Outer = Below(ctl, 1)
  BY DEF Outer, Below
<1>3. /\ Outer \in Seq(Frames) /\ Len(Outer) = Len(ctl) - 1
      /\ \A k \in 1 .. Len(ctl) - 1 : Outer[k] = ctl[k]
  BY <1>1, <1>2, BelowFacts
<1>4. ASSUME NEW g \in Frames
      PROVE  /\ Append(Outer, g) \in Seq(Frames) /\ Len(Append(Outer, g)) = Len(ctl)
             /\ Append(Outer, g)[Len(ctl)] = g
             /\ \A k \in 1 .. Len(ctl) - 1 : Append(Outer, g)[k] = ctl[k]
  <2>1. /\ Append(Outer, g) \in Seq(Frames) /\ Len(Append(Outer, g)) = Len(Outer) + 1
        /\ Append(Outer, g)[Len(Outer) + 1] = g
        /\ \A k \in 1 .. Len(Outer) : Append(Outer, g)[k] = Outer[k]
    BY <1>3, AppendFacts
  <2>2. Len(Outer) + 1 = Len(ctl) /\ 1 .. Len(Outer) = 1 .. Len(ctl) - 1
    BY <1>1, <1>3
  <2> QED BY <1>3, <2>1, <2>2
<1> QED BY <1>1, <1>3, <1>4 DEF Frame

\* What is known of the innermost construct.
LEMMA FrameKnown ==
  ASSUME NEW ann, Building(ann, abs, ts, code, ctl), ctl # <<>>
  PROVE  FrameInv(ann, code, Frame) /\ Frame \in Frames
<1>1. ctl \in Seq(Frames) /\ \A k \in 1 .. Len(ctl) : FrameInv(ann, code, ctl[k])
  BY DEF Building
<1> QED BY <1>1, FrameFacts DEF Frame

\* A header that is closed waits for nothing, before and after.
LEMMA HeaderClosedBuilds ==
  ASSUME NEW ann, Building(ann, abs, ts, code, ctl), NEW st \in States
  PROVE  /\ Building(ann, abs, ts, code, HeaderClosed(st))
         /\ HeaderClosed(st) \in Seq(Frames) /\ Len(HeaderClosed(st)) = Len(ctl)
<1>1. ctl \in Seq(Frames) /\ Len(ctl) \in Nat
  BY DEF Building
<1>2. CASE ~Inside({"header"})
  BY <1>1, <1>2 DEF HeaderClosed
<1>3. CASE Inside({"header"})
  <2> DEFINE g == [Frame EXCEPT !.kind = "cond", !.seed = st]
             fr2 == Append(Outer, g)
  <2>1. ctl # <<>> /\ Frame.kind = "header"
    BY <1>3 DEF Inside
  <2>2. Frame \in Frames /\ FrameInv(ann, code, Frame)
    BY <2>1, FrameKnown
  <2>3. g \in Frames /\ g.kind = "cond" /\ g.head = Frame.head /\ g.entry = Frame.entry
        /\ g.base = Frame.base
    BY <2>2 DEF Frames, FrameKinds
  <2> HIDE DEF g
  <2>4. /\ fr2 \in Seq(Frames) /\ Len(fr2) = Len(ctl) /\ fr2[Len(ctl)] = g
        /\ \A k \in 1 .. Len(ctl) - 1 : fr2[k] = ctl[k]
    BY <1>1, <2>1, <2>3, FrameFacts
  <2> HIDE DEF fr2
  <2>5. FrameInv(ann, code, g)
    BY <2>1, <2>2, <2>3 DEF FrameInv, Branching, Loops
  <2>6. ASSUME NEW i, Waits(ctl, i) PROVE Waits(fr2, i)
    <3>1. PICK k \in 1 .. Len(ctl) : ctl[k].kind \in Branching /\ ctl[k].at = i
      BY <2>6 DEF Waits
    <3>2. k # Len(ctl)
      BY <2>1, <3>1 DEF Frame, Branching
    <3>3. k \in 1 .. Len(ctl) - 1 /\ k \in 1 .. Len(fr2)
      BY <1>1, <2>4, <3>2
    <3> QED BY <2>4, <3>1, <3>3 DEF Waits
  <2>7. \A k \in 1 .. Len(fr2) :
          FrameInv(ann, code, fr2[k]) /\ (k < Len(fr2) => fr2[k].head <= Len(code))
    <3> TAKE k \in 1 .. Len(fr2)
    <3>1. CASE k = Len(ctl)
      BY <1>1, <2>4, <2>5, <3>1
    <3>2. CASE k # Len(ctl)
      <4>1. k \in 1 .. Len(ctl) - 1 /\ k \in 1 .. Len(ctl) /\ k < Len(ctl)
        BY <1>1, <2>4, <3>2
      <4>2. FrameInv(ann, code, ctl[k]) /\ ctl[k].head <= Len(code)
        BY <4>1 DEF Building
      <4> QED BY <2>4, <4>1, <4>2
    <3> QED BY <3>1, <3>2
  <2>8. Building(ann, abs, ts, code, fr2)
    BY <2>4, <2>6, <2>7, Reframe
  <2>9. HeaderClosed(st) = fr2
    BY <1>3 DEF HeaderClosed, fr2, g
  <2> QED BY <2>4, <2>8, <2>9
<1> QED BY <1>2, <1>3

\* A construct opened is a construct.
LEMMA OpenedFrame ==
  ASSUME NEW st \in States, NEW kind \in FrameKinds, NEW at \in Nat, NEW head \in Nat,
         NEW seed \in States, NEW base \in Seq(Types), NEW f,
         f = [kind |-> kind, at |-> at, head |-> head, seed |-> seed, end |-> <<>>, base |-> base,
              types |-> <<>>, entry |-> st]
  PROVE  /\ f \in Frames
         /\ f.kind = kind /\ f.at = at /\ f.head = head /\ f.seed = seed /\ f.base = base
         /\ f.entry = st
<1>1. <<>> \in States /\ <<>> \in Seq(Types)
  BY DEF States
<1> QED BY <1>1 DEF Frames

\* Below the condition of a branch.
LEMMA BelowCondition ==
  ASSUME NEW ann, NEW cd, NEW fr, Building(ann, abs, ts, cd, fr), Deep(1)
  PROVE  LET st2 == Truncate(abs, Len(Rest(1)))
         IN /\ st2 \in States /\ Rest(1) \in Seq(Types) /\ Len(st2) = Len(Rest(1))
            /\ \A c \in Stacks : Covers(abs, ts, c) =>
                 Below(c, 1) \in Stacks /\ Covers(st2, Rest(1), Below(c, 1))
<1> DEFINE st2 == Truncate(abs, Len(Rest(1)))
<1>1. abs \in States /\ ts \in Seq(Types) /\ Len(abs) = Len(ts) /\ Len(ts) \in Nat
  BY DEF Building
<1>2. Rest(1) \in Seq(Types) /\ Len(Rest(1)) = Len(ts) - 1 /\ 1 <= Len(ts)
  BY <1>1, RestFacts
<1>3. st2 = Pop(abs, 1)
  <2>1. GreatestOf(Len(abs) - 1, 0) = Len(Rest(1))
    BY <1>1, <1>2 DEF GreatestOf
  <2> QED BY <2>1 DEF Pop
<1>4. st2 = Below(abs, 1)
  <2>1. LeastOf(Len(Rest(1)), Len(abs)) = Len(abs) - 1
    BY <1>1, <1>2 DEF LeastOf
  <2> QED BY <2>1 DEF Truncate, Below
<1>5. st2 \in States /\ Len(st2) = Len(Rest(1))
  <2>1. Below(abs, 1) \in Seq(Slots) /\ Len(Below(abs, 1)) = Len(abs) - 1
    BY <1>1, <1>2, BelowFacts DEF States
  <2> HIDE DEF st2
  <2> QED BY <1>1, <1>2, <1>4, <2>1 DEF States
<1>6. ASSUME NEW c \in Stacks, Covers(abs, ts, c)
      PROVE  Below(c, 1) \in Stacks /\ Covers(st2, Rest(1), Below(c, 1))
  <2>1. Below(ts, 1) = Rest(1)
    BY DEF Below, Rest
  <2> QED BY <1>1, <1>2, <1>3, <1>6, <2>1, PopCovers
<1> QED BY <1>2, <1>5, <1>6

\* Both branches of a conditional start below the condition.
LEMMA CompileIfBuilds ==
  ASSUME Compiles, CompileIf
  PROVE  Compiles'
<1> DEFINE hc == HeaderClosed(abs')
           f == Opened("then", Len(code) + 1, 0, abs', ts')
<1>1. /\ Deep(1) /\ ts' = Rest(1) /\ abs' = Truncate(abs, Len(ts')) /\ ctl' = Append(hc, f)
      /\ code' = Append(code, Instr("brif", 0))
  BY DEF CompileIf
<1>2. PICK ann : Building(ann, abs, ts, code, ctl)
  BY DEF Compiles
<1>3. /\ abs' \in States /\ ts' \in Seq(Types) /\ Len(abs') = Len(ts')
      /\ \A c \in Stacks : Covers(abs, ts, c) =>
           Below(c, 1) \in Stacks /\ Covers(abs', ts', Below(c, 1))
  BY <1>1, <1>2, BelowCondition
<1>4. Building(ann, abs, ts, code, hc) /\ hc \in Seq(Frames) /\ Len(hc) \in Nat
  BY <1>2, <1>3, HeaderClosedBuilds
<1>5. Len(code) \in Nat /\ abs \in States
  BY CompilerTypes
<1>6. /\ f \in Frames /\ f.kind = "then" /\ f.at = Len(code) + 1 /\ f.head = 0
      /\ f.seed = abs' /\ f.base = ts'
  <2>1. "then" \in FrameKinds /\ Len(code) + 1 \in Nat /\ 0 \in Nat
    BY <1>5 DEF FrameKinds
  <2> QED BY <1>3, <1>5, <2>1, OpenedFrame DEF Opened
<1> HIDE DEF hc, f
<1> DEFINE fr2 == Append(hc, f)
<1>7. /\ fr2 \in Seq(Frames) /\ Len(fr2) = Len(hc) + 1 /\ fr2[Len(fr2)] = f
      /\ \A k \in 1 .. Len(hc) : fr2[k] = hc[k]
  BY <1>4, <1>6, AppendFacts
<1> HIDE DEF fr2
<1>8. /\ \A k \in 1 .. Len(fr2) : k < Len(fr2) => k <= Len(hc) /\ fr2[k] = hc[k]
      /\ \A k \in 1 .. Len(hc) : k < Len(fr2) \/ hc[k].kind \notin Branching
      /\ Len(fr2) > 0
  BY <1>4, <1>7
<1>9. /\ f.kind \in {"then", "while"} /\ Len(f.seed) = Len(f.base) /\ f.head <= Len(code) + 1
      /\ f.kind = "while" => f.head \in 1 .. Len(ann) /\ ann[f.head] = Note(f.entry, f.base)
  BY <1>3, <1>5, <1>6
<1>10. \A c \in Stacks : Covers(abs, ts, c) =>
         /\ Below(c, 1) \in Stacks /\ Covers(abs', ts', Below(c, 1))
         /\ Covers(f.seed, f.base, Below(c, 1))
  BY <1>3, <1>6
<1>11. Building(Append(ann, Note(abs', ts')), abs', ts', Append(code, Instr("brif", 0)), fr2)
  BY <1>3, <1>4, <1>6, <1>7, <1>8, <1>9, <1>10, Branch
<1> QED BY <1>1, <1>11 DEF Compiles, fr2

\* What a state describes, a state it lies within describes.
LEMMA WithinCovers ==
  ASSUME NEW s \in States, NEW t \in States, Within(s, t), NEW ty \in Seq(Types),
         NEW c \in Stacks, Covers(s, ty, c)
  PROVE  Covers(t, ty, c)
<1>1. /\ Len(s) = Len(t) /\ Len(s) = Len(ty) /\ Len(c) = Len(ty) /\ Len(ty) \in Nat
      /\ \A i \in 1 .. Len(s) : SubsetOf(s[i].iv, t[i].iv)
  BY DEF Within, Covers, States
<1>2. ASSUME NEW i \in 1 .. Len(ty) PROVE CoversAt(t, ty, c, i)
  <2>1. Contains(s[i].iv, c[i]) /\ (ty[i] = "bool" => c[i] \in {0, 1})
    BY DEF Covers, CoversAt
  <2>2. s[i] \in Slots /\ t[i] \in Slots /\ c[i] \in Word
    <3>1. s \in Seq(Slots) /\ t \in Seq(Slots) /\ c \in Seq(Word)
      BY DEF States, Stacks
    <3>2. i \in 1 .. Len(s) /\ i \in 1 .. Len(t) /\ i \in 1 .. Len(c)
      BY <1>1
    <3>3. \A S, q : q \in Seq(S) => \A j \in 1 .. Len(q) : q[j] \in S
      OBVIOUS
    <3> QED BY <3>1, <3>2, <3>3
  <2>3. s[i].iv \in Interval /\ t[i].iv \in Interval
    BY <2>2 DEF Slots
  <2>4. SubsetOf(s[i].iv, t[i].iv)
    BY <1>1
  <2>5. Contains(t[i].iv, c[i])
    BY <2>1, <2>2, <2>3, <2>4, LatticeSound
  <2> QED BY <2>1, <2>5 DEF CoversAt
<1> QED BY <1>1, <1>2 DEF Covers

\* A jump changes no stack.
LEMMA JumpSteps ==
  ASSUME NEW st, NEW ty, NEW v \in Int
  PROVE  Instr("br", v) \in Instrs /\ Steps(st, ty, Instr("br", v), st, ty)
<1> DEFINE o == Instr("br", v)
<1>1. o \in Instrs /\ o.op = "br"
  BY DEF Instr, Instrs, Ops
<1> HIDE DEF o
<1>2. ASSUME NEW in \in Inputs, NEW c \in Stacks, NEW r \in Results(o, in, c) PROVE r = c
  <2>1. ResultArm(o, in, c, At(c, 2), At(c, 1), r)
    BY ResultArms
  <2> QED BY <1>1, <2>1 DEF ResultArm
<1>3. Steps(st, ty, o, st, ty)
  BY <1>1, <1>2 DEF Steps, Judged
<1> QED BY <1>1, <1>3 DEF o

\* Heads of open loops are not past the end of the code.
LEMMA HeadsBounded ==
  ASSUME NEW ann, NEW st, NEW ty, NEW cd, NEW fr, Building(ann, st, ty, cd, fr),
         NEW k \in 1 .. Len(fr)
  PROVE  fr[k] \in Frames /\ fr[k].head \in Nat /\ fr[k].head <= Len(cd) + 1
<1>1. fr \in Seq(Frames) /\ FrameInv(ann, cd, fr[k]) /\ Len(ann) = Len(cd) + 1
  BY DEF Building
<1>2. fr[k] \in Frames
  BY <1>1
<1> QED BY <1>1, <1>2 DEF FrameInv, Frames

\* The loop's head is the position after the jump, with the state the loop is
\* entered with.
LEMMA CompileWhileBuilds ==
  ASSUME Compiles, CompileWhile
  PROVE  Compiles'
<1> DEFINE hc == HeaderClosed(abs)
           f == Opened("header", 0, Len(code) + 2, <<>>, ts)
           o == Instr("br", Len(code) + 2)
           fr2 == Append(hc, f)
           cd2 == Append(code, o)
<1>1. ctl' = fr2 /\ code' = cd2 /\ abs' = abs /\ ts' = ts
  BY DEF CompileWhile
<1>2. PICK ann : Building(ann, abs, ts, code, ctl)
  BY DEF Compiles
<1>3. abs \in States /\ ts \in Seq(Types) /\ Len(abs) = Len(ts) /\ Len(code) \in Nat
      /\ code \in Seq(Instrs)
  BY CompilerTypes
<1>4. Building(ann, abs, ts, code, hc) /\ hc \in Seq(Frames) /\ Len(hc) \in Nat
  BY <1>2, <1>3, HeaderClosedBuilds
<1>5. /\ f \in Frames /\ f.kind = "header" /\ f.head = Len(code) + 2 /\ f.base = ts
      /\ f.entry = abs
  <2>1. "header" \in FrameKinds /\ Len(code) + 2 \in Nat /\ 0 \in Nat /\ <<>> \in States
    BY <1>3 DEF FrameKinds, States
  <2> QED BY <1>3, <2>1, OpenedFrame, SMTT(20) DEF Opened
<1> HIDE DEF f, hc
<1> DEFINE bnn == Append(ann, Note(abs, ts))
<1>6. Building(bnn, abs, ts, cd2, hc)
  <2>1. o \in Instrs /\ Steps(abs, ts, o, abs, ts)
    BY <1>3, JumpSteps
  <2>2. Straight(o, Len(code) + 1) /\ o.op # "ret"
    BY <1>3 DEF Straight, Instr
  <2> HIDE DEF o
  <2> QED BY <1>3, <1>4, <2>1, <2>2, Extend
<1>7. o \in Instrs
  BY <1>3, JumpSteps
<1> HIDE DEF bnn, o
<1>8. Len(cd2) = Len(code) + 1
  BY <1>3, <1>7, AppendFacts
<1> HIDE DEF cd2
<1>9. /\ fr2 \in Seq(Frames) /\ Len(fr2) = Len(hc) + 1 /\ fr2[Len(hc) + 1] = f
      /\ \A k \in 1 .. Len(hc) : fr2[k] = hc[k]
  BY <1>4, <1>5, AppendFacts
<1> HIDE DEF fr2
<1>10. FrameInv(bnn, cd2, f)
  <2>1. Len(bnn) = Len(cd2) + 1 /\ bnn[Len(bnn)] = Note(abs, ts)
    BY <1>6 DEF Building
  <2>2. f.head = Len(bnn)
    BY <1>5, <1>8, <2>1
  <2>3. f.head \in 1 .. Len(bnn)
    BY <1>3, <1>5, <2>2
  <2> QED BY <1>5, <2>1, <2>2, <2>3 DEF FrameInv, Branching, Loops
<1>11. \A k \in 1 .. Len(fr2) :
         FrameInv(bnn, cd2, fr2[k]) /\ (k < Len(fr2) => fr2[k].head <= Len(cd2))
  <2> TAKE k \in 1 .. Len(fr2)
  <2>1. CASE k = Len(hc) + 1
    BY <1>4, <1>9, <1>10, <2>1
  <2>2. CASE k # Len(hc) + 1
    <3>1. k \in 1 .. Len(hc) /\ fr2[k] = hc[k]
      BY <1>4, <1>9, <2>2
    <3>2. FrameInv(bnn, cd2, hc[k])
      BY <1>6, <3>1 DEF Building
    <3>3. hc[k].head <= Len(cd2)
      BY <1>4, <1>8, <3>1, HeadsBounded
    <3> QED BY <3>1, <3>2, <3>3
  <2> QED BY <2>1, <2>2
<1>12. \A i : Waits(hc, i) => Waits(fr2, i)
  <2> SUFFICES ASSUME NEW i, NEW k \in 1 .. Len(hc), hc[k].kind \in Branching, hc[k].at = i
               PROVE  Waits(fr2, i)
    BY DEF Waits
  <2>1. k \in 1 .. Len(fr2) /\ fr2[k] = hc[k]
    BY <1>4, <1>9
  <2> QED BY <2>1 DEF Waits
<1>13. Building(bnn, abs, ts, cd2, fr2)
  BY <1>6, <1>9, <1>11, <1>12, Reframe
<1> QED BY <1>1, <1>13 DEF Compiles, fr2, cd2

\* The condition leaves a truth value above the types at the loop's head.
LEMMA AboveBase ==
  ASSUME NEW base \in Seq(Types), ts = Append(base, "bool")
  PROVE  Deep(1) /\ Rest(1) = base
<1>1. /\ "bool" \in Types /\ Len(base) \in Nat
  BY DEF Types
<1>2. /\ ts \in Seq(Types) /\ Len(ts) = Len(base) + 1
      /\ \A i \in 1 .. Len(base) : ts[i] = base[i]
  BY <1>1, AppendFacts
<1>3. Len(ts) - 1 = Len(base) /\ Deep(1)
  BY <1>1, <1>2 DEF Deep
<1>4. /\ Rest(1) \in Seq(Types) /\ Len(Rest(1)) = Len(base)
      /\ \A i \in 1 .. Len(base) : Rest(1)[i] = base[i]
  <2>1. Rest(1) = Below(ts, 1)
    BY DEF Rest, Below
  <2>2. Below(ts, 1) \in Seq(Types) /\ Len(Below(ts, 1)) = Len(ts) - 1
        /\ \A i \in 1 .. Len(ts) - 1 : Below(ts, 1)[i] = ts[i]
    <3>1. 1 \in Nat /\ 1 <= Len(ts)
      BY <1>1, <1>2
    <3> QED BY <1>2, <3>1, BelowFacts
  <2> QED BY <1>2, <1>3, <2>1, <2>2
<1>5. Rest(1) = base
  <2> DEFINE r == Rest(1)
  <2>1. r \in Seq(Types) /\ Len(r) = Len(base) /\ \A i \in 1 .. Len(base) : r[i] = base[i]
    BY <1>4
  <2> HIDE DEF r
  <2>2. r = base
    BY <2>1
  <2> QED BY <2>2 DEF r
<1> QED BY <1>3, <1>5

\* The condition's branch: where it leaves the loop, the seed describes the
\* stack, which is what `exact' asks of a condition of several blocks.
LEMMA WhileBodyBuilds ==
  ASSUME Compiles, WhileBody, exact'
  PROVE  Compiles'
<1> DEFINE f == [Frame EXCEPT !.kind = "while", !.at = Len(code) + 1,
                              !.seed = IF Inside({"header"}) THEN abs' ELSE @]
           fr2 == Append(Outer, f)
<1>1. /\ Inside({"header", "cond"}) /\ ts = Append(Frame.base, "bool")
      /\ code' = Append(code, Instr("brif", 0)) /\ abs' = Truncate(abs, Len(Frame.base))
      /\ ts' = Frame.base /\ ctl' = fr2
      /\ Inside({"cond"}) => Within(abs', Frame.seed)
  BY DEF WhileBody
<1>2. PICK ann : Building(ann, abs, ts, code, ctl)
  BY DEF Compiles
<1>3. ctl # <<>> /\ Frame.kind \in {"header", "cond"}
  BY <1>1 DEF Inside
<1>4. Frame \in Frames /\ FrameInv(ann, code, Frame) /\ Frame.base \in Seq(Types)
      /\ Frame.seed \in States /\ Frame.head \in Nat /\ Len(ctl) \in Nat
  <2>1. Frame \in Frames /\ FrameInv(ann, code, Frame)
    BY <1>2, <1>3, FrameKnown
  <2> QED BY <2>1, CompilerTypes DEF Frames
<1>5. Deep(1) /\ Rest(1) = Frame.base
  BY <1>1, <1>4, AboveBase
<1>6. /\ abs' \in States /\ ts' \in Seq(Types) /\ Len(abs') = Len(ts')
      /\ \A c \in Stacks : Covers(abs, ts, c) =>
           Below(c, 1) \in Stacks /\ Covers(abs', ts', Below(c, 1))
  BY <1>1, <1>2, <1>5, BelowCondition
<1>7. Len(code) \in Nat /\ ctl \in Seq(Frames)
  BY CompilerTypes
<1>8. /\ f \in Frames /\ f.kind = "while" /\ f.at = Len(code) + 1 /\ f.head = Frame.head
      /\ f.base = ts' /\ f.entry = Frame.entry
      /\ f.seed = IF Inside({"header"}) THEN abs' ELSE Frame.seed
  <2> DEFINE s == IF Inside({"header"}) THEN abs' ELSE Frame.seed
             g == Frame
  <2>1. s \in States
    BY <1>4, <1>6
  <2>2. f = [g EXCEPT !.kind = "while", !.at = Len(code) + 1, !.seed = s]
    OBVIOUS
  <2>3. g \in Frames /\ ts' = g.base
    BY <1>1, <1>4
  <2> HIDE DEF s, f, g
  <2>4. f.kind = "while" /\ f.at = Len(code) + 1 /\ f.head = g.head /\ f.seed = s
        /\ f.base = g.base /\ f.entry = g.entry
    BY <2>2, <2>3 DEF Frames
  <2>5. f \in Frames
    <3>1. f = [kind |-> "while", at |-> Len(code) + 1, head |-> g.head, seed |-> s,
               end |-> g.end, base |-> g.base, types |-> g.types, entry |-> g.entry]
      BY <2>2, <2>3 DEF Frames
    <3>2. g.head \in Nat /\ g.end \in States /\ g.base \in Seq(Types) /\ g.types \in Seq(Types)
          /\ g.entry \in States
      BY <2>3 DEF Frames
    <3> HIDE DEF States
    <3>3. "while" \in FrameKinds /\ Len(code) + 1 \in Nat
      BY <1>7 DEF FrameKinds
    <3> QED BY <2>1, <3>1, <3>2, <3>3 DEF Frames
  <2> QED BY <2>3, <2>4, <2>5 DEF s, g
<1> HIDE DEF f
<1>9. Within(abs', f.seed) \/ f.seed = abs'
  BY <1>1, <1>8 DEF Inside
<1>10. /\ Len(f.seed) = Len(f.base)
       /\ \A c \in Stacks : Covers(abs, ts, c) =>
            /\ Below(c, 1) \in Stacks /\ Covers(abs', ts', Below(c, 1))
            /\ Covers(f.seed, f.base, Below(c, 1))
  <2>1. f.seed \in States
    BY <1>8 DEF Frames
  <2>2. CASE Within(abs', f.seed)
    <3>1. Len(f.seed) = Len(f.base)
      BY <1>6, <1>8, <2>2 DEF Within
    <3>2. \A c \in Stacks : Covers(abs', ts', c) => Covers(f.seed, f.base, c)
      BY <1>6, <1>8, <2>1, <2>2, WithinCovers
    <3> QED BY <1>6, <3>1, <3>2
  <2>3. CASE f.seed = abs'
    BY <1>6, <1>8, <2>3
  <2> QED BY <1>9, <2>2, <2>3
<1>11. /\ f.head <= Len(code) + 1
       /\ f.head \in 1 .. Len(ann) /\ ann[f.head] = Note(f.entry, f.base)
  <2>1. f.head \in 1 .. Len(ann) /\ ann[f.head] = Note(f.entry, f.base)
    <3>1. Frame.head \in 1 .. Len(ann) /\ ann[Frame.head] = Note(Frame.entry, Frame.base)
      BY <1>3, <1>4 DEF FrameInv, Loops
    <3> QED BY <1>1, <1>8, <3>1
  <2>2. Len(ann) = Len(code) + 1
    BY <1>2 DEF Building
  <2> QED BY <1>7, <2>1, <2>2
<1>12. /\ fr2 \in Seq(Frames) /\ Len(fr2) = Len(ctl) /\ fr2[Len(fr2)] = f /\ Len(fr2) > 0
       /\ \A k \in 1 .. Len(ctl) - 1 : fr2[k] = ctl[k]
  BY <1>3, <1>7, <1>8, FrameFacts
<1> HIDE DEF fr2
<1>13. /\ \A k \in 1 .. Len(fr2) : k < Len(fr2) => k <= Len(ctl) /\ fr2[k] = ctl[k]
       /\ \A k \in 1 .. Len(ctl) : k < Len(fr2) \/ ctl[k].kind \notin Branching
  <2>1. \A k \in 1 .. Len(ctl) : k < Len(ctl) => k \in 1 .. Len(ctl) - 1
    BY <1>4
  <2>2. \A k \in 1 .. Len(ctl) : k < Len(ctl) \/ k = Len(ctl)
    BY <1>4
  <2>3. ctl[Len(ctl)].kind \notin Branching
    BY <1>3 DEF Frame, Branching
  <2> QED BY <1>12, <2>1, <2>2, <2>3
<1>14. Building(Append(ann, Note(abs', ts')), abs', ts', Append(code, Instr("brif", 0)), fr2)
  BY <1>2, <1>6, <1>8, <1>10, <1>11, <1>12, <1>13, Branch
<1> QED BY <1>1, <1>14 DEF Compiles, fr2


Filled(cd, at, v) == [cd EXCEPT ![at].v = v]

\* A branch's target is filled in: nothing else changes.
LEMMA TargetFilled ==
  ASSUME NEW cd \in Seq(Instrs), NEW at \in 1 .. Len(cd), NEW v \in Int, NEW cd2,
         cd2 = Filled(cd, at, v)
  PROVE  /\ cd2 \in Seq(Instrs) /\ Len(cd2) = Len(cd)
         /\ cd2[at].op = cd[at].op /\ cd2[at].v = v
         /\ \A i \in 1 .. Len(cd) : cd2[i].op = cd[i].op /\ (i # at => cd2[i] = cd[i])
<1> DEFINE o == [cd[at] EXCEPT !.v = v]
<1>1. cd[at] \in Instrs /\ \A i \in 1 .. Len(cd) : cd[i] \in Instrs
  OBVIOUS
<1>2. o \in Instrs /\ o.op = cd[at].op /\ o.v = v
  BY <1>1 DEF Instrs
<1>3. cd2 = [cd EXCEPT ![at] = o]
  BY DEF Filled
<1> HIDE DEF o, Instrs
<1>4. cd2 \in Seq(Instrs) /\ Len(cd2) = Len(cd)
  BY <1>2, <1>3
<1>5. cd2[at] = o /\ \A i \in 1 .. Len(cd) : i # at => cd2[i] = cd[i]
  BY <1>3
<1> QED BY <1>2, <1>4, <1>5

\* A join describes what either side describes.
LEMMA HullCovers ==
  ASSUME NEW s \in States, NEW t \in States, Len(s) = Len(t)
  PROVE  /\ HullState(s, t, Len(s)) \in States /\ Len(HullState(s, t, Len(s))) = Len(s)
         /\ \A ty \in Seq(Types), c \in Stacks :
              Covers(s, ty, c) \/ Covers(t, ty, c) => Covers(HullState(s, t, Len(s)), ty, c)
<1> DEFINE h == HullState(s, t, Len(s))
<1>1. Len(s) \in Nat /\ s \in Seq(Slots) /\ t \in Seq(Slots)
  BY DEF States
<1>2. LeastOf(Len(s), LeastOf(Len(s), Len(t))) = Len(s)
  BY <1>1 DEF LeastOf
<1>3. h = [i \in 1 .. Len(s) |-> HullSlot(s[i], t[i])]
  BY <1>2 DEF HullState
<1>4. ASSUME NEW i \in 1 .. Len(s)
      PROVE  s[i] \in Slots /\ t[i] \in Slots /\ HullSlot(s[i], t[i]) \in Slots
             /\ HullSlot(s[i], t[i]).iv = Join(s[i].iv, t[i].iv)
  <2>1. s[i] \in Slots /\ t[i] \in Slots
    BY <1>1
  <2>2. Join(s[i].iv, t[i].iv) \in Interval
    BY <2>1, IntervalTypes DEF Slots
  <2> QED BY <2>1, <2>2 DEF HullSlot, Slots, OrgComputed
<1> HIDE DEF h
<1>5. h \in Seq(Slots) /\ Len(h) = Len(s)
  BY <1>1, <1>3, <1>4
<1>6. ASSUME NEW ty \in Seq(Types), NEW c \in Stacks, Covers(s, ty, c) \/ Covers(t, ty, c)
      PROVE  Covers(h, ty, c)
  <2>1. Len(s) = Len(ty) /\ Len(c) = Len(ty) /\ c \in Seq(Word)
    BY <1>6 DEF Covers, Stacks
  <2>2. ASSUME NEW i \in 1 .. Len(ty) PROVE CoversAt(h, ty, c, i)
    <3>1. h[i].iv = Join(s[i].iv, t[i].iv) /\ c[i] \in Word
          /\ s[i].iv \in Interval /\ t[i].iv \in Interval
      <4>1. h[i] = HullSlot(s[i], t[i]) /\ s[i] \in Slots /\ t[i] \in Slots
            /\ HullSlot(s[i], t[i]).iv = Join(s[i].iv, t[i].iv)
        BY <1>3, <1>4, <2>1
      <4>2. c[i] \in Word
        BY <2>1
      <4> QED BY <4>1, <4>2 DEF Slots
    <3>2. /\ Contains(s[i].iv, c[i]) \/ Contains(t[i].iv, c[i])
          /\ ty[i] = "bool" => c[i] \in {0, 1}
      BY <1>6 DEF Covers, CoversAt
    <3> QED BY <3>1, <3>2, LatticeSound DEF CoversAt
  <2> QED BY <1>5, <2>1, <2>2 DEF Covers
<1> QED BY <1>5, <1>6 DEF h, States

\* A widened state describes what the header's state describes.
LEMMA WidenCovers ==
  ASSUME NEW s \in States, NEW t \in States, Len(s) = Len(t)
  PROVE  /\ WidenState(s, t, Len(s)) \in States /\ Len(WidenState(s, t, Len(s))) = Len(s)
         /\ \A ty \in Seq(Types), c \in Stacks :
              Covers(s, ty, c) => Covers(WidenState(s, t, Len(s)), ty, c)
<1> DEFINE h == WidenState(s, t, Len(s))
<1>1. Len(s) \in Nat /\ s \in Seq(Slots) /\ t \in Seq(Slots)
  BY DEF States
<1>2. LeastOf(Len(s), LeastOf(Len(s), Len(t))) = Len(s)
  BY <1>1 DEF LeastOf
<1>3. h = [i \in 1 .. Len(s) |-> WidenSlot(s[i], t[i])]
  BY <1>2 DEF WidenState
<1>4. ASSUME NEW i \in 1 .. Len(s)
      PROVE  s[i] \in Slots /\ WidenSlot(s[i], t[i]) \in Slots
             /\ WidenSlot(s[i], t[i]).iv \in {s[i].iv, Top}
  <2>1. s[i] \in Slots /\ t[i] \in Slots
    BY <1>1
  <2> QED BY <2>1, IntervalTypes DEF WidenSlot, Slots, OrgComputed
<1> HIDE DEF h
<1>5. h \in Seq(Slots) /\ Len(h) = Len(s)
  BY <1>1, <1>3, <1>4
<1>6. ASSUME NEW ty \in Seq(Types), NEW c \in Stacks, Covers(s, ty, c)
      PROVE  Covers(h, ty, c)
  <2>1. Len(s) = Len(ty) /\ Len(c) = Len(ty)
    BY <1>6 DEF Covers
  <2>2. ASSUME NEW i \in 1 .. Len(ty) PROVE CoversAt(h, ty, c, i)
    <3>1. h[i].iv \in {s[i].iv, Top}
      BY <1>3, <1>4, <2>1
    <3>2. Contains(s[i].iv, c[i]) /\ (ty[i] = "bool" => c[i] \in {0, 1})
      BY <1>6 DEF Covers, CoversAt
    <3>3. Contains(Top, c[i])
      BY DEF Contains, Top
    <3> QED BY <3>1, <3>2, <3>3 DEF CoversAt
  <2> QED BY <1>5, <2>1, <2>2 DEF Covers
<1> QED BY <1>5, <1>6 DEF h, States

\* A branch whose target is known goes where a stack is described.
LEMMA BranchSettled ==
  ASSUME NEW ann \in Seq(Notes), NEW bnn \in Seq(Notes), Weaker(ann, bnn),
         NEW f, Leaves(ann, f), f.at \in 1 .. Len(ann) - 1, NEW o, o.op = "brif",
         \A r \in Stacks : Covers(f.seed, f.base, r) => Goes(bnn, o.v, r)
  PROVE  StepOK(bnn, o, f.at)
<1> SUFFICES ASSUME NEW in \in Inputs, NEW c \in Stacks, Held(bnn[f.at], c),
                    NEW r \in Results(o, in, c)
             PROVE  Judged(o, c) /\ Goes(bnn, Target(o, f.at, c), r)
  <2>1. \A in \in Inputs, c \in Stacks : Judged(o, c)
    BY DEF Judged
  <2> QED BY <2>1 DEF StepOK
<1>1. Held(ann[f.at], c)
  BY DEF Weaker
<1>2. Goes(ann, f.at + 1, Below(c, 1)) /\ Covers(f.seed, f.base, Below(c, 1))
  BY <1>1 DEF Leaves
<1>3. r = Below(c, 1) /\ r \in Stacks
  <2>1. ResultArm(o, in, c, At(c, 2), At(c, 1), r)
    BY ResultArms
  <2> QED BY <1>2, <2>1 DEF ResultArm, Goes
<1>4. Goes(bnn, f.at + 1, r) /\ Goes(bnn, o.v, r)
  BY <1>2, <1>3, GoesKept
<1>5. Target(o, f.at, c) \in {f.at + 1, o.v}
  BY DEF Target
<1> QED BY <1>4, <1>5 DEF Judged

\* A jump goes to its target with the stack it has.
LEMMA JumpSettled ==
  ASSUME NEW bnn, NEW o, o.op = "br", NEW i,
         \A c \in Stacks : Held(bnn[i], c) => Goes(bnn, o.v, c)
  PROVE  StepOK(bnn, o, i)
<1> SUFFICES ASSUME NEW in \in Inputs, NEW c \in Stacks, Held(bnn[i], c),
                    NEW r \in Results(o, in, c)
             PROVE  Judged(o, c) /\ Goes(bnn, Target(o, i, c), r)
  <2>1. \A in \in Inputs, c \in Stacks : Judged(o, c)
    BY DEF Judged
  <2> QED BY <2>1 DEF StepOK
<1>1. r = c
  <2>1. ResultArm(o, in, c, At(c, 2), At(c, 1), r)
    BY ResultArms
  <2> QED BY <2>1 DEF ResultArm
<1>2. Target(o, i, c) = o.v
  BY DEF Target
<1> QED BY <1>1, <1>2 DEF Judged

\* A construct that waits at a jump for the end of its other branch.
WaitsAt(g, at, st, ty, n) ==
  g.kind = "else" /\ g.at = at /\ g.head <= n /\ g.end = st /\ g.types = ty

\* The jump that ends a branch or a loop's body is emitted and the branch
\* before it lands after it; the construct is closed (the jump is known to
\* go where the stack is described) or waits at the jump.
LEMMA Landed ==
  ASSUME NEW ann, NEW st, NEW ty, NEW cd, NEW fr, Building(ann, st, ty, cd, fr),
         NEW f, Len(fr) > 0, f = fr[Len(fr)], f.kind \in {"then", "while"},
         NEW st2 \in States, NEW ty2 \in Seq(Types), Len(st2) = Len(ty2),
         \A c \in Stacks : Covers(f.seed, f.base, c) => Covers(st2, ty2, c),
         NEW o \in Instrs, o.op = "br",
         NEW fr2 \in Seq(Frames), Len(fr2) \in {Len(fr) - 1, Len(fr)},
         \A k \in 1 .. Len(fr) - 1 : fr2[k] = fr[k],
         \/ /\ Len(fr2) = Len(fr) - 1
            /\ o.v \in 1 .. Len(ann)
            /\ \A c \in Stacks : Covers(st, ty, c) => Held(ann[o.v], c)
         \/ /\ Len(fr2) = Len(fr)
            /\ WaitsAt(fr2[Len(fr)], Len(cd) + 1, st, ty, Len(ann)),
         NEW cd2, cd2 = Filled(Append(cd, o), f.at, Len(cd) + 2)
  PROVE  Building(Append(ann, Note(st2, ty2)), st2, ty2, cd2, fr2)
<1> DEFINE n == Note(st2, ty2)
           bnn == Append(ann, n)
           cd1 == Append(cd, o)
           g == fr2[Len(fr)]
<1>1. /\ cd \in Seq(Instrs) /\ fr \in Seq(Frames) /\ ann \in Seq(Notes) /\ Len(ann) = Len(cd) + 1
      /\ Len(cd) \in Nat /\ Len(fr) \in Nat \ {0} /\ ann[Len(ann)] = Note(st, ty)
      /\ st \in States /\ ty \in Seq(Types) /\ Len(st) = Len(ty) /\ Len(fr2) \in Nat
      /\ \A k \in 1 .. Len(fr) :
           FrameInv(ann, cd, fr[k]) /\ (k < Len(fr) => fr[k].head <= Len(cd))
  BY DEF Building
<1>2. n \in Notes /\ Len(ann) > 0
  BY <1>1, NoteFacts
<1>3. /\ bnn \in Seq(Notes) /\ Weaker(ann, bnn) /\ Len(bnn) = Len(ann) + 1 /\ bnn[Len(bnn)] = n
      /\ \A i \in 1 .. Len(ann) : bnn[i] = ann[i]
  BY <1>1, <1>2, NotesAdded
<1>4. /\ cd1 \in Seq(Instrs) /\ Len(cd1) = Len(cd) + 1 /\ cd1[Len(cd) + 1] = o
      /\ \A i \in 1 .. Len(cd) : cd1[i] = cd[i]
  BY <1>1, AppendFacts
<1>5. f \in Frames /\ FrameInv(ann, cd, f)
  BY <1>1
<1>6. f.at \in 1 .. Len(cd) /\ cd[f.at].op = "brif" /\ Leaves(ann, f) /\ f.kind \in Branching
  BY <1>5 DEF FrameInv, Branching
<1>7. \A c : Held(bnn[Len(cd) + 2], c) <=> Covers(st2, ty2, c)
  <2>1. bnn[Len(cd) + 2] = n
    BY <1>1, <1>3
  <2> QED BY <2>1, NoteFacts DEF n
<1>8. \A c : Held(bnn[Len(cd) + 1], c) <=> Covers(st, ty, c)
  <2>1. bnn[Len(cd) + 1] = Note(st, ty)
    BY <1>1, <1>3
  <2> QED BY <1>1, <2>1, NoteFacts
<1> HIDE DEF n, bnn, cd1, g
<1>9. /\ cd2 \in Seq(Instrs) /\ Len(cd2) = Len(cd) + 1
      /\ cd2[f.at].op = "brif" /\ cd2[f.at].v = Len(cd) + 2 /\ cd2[Len(cd) + 1] = o
      /\ \A i \in 1 .. Len(cd) : cd2[i].op = cd[i].op /\ (i # f.at => cd2[i] = cd[i])
  <2>1. f.at \in 1 .. Len(cd1) /\ Len(cd) + 2 \in Int /\ cd2 = Filled(cd1, f.at, Len(cd) + 2)
    BY <1>1, <1>4, <1>6 DEF cd1
  <2>2. /\ cd2 \in Seq(Instrs) /\ Len(cd2) = Len(cd1)
        /\ cd2[f.at].op = cd1[f.at].op /\ cd2[f.at].v = Len(cd) + 2
        /\ \A i \in 1 .. Len(cd1) : cd2[i].op = cd1[i].op /\ (i # f.at => cd2[i] = cd1[i])
    <3> DEFINE at == f.at
               v == Len(cd) + 2
               e == Filled(cd1, at, v)
    <3>0. cd1 \in Seq(Instrs) /\ at \in 1 .. Len(cd1) /\ v \in Int /\ cd2 = e
      BY <1>4, <2>1
    <3> HIDE DEF at, v
    <3>1. /\ e \in Seq(Instrs) /\ Len(e) = Len(cd1) /\ e[at].op = cd1[at].op /\ e[at].v = v
          /\ \A i \in 1 .. Len(cd1) : e[i].op = cd1[i].op /\ (i # at => e[i] = cd1[i])
      <4>1. cd1 \in Seq(Instrs) /\ at \in 1 .. Len(cd1) /\ v \in Int
        BY <3>0
      <4> QED BY <4>1, TargetFilled
    <3> HIDE DEF e
    <3> QED BY <3>0, <3>1 DEF at, v
  <2>3. \A i \in 1 .. Len(cd) : i \in 1 .. Len(cd1) /\ cd1[i] = cd[i]
    BY <1>1, <1>4
  <2>4. Len(cd) + 1 \in 1 .. Len(cd1) /\ Len(cd) + 1 # f.at
    BY <1>1, <1>4, <1>6
  <2> QED BY <1>4, <1>6, <2>2, <2>3, <2>4
<1>10. StepOK(bnn, cd2[f.at], f.at)
  <2>1. ASSUME NEW r \in Stacks, Covers(f.seed, f.base, r) PROVE Goes(bnn, cd2[f.at].v, r)
    <3>1. Len(cd) + 2 \in 1 .. Len(bnn)
      BY <1>1, <1>3
    <3> QED BY <1>7, <1>9, <2>1, <3>1 DEF Goes
  <2>2. f.at \in 1 .. Len(ann) - 1
    BY <1>1, <1>6
  <2> QED BY <1>1, <1>3, <1>6, <1>9, <2>1, <2>2, BranchSettled
<1>11. ASSUME Len(fr2) = Len(fr) - 1 PROVE StepOK(bnn, cd2[Len(cd) + 1], Len(cd) + 1)
  <2>1. /\ o.v \in 1 .. Len(ann)
        /\ \A c \in Stacks : Covers(st, ty, c) => Held(ann[o.v], c)
    BY <1>1, <1>11
  <2>2. ASSUME NEW c \in Stacks, Held(bnn[Len(cd) + 1], c) PROVE Goes(bnn, o.v, c)
    <3>1. Held(ann[o.v], c)
      BY <1>8, <2>1, <2>2
    <3>2. bnn[o.v] = ann[o.v] /\ o.v \in 1 .. Len(bnn)
      BY <1>1, <1>3, <2>1
    <3> QED BY <3>1, <3>2 DEF Goes
  <2> QED BY <1>9, <2>2, JumpSettled
<1>12. ASSUME Len(fr2) = Len(fr)
       PROVE  FrameInv(bnn, cd2, g) /\ Waits(fr2, Len(cd) + 1) /\ g = fr2[Len(fr)]
  <2>1. /\ g = fr2[Len(fr)] /\ g.kind = "else" /\ g.at = Len(cd) + 1 /\ g.head <= Len(ann)
        /\ g.end = st /\ g.types = ty
    BY <1>1, <1>12 DEF WaitsAt, g
  <2>2. Joins(bnn, g)
    BY <1>8, <2>1 DEF Joins
  <2>3. g.at \in 1 .. Len(cd2) /\ cd2[g.at].op = "br" /\ g.head <= Len(bnn)
    <3>1. g \in Frames
      BY <1>1, <1>12, <2>1
    <3>2. g.head \in Nat
      BY <3>1 DEF Frames
    <3> QED BY <1>1, <1>3, <1>9, <2>1, <3>2
  <2>4. FrameInv(bnn, cd2, g)
    BY <1>1, <2>1, <2>2, <2>3 DEF FrameInv, Loops
  <2>5. Len(fr) \in 1 .. Len(fr2)
    BY <1>1, <1>12
  <2> QED BY <2>1, <2>4, <2>5 DEF Waits, Branching
<1>13. \A i \in 1 .. Len(cd2) : ~Waits(fr2, i) =>
         \/ StepOK(bnn, cd2[i], i)
         \/ i <= Len(cd) /\ cd2[i] = cd[i] /\ ~Waits(fr, i)
  <2> SUFFICES ASSUME NEW i \in 1 .. Len(cd2), ~Waits(fr2, i)
               PROVE  \/ StepOK(bnn, cd2[i], i)
                      \/ i <= Len(cd) /\ cd2[i] = cd[i] /\ ~Waits(fr, i)
    OBVIOUS
  <2>1. CASE i = f.at
    BY <1>10, <2>1
  <2>2. CASE i = Len(cd) + 1
    BY <1>1, <1>11, <1>12, <2>2
  <2>3. CASE i # f.at /\ i # Len(cd) + 1
    <3>1. i \in 1 .. Len(cd) /\ i <= Len(cd)
      BY <1>1, <1>9, <2>3
    <3>2. ~Waits(fr, i)
      <4> SUFFICES ASSUME NEW k \in 1 .. Len(fr), fr[k].kind \in Branching, fr[k].at = i
                   PROVE  FALSE
        BY DEF Waits
      <4>1. k # Len(fr)
        BY <2>3
      <4>2. k \in 1 .. Len(fr) - 1 /\ k \in 1 .. Len(fr2)
        BY <1>1, <4>1
      <4>3. fr2[k] = fr[k]
        BY <4>2
      <4> QED BY <4>2, <4>3 DEF Waits
    <3> QED BY <1>9, <2>3, <3>1, <3>2
  <2> QED BY <2>1, <2>2, <2>3
<1>14. bnn[1] = ann[1] /\ bnn[Len(ann)] = ann[Len(ann)] /\ Len(bnn) = Len(cd2) + 1
       /\ Len(cd) <= Len(cd2)
  <2>1. 1 \in 1 .. Len(ann) /\ Len(ann) \in 1 .. Len(ann)
    BY <1>1
  <2>2. bnn[1] = ann[1] /\ bnn[Len(ann)] = ann[Len(ann)]
    BY <1>3, <2>1
  <2>3. Len(bnn) = Len(cd2) + 1 /\ Len(cd) <= Len(cd2)
    BY <1>1, <1>3, <1>9
  <2> QED BY <2>2, <2>3
<1>15. \A k \in 1 .. Len(fr2) :
         /\ \/ FrameInv(bnn, cd2, fr2[k])
            \/ /\ k <= Len(fr) /\ fr2[k] = fr[k]
               /\ fr[k].head <= Len(cd) \/ bnn[Len(ann)] = ann[Len(ann)]
         /\ k < Len(fr2) => fr2[k].head <= Len(cd2)
  <2> TAKE k \in 1 .. Len(fr2)
  <2>1. CASE k = Len(fr)
    <3>1. Len(fr2) = Len(fr) /\ ~(k < Len(fr2))
      BY <1>1, <2>1
    <3> QED BY <1>1, <1>12, <2>1, <3>1
  <2>2. CASE k # Len(fr)
    <3>1. k \in 1 .. Len(fr) - 1 /\ k \in 1 .. Len(fr) /\ k < Len(fr) /\ k <= Len(fr)
      BY <1>1, <2>2
    <3>2. fr2[k] = fr[k] /\ fr[k].head <= Len(cd) /\ fr[k] \in Frames
      BY <1>1, <3>1
    <3>3. fr[k].head \in Nat
      BY <3>2 DEF Frames
    <3>4. fr2[k].head <= Len(cd2)
      BY <1>1, <1>9, <3>2, <3>3
    <3> QED BY <3>1, <3>2, <3>4
  <2> QED BY <2>1, <2>2
<1>16. /\ \A i \in 1 .. Len(cd) : cd2[i].op = cd[i].op
       /\ \A i \in 1 .. Len(cd2) : i > Len(cd) => cd2[i].op # "ret"
  <2>1. \A i \in 1 .. Len(cd2) : i > Len(cd) => i = Len(cd) + 1
    BY <1>1, <1>9
  <2> QED BY <1>9, <2>1
<1> QED
  <2>1. Building(bnn, st2, ty2, cd2, fr2)
    <3>1. bnn[Len(bnn)] = Note(st2, ty2)
      BY <1>3 DEF n
    <3>2. bnn \in Seq(Notes) /\ Weaker(ann, bnn) /\ cd2 \in Seq(Instrs)
      BY <1>3, <1>9
    <3>3. StepsOn(bnn, cd, fr, cd2, fr2)
      BY <1>13 DEF StepsOn
    <3>4. FramesOn(ann, bnn, cd, fr, cd2, fr2)
      BY <1>15 DEF FramesOn
    <3>5. Builds(ann, st, ty, cd, fr, bnn, st2, ty2, cd2, fr2)
      BY <1>14, <1>16, <3>1, <3>2, <3>3, <3>4 DEF Builds
    <3> QED BY <3>5, BuiltOn
  <2> QED BY <2>1 DEF bnn, n

\* The else branch starts from the seed; the first branch waits with its end.
LEMMA CompileElseBuilds ==
  ASSUME Compiles, CompileElse
  PROVE  Compiles'
<1> DEFINE o == Instr("br", 0)
           g == [Frame EXCEPT !.kind = "else", !.at = Len(code) + 1, !.end = abs, !.types = ts]
           fr2 == Append(Outer, g)
           cd2 == Filled(Append(code, o), Frame.at, Len(code) + 2)
<1>1. /\ ctl # <<>> /\ Frame.kind = "then" /\ code' = cd2 /\ ctl' = fr2
      /\ abs' = Frame.seed /\ ts' = Frame.base
  BY DEF CompileElse, Inside, Filled
<1>2. PICK ann : Building(ann, abs, ts, code, ctl)
  BY DEF Compiles
<1>3. Frame \in Frames /\ FrameInv(ann, code, Frame)
  BY <1>1, <1>2, FrameKnown
<1>4. /\ abs \in States /\ ts \in Seq(Types) /\ Len(code) \in Nat /\ ctl \in Seq(Frames)
      /\ Len(ctl) \in Nat \ {0}
  BY <1>1, CompilerTypes, FrameFacts
<1>5. /\ Frame.seed \in States /\ Frame.base \in Seq(Types) /\ Len(Frame.seed) = Len(Frame.base)
      /\ Frame.head \in Nat /\ Frame.head <= Len(ann)
  BY <1>1, <1>3 DEF Frames, FrameInv
<1>6. o \in Instrs /\ o.op = "br"
  BY DEF Instr, Instrs, Ops
<1>7. /\ g \in Frames /\ g.kind = "else" /\ g.at = Len(code) + 1 /\ g.head = Frame.head
      /\ g.end = abs /\ g.types = ts
  <2> DEFINE h == Frame
  <2>1. h \in Frames /\ g = [h EXCEPT !.kind = "else", !.at = Len(code) + 1, !.end = abs, !.types = ts]
    BY <1>3
  <2>2. /\ h.head \in Nat /\ h.seed \in States /\ h.base \in Seq(Types) /\ h.entry \in States
    BY <1>3 DEF Frames
  <2> HIDE DEF g, h
  <2>3. g = [kind |-> "else", at |-> Len(code) + 1, head |-> h.head, seed |-> h.seed,
             end |-> abs, base |-> h.base, types |-> ts, entry |-> h.entry]
    BY <2>1 DEF Frames
  <2>4. "else" \in FrameKinds /\ Len(code) + 1 \in Nat
    BY <1>4 DEF FrameKinds
  <2>5. g \in Frames
    <3> HIDE DEF States
    <3> QED BY <1>4, <2>2, <2>3, <2>4 DEF Frames
  <2> QED BY <2>3, <2>5 DEF h
<1> HIDE DEF o, g, cd2
<1>8. /\ fr2 \in Seq(Frames) /\ Len(fr2) = Len(ctl) /\ fr2[Len(ctl)] = g
      /\ \A k \in 1 .. Len(ctl) - 1 : fr2[k] = ctl[k]
  BY <1>1, <1>4, <1>7, FrameFacts
<1> HIDE DEF fr2
<1>9. Building(Append(ann, Note(Frame.seed, Frame.base)), Frame.seed, Frame.base, cd2, fr2)
  <2> DEFINE f == Frame
             st2 == Frame.seed
             ty2 == Frame.base
  <2>1. Len(ctl) > 0 /\ f = ctl[Len(ctl)] /\ f.kind \in {"then", "while"}
    BY <1>1, <1>4 DEF Frame
  <2>2. \A c \in Stacks : Covers(f.seed, f.base, c) => Covers(st2, ty2, c)
    OBVIOUS
  <2>3. /\ Len(fr2) = Len(ctl)
        /\ WaitsAt(fr2[Len(ctl)], Len(code) + 1, abs, ts, Len(ann))
    BY <1>5, <1>7, <1>8 DEF WaitsAt
  <2>4. cd2 = Filled(Append(code, o), f.at, Len(code) + 2)
    BY DEF cd2
  <2>5. st2 \in States /\ ty2 \in Seq(Types) /\ Len(st2) = Len(ty2)
    BY <1>5
  <2>6. Len(fr2) \in {Len(ctl) - 1, Len(ctl)} /\ fr2 \in Seq(Frames)
        /\ \A k \in 1 .. Len(ctl) - 1 : fr2[k] = ctl[k]
    BY <1>8
  <2> HIDE DEF f, st2, ty2
  <2>7. Building(Append(ann, Note(st2, ty2)), st2, ty2, cd2, fr2)
    BY <1>2, <1>6, <2>1, <2>2, <2>3, <2>4, <2>5, <2>6, Landed
  <2> QED BY <2>7 DEF st2, ty2
<1> QED BY <1>1, <1>9 DEF Compiles

\* The back edge: what the body leaves is what the head was entered with,
\* and what leaves the loop the widened seed describes.
LEMMA EndWhileBuilds ==
  ASSUME Compiles, EndWhile, exact'
  PROVE  Compiles'
<1> DEFINE o == Instr("br", Frame.head)
           cd2 == Filled(Append(code, o), Frame.at, Len(code) + 2)
<1>1. /\ ctl # <<>> /\ Frame.kind = "while" /\ ts = Frame.base /\ code' = cd2 /\ ctl' = Outer
      /\ abs' = WidenState(Frame.seed, abs, Len(ts)) /\ ts' = ts /\ Within(abs, Frame.entry)
  BY DEF EndWhile, Inside, Filled
<1>2. PICK ann : Building(ann, abs, ts, code, ctl)
  BY DEF Compiles
<1>3. Frame \in Frames /\ FrameInv(ann, code, Frame)
  BY <1>1, <1>2, FrameKnown
<1>4. /\ abs \in States /\ ts \in Seq(Types) /\ Len(abs) = Len(ts) /\ Len(code) \in Nat
      /\ ctl \in Seq(Frames) /\ Len(ctl) \in Nat \ {0}
      /\ Outer \in Seq(Frames) /\ Len(Outer) = Len(ctl) - 1
      /\ \A k \in 1 .. Len(ctl) - 1 : Outer[k] = ctl[k]
  BY <1>1, CompilerTypes, FrameFacts
<1>5. /\ Frame.seed \in States /\ Len(Frame.seed) = Len(ts) /\ Frame.entry \in States
      /\ Frame.head \in 1 .. Len(ann) /\ ann[Frame.head] = Note(Frame.entry, Frame.base)
      /\ Frame.head \in Nat
  BY <1>1, <1>3 DEF Frames, FrameInv, Loops
<1>6. o \in Instrs /\ o.op = "br" /\ o.v = Frame.head
  BY <1>5 DEF Instr, Instrs, Ops
<1>7. /\ abs' \in States /\ Len(abs') = Len(ts)
      /\ \A c \in Stacks : Covers(Frame.seed, Frame.base, c) => Covers(abs', ts, c)
  <2>1. Len(Frame.seed) = Len(abs) /\ abs' = WidenState(Frame.seed, abs, Len(Frame.seed))
    BY <1>1, <1>4, <1>5
  <2> DEFINE s == Frame.seed
             w == WidenState(s, abs, Len(s))
  <2>2. s \in States /\ Len(s) = Len(ts) /\ abs' = w /\ Len(s) = Len(abs)
    BY <1>4, <1>5, <2>1
  <2>3. /\ w \in States /\ Len(w) = Len(s)
        /\ \A ty \in Seq(Types), c \in Stacks : Covers(s, ty, c) => Covers(w, ty, c)
    <3> HIDE DEF s
    <3> QED BY <1>4, <2>2, WidenCovers
  <2> HIDE DEF w
  <2> QED BY <1>1, <1>4, <2>2, <2>3
<1>8. ASSUME NEW c \in Stacks, Covers(abs, ts, c) PROVE Held(ann[o.v], c)
  <2>1. Covers(Frame.entry, ts, c)
    BY <1>1, <1>4, <1>5, <1>8, WithinCovers
  <2> QED BY <1>1, <1>4, <1>5, <1>6, <2>1, NoteFacts
<1> HIDE DEF o, cd2
<1>9. Building(Append(ann, Note(abs', ts)), abs', ts, cd2, Outer)
  <2> DEFINE f == Frame
             fr2 == Outer
             st2 == abs'
  <2>1. Len(ctl) > 0 /\ f = ctl[Len(ctl)] /\ f.kind \in {"then", "while"}
    BY <1>1, <1>4 DEF Frame
  <2>2. \A c \in Stacks : Covers(f.seed, f.base, c) => Covers(st2, ts, c)
    BY <1>7
  <2>3. /\ Len(fr2) = Len(ctl) - 1 /\ o.v \in 1 .. Len(ann)
        /\ \A c \in Stacks : Covers(abs, ts, c) => Held(ann[o.v], c)
    BY <1>4, <1>5, <1>6, <1>8
  <2>4. cd2 = Filled(Append(code, o), f.at, Len(code) + 2)
    BY DEF cd2
  <2>5. st2 \in States /\ ts \in Seq(Types) /\ Len(st2) = Len(ts)
    BY <1>4, <1>7
  <2>6. Len(fr2) \in {Len(ctl) - 1, Len(ctl)} /\ fr2 \in Seq(Frames)
        /\ \A k \in 1 .. Len(ctl) - 1 : fr2[k] = ctl[k]
    BY <1>4
  <2> HIDE DEF f, st2, fr2
  <2>7. Building(Append(ann, Note(st2, ts)), st2, ts, cd2, fr2)
    BY <1>2, <1>6, <2>1, <2>2, <2>3, <2>4, <2>5, <2>6, Landed, SMTT(20)
  <2> QED BY <2>7 DEF st2, fr2
<1> QED BY <1>1, <1>9 DEF Compiles

\* The end of a needs predicate takes its flag off the stack.
LEMMA EndNeedsBuilds ==
  ASSUME Compiles, Fits, EndNeeds, phase' = "body"
  PROVE  Compiles'
<1> DEFINE o == Instr("trapiffalse", 0)
<1>1. /\ ts = Append(InTypes, "bool") /\ code' = Append(code, o) /\ abs' = Pop(abs, 1)
      /\ ts' = InTypes /\ ctl' = ctl
  BY DEF EndNeeds
<1>2. /\ abs \in States /\ ts \in Seq(Types) /\ Len(abs) = Len(ts) /\ Len(ts) \in Nat
  BY CompilerTypes
<1>3. InTypes \in Seq(Types)
  <2>1. {"int", "sub"} \subseteq Types
    BY DEF Types
  <2> QED BY <2>1, DischargeAssumption
<1>4. Deep(1) /\ Rest(1) = InTypes
  BY <1>1, <1>3, AboveBase
<1>5. 1 <= Len(ts) /\ Len(InTypes) = Len(ts) - 1 /\ Below(ts, 1) = InTypes
  <2>1. Len(Rest(1)) = Len(ts) - 1
    BY <1>2, <1>4, RestFacts
  <2> QED BY <1>4, <2>1 DEF Deep, Below, Rest
<1>6. abs' \in States /\ Len(abs') = Len(ts')
  <2>1. Len(abs) <= MaxSlots /\ 1 <= Len(abs) /\ 1 \in Nat
    BY <1>2, <1>5 DEF Fits
  <2>2. Pop(abs, 1) \in States /\ Len(Pop(abs, 1)) = Len(abs) - 1
    BY <1>2, <2>1, StackLengths
  <2> QED BY <1>1, <1>2, <1>5, <2>2
<1>7. o \in Instrs /\ o.op = "trapiffalse"
  BY DEF Instr, Instrs, Ops
<1> HIDE DEF o
<1>8. Steps(abs, ts, o, abs', ts')
  <2> SUFFICES ASSUME NEW in \in Inputs, NEW c \in Stacks, Covers(abs, ts, c),
                      NEW r \in Results(o, in, c)
               PROVE  r \in Stacks /\ Covers(abs', ts', r)
    BY <1>7 DEF Steps, Judged
  <2>1. r = Below(c, 1)
    <3>1. ResultArm(o, in, c, At(c, 2), At(c, 1), r)
      BY ResultArms
    <3> QED BY <1>7, <3>1 DEF ResultArm
  <2>2. Below(c, 1) \in Stacks /\ Covers(Pop(abs, 1), Below(ts, 1), Below(c, 1))
    BY <1>2, <1>5, PopCovers
  <2> QED BY <1>1, <1>5, <2>1, <2>2
<1>9. Straight(o, Len(code) + 1) /\ o.op # "ret"
  BY <1>7 DEF Straight
<1> QED BY <1>1, <1>3, <1>6, <1>7, <1>8, <1>9, ExtendCode DEF o

\* The last note is weakened.
LEMMA NoteReplaced ==
  ASSUME NEW ann \in Seq(Notes), Len(ann) > 0, NEW n \in Notes, NEW bnn,
         bnn = [ann EXCEPT ![Len(ann)] = n]
  PROVE  /\ bnn \in Seq(Notes) /\ Len(bnn) = Len(ann) /\ bnn[Len(ann)] = n
         /\ \A i \in 1 .. Len(ann) - 1 : bnn[i] = ann[i]
<1>1. Len(ann) \in 1 .. Len(ann)
  OBVIOUS
<1>2. bnn \in Seq(Notes) /\ Len(bnn) = Len(ann)
  BY <1>1
<1>3. bnn[Len(ann)] = n /\ \A i \in 1 .. Len(ann) - 1 : bnn[i] = ann[i]
  BY <1>1
<1> QED BY <1>2, <1>3

\* Both branches reach the position after them, and the join describes both.
LEMMA EndIfBuilds ==
  ASSUME Compiles, EndIf
  PROVE  Compiles'
<1> DEFINE f == Frame
           st2 == HullState(Frame.end, abs, Len(ts))
           cd2 == Filled(code, Frame.at, Len(code) + 1)
<1>1. /\ ctl # <<>> /\ f.kind = "else" /\ ts = f.types /\ code' = cd2 /\ ctl' = Outer
      /\ abs' = st2 /\ ts' = ts
  BY DEF EndIf, Inside, Filled
<1>2. PICK ann : Building(ann, abs, ts, code, ctl)
  BY DEF Compiles
<1>3. f \in Frames /\ FrameInv(ann, code, f)
  BY <1>1, <1>2, FrameKnown
<1>4. /\ abs \in States /\ ts \in Seq(Types) /\ Len(abs) = Len(ts) /\ Len(code) \in Nat
      /\ code \in Seq(Instrs) /\ ctl \in Seq(Frames) /\ Len(ctl) \in Nat \ {0}
      /\ Outer \in Seq(Frames) /\ Len(Outer) = Len(ctl) - 1
      /\ \A k \in 1 .. Len(ctl) - 1 : Outer[k] = ctl[k]
  BY <1>1, CompilerTypes, FrameFacts
<1>5. /\ ann \in Seq(Notes) /\ Len(ann) = Len(code) + 1 /\ ann[Len(ann)] = Note(abs, ts)
      /\ \A k \in 1 .. Len(ctl) :
           FrameInv(ann, code, ctl[k]) /\ (k < Len(ctl) => ctl[k].head <= Len(code))
  BY <1>2 DEF Building
<1>6. /\ f.at \in 1 .. Len(code) /\ code[f.at].op = "br" /\ Joins(ann, f)
      /\ f.end \in States /\ Len(f.end) = Len(ts)
  BY <1>1, <1>3 DEF FrameInv, Branching, Frames
<1>7. /\ st2 \in States /\ Len(st2) = Len(ts)
      /\ \A c \in Stacks : Covers(f.end, ts, c) \/ Covers(abs, ts, c) => Covers(st2, ts, c)
  <2> DEFINE s == f.end
             w == HullState(s, abs, Len(s))
  <2>1. s \in States /\ Len(s) = Len(ts) /\ st2 = w /\ Len(s) = Len(abs)
    BY <1>4, <1>6
  <2>2. /\ w \in States /\ Len(w) = Len(s)
        /\ \A ty \in Seq(Types), c \in Stacks :
             Covers(s, ty, c) \/ Covers(abs, ty, c) => Covers(w, ty, c)
    <3> HIDE DEF s
    <3> QED BY <1>4, <2>1, HullCovers
  <2> HIDE DEF w, st2
  <2> QED BY <1>4, <2>1, <2>2
<1>8. /\ cd2 \in Seq(Instrs) /\ Len(cd2) = Len(code)
      /\ cd2[f.at].op = "br" /\ cd2[f.at].v = Len(code) + 1
      /\ \A i \in 1 .. Len(code) : cd2[i].op = code[i].op /\ (i # f.at => cd2[i] = code[i])
  <2> DEFINE at == f.at
             v == Len(code) + 1
             e == Filled(code, at, v)
  <2>1. at \in 1 .. Len(code) /\ v \in Int /\ cd2 = e
    BY <1>4, <1>6
  <2> HIDE DEF at, v, cd2
  <2>2. /\ e \in Seq(Instrs) /\ Len(e) = Len(code) /\ e[at].op = code[at].op /\ e[at].v = v
        /\ \A i \in 1 .. Len(code) : e[i].op = code[i].op /\ (i # at => e[i] = code[i])
    BY <1>4, <2>1, TargetFilled
  <2> HIDE DEF e
  <2> QED BY <1>6, <2>1, <2>2 DEF at, v
<1> HIDE DEF f, st2, cd2
<1> DEFINE n == Note(st2, ts)
           bnn == [ann EXCEPT ![Len(ann)] = n]
<1>9. n \in Notes
  BY <1>4, <1>7, NoteFacts
<1>10. /\ bnn \in Seq(Notes) /\ Len(bnn) = Len(ann) /\ bnn[Len(ann)] = n
       /\ \A i \in 1 .. Len(ann) - 1 : bnn[i] = ann[i]
  <2>1. Len(ann) > 0
    BY <1>4, <1>5
  <2> HIDE DEF n
  <2> QED BY <1>5, <1>9, <2>1, NoteReplaced
<1> HIDE DEF bnn
<1>11. \A c : Held(bnn[Len(ann)], c) <=> Covers(st2, ts, c)
  BY <1>4, <1>7, <1>10, NoteFacts
<1> HIDE DEF n
<1>12. Weaker(ann, bnn)
  <2>1. \A c : Held(ann[Len(ann)], c) <=> Covers(abs, ts, c)
    BY <1>4, <1>5, NoteFacts
  <2>2. Len(ann) <= Len(bnn)
    BY <1>4, <1>5, <1>10
  <2> QED BY <1>7, <1>10, <1>11, <2>1, <2>2 DEF Weaker
<1>13. StepOK(bnn, cd2[f.at], f.at)
  <2>1. ASSUME NEW c \in Stacks, Held(bnn[f.at], c) PROVE Goes(bnn, cd2[f.at].v, c)
    <3>1. f.at \in 1 .. Len(ann) - 1
      BY <1>4, <1>5, <1>6
    <3>2. Held(ann[f.at], c)
      BY <1>10, <2>1, <3>1
    <3>3. Covers(f.end, ts, c)
      BY <1>1, <1>6, <3>2 DEF Joins
    <3>4. Len(ann) \in 1 .. Len(bnn) /\ cd2[f.at].v = Len(ann)
      BY <1>4, <1>5, <1>8, <1>10
    <3> QED BY <1>7, <1>11, <3>3, <3>4 DEF Goes
  <2> QED BY <1>8, <2>1, JumpSettled
<1>14. StepsOn(bnn, code, ctl, cd2, Outer)
  <2> SUFFICES ASSUME NEW i \in 1 .. Len(cd2), ~Waits(Outer, i)
               PROVE  \/ StepOK(bnn, cd2[i], i)
                      \/ i <= Len(code) /\ cd2[i] = code[i] /\ ~Waits(ctl, i)
    BY DEF StepsOn
  <2>1. CASE i = f.at
    BY <1>13, <2>1
  <2>2. CASE i # f.at
    <3>1. i \in 1 .. Len(code) /\ i <= Len(code)
      BY <1>4, <1>8
    <3>2. ~Waits(ctl, i)
      <4> SUFFICES ASSUME NEW k \in 1 .. Len(ctl), ctl[k].kind \in Branching, ctl[k].at = i
                   PROVE  FALSE
        BY DEF Waits
      <4>1. k # Len(ctl)
        BY <2>2 DEF Frame, f
      <4>2. k \in 1 .. Len(ctl) - 1 /\ k \in 1 .. Len(Outer)
        BY <1>4, <4>1
      <4>3. Outer[k] = ctl[k]
        BY <1>4, <4>2
      <4> QED BY <4>2, <4>3 DEF Waits
    <3> QED BY <1>8, <2>2, <3>1, <3>2
  <2> QED BY <2>1, <2>2
<1>15. FramesOn(ann, bnn, code, ctl, cd2, Outer)
  <2> SUFFICES ASSUME NEW k \in 1 .. Len(Outer)
               PROVE  /\ k <= Len(ctl) /\ Outer[k] = ctl[k]
                      /\ ctl[k].head <= Len(code) /\ Outer[k].head <= Len(cd2)
    BY DEF FramesOn
  <2>1. k \in 1 .. Len(ctl) - 1 /\ k \in 1 .. Len(ctl) /\ k < Len(ctl) /\ k <= Len(ctl)
    BY <1>4
  <2> QED BY <1>4, <1>5, <1>8, <2>1
<1>16. bnn[1] = ann[1] /\ Len(bnn) = Len(cd2) + 1 /\ Len(code) <= Len(cd2)
  <2>1. 1 \in 1 .. Len(ann) - 1
    BY <1>4, <1>5, <1>6
  <2> QED BY <1>4, <1>5, <1>8, <1>10, <2>1
<1>17. bnn[Len(bnn)] = Note(st2, ts)
  BY <1>10 DEF n
<1>18. \A i \in 1 .. Len(cd2) : i > Len(code) => cd2[i].op # "ret"
  BY <1>4, <1>8
<1>19. Builds(ann, abs, ts, code, ctl, bnn, st2, ts, cd2, Outer)
  BY <1>2, <1>4, <1>7, <1>8, <1>10, <1>12, <1>14, <1>15, <1>16, <1>17, <1>18 DEF Builds
<1>20. Building(bnn, st2, ts, cd2, Outer)
  BY <1>19, BuiltOn
<1> QED BY <1>1, <1>20 DEF Compiles, st2

\* A slot more, a value more; and back.
LEMMA AppendCovers ==
  ASSUME NEW st \in States, NEW ty \in Seq(Types), Len(st) = Len(ty), NEW s \in Slots,
         NEW t \in Types
  PROVE  /\ Append(st, s) \in States /\ Append(ty, t) \in Seq(Types)
         /\ Len(Append(st, s)) = Len(ty) + 1 /\ Len(Append(ty, t)) = Len(ty) + 1
         /\ \A c \in Stacks, x \in Word :
              Covers(st, ty, c) /\ Contains(s.iv, x) /\ (t = "bool" => x \in {0, 1}) =>
                Append(c, x) \in Stacks /\ Covers(Append(st, s), Append(ty, t), Append(c, x))
         /\ \A c \in Stacks :
              Covers(Append(st, s), Append(ty, t), c) =>
                Below(c, 1) \in Stacks /\ Covers(st, ty, Below(c, 1))
<1> DEFINE st2 == Append(st, s)
           ty2 == Append(ty, t)
<1>1. st \in Seq(Slots) /\ Len(ty) \in Nat
  BY DEF States
<1>2. /\ st2 \in Seq(Slots) /\ Len(st2) = Len(ty) + 1 /\ st2[Len(ty) + 1] = s
      /\ \A i \in 1 .. Len(ty) : st2[i] = st[i]
  BY <1>1, AppendFacts
<1>3. /\ ty2 \in Seq(Types) /\ Len(ty2) = Len(ty) + 1 /\ ty2[Len(ty) + 1] = t
      /\ \A i \in 1 .. Len(ty) : ty2[i] = ty[i]
  BY <1>1, AppendFacts
<1> HIDE DEF st2, ty2
<1>4. ASSUME NEW c \in Stacks, NEW x \in Word, Covers(st, ty, c), Contains(s.iv, x),
             t = "bool" => x \in {0, 1}
      PROVE  Append(c, x) \in Stacks /\ Covers(st2, ty2, Append(c, x))
  <2> DEFINE d == Append(c, x)
  <2>1. c \in Seq(Word) /\ Len(c) = Len(ty) /\ \A i \in 1 .. Len(ty) : CoversAt(st, ty, c, i)
    BY <1>4 DEF Covers, Stacks
  <2>2. /\ d \in Seq(Word) /\ Len(d) = Len(ty) + 1 /\ d[Len(ty) + 1] = x
        /\ \A i \in 1 .. Len(ty) : d[i] = c[i]
    BY <2>1, AppendFacts
  <2> HIDE DEF d
  <2>3. ASSUME NEW i \in 1 .. Len(ty) + 1 PROVE CoversAt(st2, ty2, d, i)
    <3>1. CASE i = Len(ty) + 1
      BY <1>2, <1>3, <1>4, <2>2, <3>1 DEF CoversAt
    <3>2. CASE i # Len(ty) + 1
      <4>1. i \in 1 .. Len(ty)
        BY <1>1, <3>2
      <4> QED BY <1>2, <1>3, <2>1, <2>2, <4>1 DEF CoversAt
    <3> QED BY <3>1, <3>2
  <2> QED BY <1>2, <1>3, <2>2, <2>3 DEF Covers, Stacks, d
<1>5. ASSUME NEW c \in Stacks, Covers(st2, ty2, c)
      PROVE  Below(c, 1) \in Stacks /\ Covers(st, ty, Below(c, 1))
  <2> DEFINE d == Below(c, 1)
  <2>1. /\ c \in Seq(Word) /\ Len(c) = Len(ty) + 1
        /\ \A i \in 1 .. Len(ty) + 1 : CoversAt(st2, ty2, c, i)
    BY <1>3, <1>5 DEF Covers, Stacks
  <2>2. 1 \in Nat /\ 1 <= Len(c) /\ Len(c) - 1 = Len(ty)
    BY <1>1, <2>1
  <2>3. d \in Seq(Word) /\ Len(d) = Len(c) - 1 /\ \A i \in 1 .. Len(c) - 1 : d[i] = c[i]
    BY <2>1, <2>2, BelowFacts
  <2> HIDE DEF d
  <2>4. ASSUME NEW i \in 1 .. Len(ty) PROVE CoversAt(st, ty, d, i)
    <3>1. i \in 1 .. Len(ty) + 1 /\ d[i] = c[i]
      BY <1>1, <2>2, <2>3
    <3> QED BY <1>2, <1>3, <2>1, <3>1 DEF CoversAt
  <2> QED BY <2>2, <2>3, <2>4 DEF Covers, Stacks, d
<1> QED BY <1>2, <1>3, <1>4, <1>5 DEF st2, ty2, States

\* The literal true and the branch on it: the loop is entered and left with
\* the state before it.
LEMMA CompileLoopBuilds ==
  ASSUME Compiles, CompileLoop
  PROVE  Compiles'
<1> DEFINE hc == HeaderClosed(abs)
           f == Opened("while", Len(code) + 3, Len(code) + 2, abs, ts)
           o1 == Instr("br", Len(code) + 2)
           o2 == Instr("const", 1)
           o3 == Instr("brif", 0)
           cd1 == Append(code, o1)
           cd2 == Append(cd1, o2)
           cd3 == Append(cd2, o3)
           s == Computed(Const(1))
           st2 == Append(abs, s)
           ty2 == Append(ts, "bool")
           fr2 == Append(hc, f)
<1>1. PICK ann : Building(ann, abs, ts, code, ctl)
  BY DEF Compiles
<1> DEFINE ann1 == Append(ann, Note(abs, ts))
           ann2 == Append(ann1, Note(st2, ty2))
           ann3 == Append(ann2, Note(abs, ts))
<1>2. /\ abs \in States /\ ts \in Seq(Types) /\ Len(abs) = Len(ts) /\ Len(code) \in Nat
      /\ code \in Seq(Instrs) /\ Len(ts) \in Nat
  BY CompilerTypes
<1>3. Building(ann, abs, ts, code, hc) /\ hc \in Seq(Frames) /\ Len(hc) \in Nat
  BY <1>1, <1>2, HeaderClosedBuilds
<1>4. o1 \in Instrs /\ o2 \in Instrs /\ o3 \in Instrs /\ o2.op = "const" /\ o2.v = 1
  BY <1>2, JumpSteps DEF Instr, Instrs, Ops
<1>5. code' = cd3 /\ ctl' = fr2 /\ abs' = abs /\ ts' = ts
  <2>1. code' = code \o <<o1, o2, o3>> /\ ctl' = fr2 /\ abs' = abs /\ ts' = ts
    BY DEF CompileLoop
  <2>2. code \o <<o1, o2, o3>> = cd3
    <3> HIDE DEF o1, o2, o3
    <3> QED BY <1>2, <1>4
  <2> QED BY <2>1, <2>2
<1>6. /\ f \in Frames /\ f.kind = "while" /\ f.at = Len(code) + 3 /\ f.head = Len(code) + 2
      /\ f.seed = abs /\ f.base = ts /\ f.entry = abs
  <2>1. "while" \in FrameKinds /\ Len(code) + 3 \in Nat /\ Len(code) + 2 \in Nat
    BY <1>2 DEF FrameKinds
  <2> QED BY <1>2, <2>1, OpenedFrame DEF Opened
<1> HIDE DEF hc, f
<1>7. Building(ann1, abs, ts, cd1, hc)
  <2>1. Steps(abs, ts, o1, abs, ts)
    BY <1>2, JumpSteps
  <2>2. Straight(o1, Len(code) + 1) /\ o1.op # "ret"
    BY <1>2 DEF Straight, Instr
  <2> HIDE DEF o1
  <2> QED BY <1>2, <1>3, <1>4, <2>1, <2>2, Extend
<1>8. /\ s \in Slots /\ Contains(s.iv, 1) /\ 1 \in Word /\ "bool" \in Types
  BY WordFacts, ConstHolds, IntervalTypes, ComputedSlot DEF Types
<1> HIDE DEF s, o1
<1>9. /\ st2 \in States /\ ty2 \in Seq(Types) /\ Len(st2) = Len(ts) + 1 /\ Len(ty2) = Len(ts) + 1
      /\ \A c \in Stacks : Covers(abs, ts, c) =>
           Append(c, 1) \in Stacks /\ Covers(st2, ty2, Append(c, 1))
      /\ \A c \in Stacks : Covers(st2, ty2, c) =>
           Below(c, 1) \in Stacks /\ Covers(abs, ts, Below(c, 1))
  BY <1>2, <1>8, AppendCovers
<1> HIDE DEF st2, ty2
<1>10. Building(ann2, st2, ty2, cd2, hc)
  <2>1. Steps(abs, ts, o2, st2, ty2)
    <3> SUFFICES ASSUME NEW in \in Inputs, NEW c \in Stacks, Covers(abs, ts, c),
                        NEW r \in Results(o2, in, c)
                 PROVE  r \in Stacks /\ Covers(st2, ty2, r)
      BY <1>4 DEF Steps, Judged
    <3>1. ResultArm(o2, in, c, At(c, 2), At(c, 1), r)
      BY ResultArms
    <3>2. r = Append(c, 1)
      BY <1>4, <3>1 DEF ResultArm
    <3> QED BY <1>9, <3>2
  <2>2. Straight(o2, Len(cd1) + 1) /\ o2.op # "ret"
    BY <1>4 DEF Straight
  <2>3. Len(st2) = Len(ty2)
    BY <1>9
  <2> HIDE DEF o2, cd1, ann1
  <2> QED BY <1>4, <1>7, <1>9, <2>1, <2>2, <2>3, Extend
<1>11. Len(cd1) = Len(code) + 1 /\ Len(cd2) = Len(code) + 2
  <2>1. cd1 \in Seq(Instrs) /\ Len(cd1) = Len(code) + 1
    BY <1>2, <1>4, AppendFacts
  <2> HIDE DEF cd1, o2
  <2>2. Len(cd2) = Len(cd1) + 1
    BY <1>4, <2>1, AppendFacts
  <2> QED BY <1>2, <2>1, <2>2
<1>12. f.head \in 1 .. Len(ann2) /\ ann2[f.head] = Note(f.entry, f.base)
  <2>1. /\ ann1 \in Seq(Notes) /\ Len(ann1) = Len(cd1) + 1 /\ ann1[Len(ann1)] = Note(abs, ts)
    BY <1>7 DEF Building
  <2>2. Note(st2, ty2) \in Notes
    BY <1>9, NoteFacts
  <2> HIDE DEF ann1
  <2>3. /\ Len(ann2) = Len(ann1) + 1 /\ \A i \in 1 .. Len(ann1) : ann2[i] = ann1[i]
    BY <2>1, <2>2, AppendFacts
  <2>4. f.head = Len(ann1) /\ Len(ann1) \in 1 .. Len(ann1)
    BY <1>2, <1>6, <1>11, <2>1
  <2> HIDE DEF ann2
  <2> QED BY <1>2, <1>6, <2>1, <2>3, <2>4
<1>13. /\ fr2 \in Seq(Frames) /\ Len(fr2) = Len(hc) + 1 /\ fr2[Len(hc) + 1] = f
       /\ \A k \in 1 .. Len(hc) : fr2[k] = hc[k]
  BY <1>3, <1>6, AppendFacts
<1> HIDE DEF fr2, ann2, cd2, cd1
<1>14. /\ Len(fr2) > 0 /\ fr2[Len(fr2)] = f
       /\ \A k \in 1 .. Len(fr2) : k < Len(fr2) => k <= Len(hc) /\ fr2[k] = hc[k]
       /\ \A k \in 1 .. Len(hc) : k < Len(fr2) \/ hc[k].kind \notin Branching
  <2>1. \A k \in 1 .. Len(fr2) : k < Len(fr2) => k \in 1 .. Len(hc) /\ k <= Len(hc)
    BY <1>3, <1>13
  <2> QED BY <1>3, <1>13, <2>1
<1>15. /\ f.kind \in {"then", "while"} /\ f.at = Len(cd2) + 1 /\ Len(f.seed) = Len(f.base)
       /\ f.head <= Len(cd2) + 1
       /\ f.kind = "while" => f.head \in 1 .. Len(ann2) /\ ann2[f.head] = Note(f.entry, f.base)
  BY <1>2, <1>6, <1>11, <1>12
<1>16. \A c \in Stacks : Covers(st2, ty2, c) =>
         /\ Below(c, 1) \in Stacks /\ Covers(abs, ts, Below(c, 1))
         /\ Covers(f.seed, f.base, Below(c, 1))
  BY <1>6, <1>9
<1>17. Building(ann3, abs, ts, cd3, fr2)
  BY <1>2, <1>6, <1>10, <1>13, <1>14, <1>15, <1>16, Branch
<1> HIDE DEF ann3, cd3
<1> QED BY <1>5, <1>17 DEF Compiles

-----------------------------------------------------------------------------
\* The whole word: every position is described, the last one by the abstract
\* stack the epilogue was judged on.
Built(ann, st, ty, cd) ==
  /\ st \in States /\ ty \in Seq(Types) /\ cd \in Seq(Instrs) /\ ann \in Seq(Notes)
  /\ Len(ann) = Len(cd) /\ Len(cd) > 0
  /\ ann[1] = Note(ArgSlots, InTypes) /\ ann[Len(cd)] = Note(st, ty)
  /\ \A i \in 1 .. Len(cd) : StepOK(ann, cd[i], i) /\ (cd[i].op = "ret" => i = Len(cd))

Assembled == \E ann : Built(ann, abs, ts, code)
Described ==
  /\ args \in Inputs /\ cstack \in Stacks
  /\ \E ann : Built(ann, abs, ts, code) /\ pc \in 1 .. Len(code) /\ Held(ann[pc], cstack)

\* The inductive invariant.
DischargeInv ==
  exact => \/ phase \in {"rejected", "trapped", "returned"}
           \/ Compiling /\ Compiles
           \/ phase = "start" /\ Assembled
           \/ phase = "run" /\ Described

\* The inputs are described before the word begins.
LEMMA InputsCovered ==
  /\ ArgSlots \in States /\ InTypes \in Seq(Types) /\ Len(ArgSlots) = Len(InTypes)
  /\ \A in \in Inputs : in \in Stacks /\ Covers(ArgSlots, InTypes, in)
<1>1. NIn \in Nat /\ InTypes \in Seq({"int", "sub"}) /\ NIn = Len(InTypes)
  BY DischargeAssumption DEF NIn
<1>2. InTypes \in Seq(Types)
  <2>1. {"int", "sub"} \subseteq Types
    BY DEF Types
  <2> QED BY <1>1, <2>1
<1>3. \A i \in 1 .. NIn : [iv |-> Top, org |-> i - 1] \in Slots
  BY <1>1, IntervalTypes DEF Slots
<1>4. ArgSlots \in Seq(Slots) /\ Len(ArgSlots) = NIn
  <2> HIDE DEF Slots
  <2> QED BY <1>1, <1>3 DEF ArgSlots
<1>5. ASSUME NEW in \in Inputs PROVE in \in Stacks /\ Covers(ArgSlots, InTypes, in)
  <2>1. in \in Seq(Word) /\ Len(in) = NIn
    BY <1>1 DEF Inputs
  <2>2. ASSUME NEW i \in 1 .. NIn PROVE CoversAt(ArgSlots, InTypes, in, i)
    <3>1. ArgSlots[i].iv = Top
      BY DEF ArgSlots
    <3>2. InTypes[i] # "bool"
      BY <1>1
    <3>3. Contains(Top, in[i])
      BY DEF Contains, Top
    <3> QED BY <3>1, <3>2, <3>3 DEF CoversAt
  <2> QED BY <1>1, <1>4, <2>1, <2>2 DEF Covers, Stacks
<1> QED BY <1>1, <1>2, <1>4, <1>5 DEF States

\* The empty word.
LEMMA InitInv == Init => DischargeInv
<1> SUFFICES ASSUME Init PROVE Compiling /\ Compiles
  BY DEF DischargeInv
<1>1. Compiling
  BY DEF Init, Compiling
<1>2. abs = ArgSlots /\ ts = InTypes /\ code = <<>> /\ ctl = <<>>
  BY DEF Init
<1> DEFINE n == Note(ArgSlots, InTypes)
           ann == <<n>>
<1>3. n \in Notes
  BY InputsCovered, NoteFacts
<1> HIDE DEF n
<1>4. ann \in Seq(Notes) /\ Len(ann) = 1 /\ ann[1] = n
  BY <1>3
<1> HIDE DEF ann
<1>5. Building(ann, ArgSlots, InTypes, <<>>, <<>>)
  <2>1. <<>> \in Seq(Instrs) /\ <<>> \in Seq(Frames) /\ Len(<<>>) = 0
    OBVIOUS
  <2> QED BY <1>4, <2>1, InputsCovered DEF Building, n
<1> QED BY <1>1, <1>2, <1>5 DEF Compiles

\* The output's site and the return.
LEMMA EpilogueBuilds ==
  ASSUME Compiles, Epilogue
  PROVE  Assembled'
<1> DEFINE o == EmitSubtypeCheck(OfRange(TopInterval(abs), SubLo, SubHi))
           e == Instr("ret", 0)
           cd1 == Append(code, o)
           cd2 == Append(cd1, e)
<1>1. /\ ctl = <<>> /\ ts = <<"sub">> /\ abs' = abs /\ ts' = ts /\ code' = code \o <<o, e>>
  BY DEF Epilogue
<1>2. PICK ann : Building(ann, abs, ts, code, ctl)
  BY DEF Compiles
<1>3. abs \in States /\ ts \in Seq(Types) /\ Len(abs) = Len(ts) /\ code \in Seq(Instrs)
      /\ Len(code) \in Nat
  BY CompilerTypes
<1>4. Deep(1)
  BY <1>1 DEF Deep
<1>5. /\ o \in Instrs /\ o.op \in {"check", "elided"}
      /\ \A v \in Word : Contains(TopInterval(abs), v) =>
              /\ o.op = "elided" => InRange(v)
              /\ o.op = "check" /\ o.v = 1 => ~InRange(v)
  <2>1. TopInterval(abs) \in Interval
    BY <1>3, <1>4, TopTyped
  <2> QED BY <2>1, SiteSound
<1>6. e \in Instrs /\ e.op = "ret"
  BY DEF Instr, Instrs, Ops
<1> HIDE DEF o, e
<1>7. code' = cd2
  BY <1>1, <1>3, <1>5, <1>6, AppendTwice
<1>8. Steps(abs, ts, o, abs, ts)
  <2> SUFFICES ASSUME NEW in \in Inputs, NEW c \in Stacks, Covers(abs, ts, c)
               PROVE  Judged(o, c) /\ \A r \in Results(o, in, c) : r = c
    BY DEF Steps
  <2>1. At(c, 1) \in Word /\ Contains(TopInterval(abs), At(c, 1))
    BY <1>3, <1>4, TopHolds
  <2>2. Judged(o, c)
    BY <1>5, <2>1 DEF Judged
  <2>3. ASSUME NEW r \in Results(o, in, c) PROVE r = c
    <3>1. ResultArm(o, in, c, At(c, 2), At(c, 1), r)
      BY ResultArms
    <3> QED BY <1>5, <3>1 DEF ResultArm
  <2> QED BY <2>2, <2>3
<1> DEFINE bnn == Append(ann, Note(abs, ts))
<1>9. Building(bnn, abs, ts, cd1, ctl)
  <2>1. Straight(o, Len(code) + 1) /\ o.op # "ret"
    BY <1>5 DEF Straight
  <2> QED BY <1>2, <1>3, <1>5, <1>8, <2>1, Extend
<1> HIDE DEF bnn
<1>10. /\ cd1 \in Seq(Instrs) /\ bnn \in Seq(Notes) /\ Len(bnn) = Len(cd1) + 1
       /\ bnn[1] = Note(ArgSlots, InTypes) /\ bnn[Len(bnn)] = Note(abs, ts) /\ Len(cd1) \in Nat
       /\ \A i \in 1 .. Len(cd1) : cd1[i].op # "ret" /\ (~Waits(ctl, i) => StepOK(bnn, cd1[i], i))
  BY <1>9 DEF Building
<1> HIDE DEF cd1
<1>11. /\ cd2 \in Seq(Instrs) /\ Len(cd2) = Len(cd1) + 1 /\ cd2[Len(cd1) + 1] = e
       /\ \A i \in 1 .. Len(cd1) : cd2[i] = cd1[i]
  BY <1>6, <1>10, AppendFacts
<1> HIDE DEF cd2
<1>12. \A i : ~Waits(ctl, i)
  BY <1>1 DEF Waits
<1>13. \A in \in Inputs, c \in Stacks : Judged(e, c)
  BY <1>6 DEF Judged
<1>14. ASSUME NEW i \in 1 .. Len(cd2)
       PROVE  StepOK(bnn, cd2[i], i) /\ (cd2[i].op = "ret" => i = Len(cd2))
  <2>1. CASE i = Len(cd2)
    <3>1. cd2[i] = e
      BY <1>11, <2>1
    <3>2. StepOK(bnn, e, i)
      BY <1>6, <1>13 DEF StepOK
    <3> QED BY <2>1, <3>1, <3>2
  <2>2. CASE i # Len(cd2)
    <3>1. i \in 1 .. Len(cd1)
      BY <1>10, <1>11, <2>2
    <3> QED BY <1>10, <1>11, <1>12, <3>1
  <2> QED BY <2>1, <2>2
<1>15. Built(bnn, abs, ts, cd2)
  <2>1. Len(cd2) > 0 /\ Len(bnn) = Len(cd2)
    BY <1>10, <1>11
  <2> QED BY <1>3, <1>10, <1>11, <1>14, <2>1 DEF Built
<1> QED BY <1>1, <1>7, <1>15 DEF Assembled

\* The machine starts on inputs the first position describes.
LEMMA StartDescribed ==
  ASSUME Assembled, Start
  PROVE  Described'
<1>1. PICK ann : Built(ann, abs, ts, code)
  BY DEF Assembled
<1>2. PICK in \in Inputs : args' = in /\ cstack' = in
  BY DEF Start, Inputs
<1>3. pc' = 1 /\ abs' = abs /\ ts' = ts /\ code' = code
  BY DEF Start
<1>4. pc' \in 1 .. Len(code) /\ ann[1] = Note(ArgSlots, InTypes)
  BY <1>1, <1>3 DEF Built
<1>5. cstack' \in Stacks /\ Held(ann[1], cstack')
  BY <1>2, <1>4, InputsCovered, NoteFacts
<1> QED BY <1>1, <1>2, <1>3, <1>4, <1>5 DEF Described

\* A machine step leads from one described stack to the next.
LEMMA ExecDescribed ==
  ASSUME Described, Exec
  PROVE  phase' \in {"trapped", "returned"} \/ (phase' = "run" /\ Described')
<1> DEFINE o == code[pc]
<1>1. PICK ann : Built(ann, abs, ts, code) /\ pc \in 1 .. Len(code) /\ Held(ann[pc], cstack)
  BY DEF Described
<1>2. args \in Inputs /\ cstack \in Stacks
  BY DEF Described
<1>3. abs' = abs /\ ts' = ts /\ code' = code /\ args' = args
  BY DEF Exec
<1>4. StepOK(ann, o, pc)
  BY <1>1 DEF Built
<1>5. CASE Traps(o, cstack)
  BY <1>5 DEF Exec
<1>6. CASE ~Traps(o, cstack) /\ o.op = "ret"
  BY <1>6 DEF Exec
<1>7. CASE ~Traps(o, cstack) /\ o.op # "ret"
  <2>1. /\ phase' = "run" /\ cstack' \in Results(o, args, cstack)
        /\ pc' = Target(o, pc, cstack)
    BY <1>7 DEF Exec
  <2>2. Goes(ann, pc', cstack')
    BY <1>1, <1>2, <1>4, <1>7, <2>1 DEF StepOK
  <2>3. pc' \in 1 .. Len(code) /\ cstack' \in Stacks /\ Held(ann[pc'], cstack')
    BY <1>1, <2>2 DEF Goes, Built
  <2> QED BY <1>1, <1>2, <1>3, <2>1, <2>3 DEF Described
<1> QED BY <1>5, <1>6, <1>7

\* Whatever the compiler emits next, the word so far stays described.
LEMMA CompileInv ==
  ASSUME DischargeInv, Fits, Fits', Compile
  PROVE  DischargeInv'
<1> SUFFICES ASSUME exact'
             PROVE  \/ phase' = "rejected"
                    \/ Compiling' /\ Compiles'
                    \/ phase' = "start" /\ Assembled'
  BY DEF DischargeInv
<1>1. exact
  BY DEF Compile, EmitOp, CompileCast, CompileCastQ, CompileIf, CompileElse, EndIf,
         CompileWhile, WhileBody, CompileLoop, EndWhile, EndNeeds, Epilogue
<1>2. Compiling
  BY DEF Compile, EmitOp, MayEmit, CompileCast, CompileCastQ, CompileIf, CompileElse, EndIf,
         CompileWhile, WhileBody, CompileLoop, EndWhile, EndNeeds, Epilogue, MayBranch, Inside,
         Compiling
<1>3. Compiles
  BY <1>1, <1>2 DEF DischargeInv, Compiling
<1>4. Compiling /\ phase' = phase => Compiling'
  BY DEF Compiling
<1>5. CASE \E op \in PlainOps : EmitOp(op)
  <2>1. PICK op \in PlainOps : EmitOp(op)
    BY <1>5
  <2>2. phase' = phase
    BY <2>1 DEF EmitOp
  <2> QED BY <1>2, <1>3, <1>4, <2>1, <2>2, EmitOpBuilds
<1>6. CASE CompileCast
  BY <1>2, <1>3, <1>4, <1>6, CompileCastBuilds DEF CompileCast
<1>7. CASE CompileCastQ
  <2>1. phase' = phase
    BY <1>7 DEF CompileCastQ
  <2> QED BY <1>2, <1>3, <1>4, <1>7, <2>1, CompileCastQBuilds
<1>8. CASE CompileIf
  <2>1. phase' = phase
    BY <1>8 DEF CompileIf
  <2> QED BY <1>2, <1>3, <1>4, <1>8, <2>1, CompileIfBuilds
<1>9. CASE CompileElse
  <2>1. phase' = phase
    BY <1>9 DEF CompileElse
  <2> QED BY <1>2, <1>3, <1>4, <1>9, <2>1, CompileElseBuilds
<1>10. CASE EndIf
  <2>1. phase' = phase
    BY <1>10 DEF EndIf
  <2> QED BY <1>2, <1>3, <1>4, <1>10, <2>1, EndIfBuilds
<1>11. CASE CompileWhile
  <2>1. phase' = phase
    BY <1>11 DEF CompileWhile
  <2> QED BY <1>2, <1>3, <1>4, <1>11, <2>1, CompileWhileBuilds
<1>12. CASE WhileBody
  <2>1. phase' = phase
    BY <1>12 DEF WhileBody
  <2> QED BY <1>2, <1>3, <1>4, <1>12, <2>1, WhileBodyBuilds
<1>13. CASE CompileLoop
  <2>1. phase' = phase
    BY <1>13 DEF CompileLoop
  <2> QED BY <1>2, <1>3, <1>4, <1>13, <2>1, CompileLoopBuilds
<1>14. CASE EndWhile
  <2>1. phase' = phase
    BY <1>14 DEF EndWhile
  <2> QED BY <1>2, <1>3, <1>4, <1>14, <2>1, EndWhileBuilds
<1>15. CASE EndNeeds
  <2>1. phase' = "rejected" \/ phase' = "body"
    BY <1>15 DEF EndNeeds
  <2>2. ASSUME phase' = "body" PROVE Compiling' /\ Compiles'
    <3>1. Compiling'
      BY <2>2 DEF Compiling
    <3> QED BY <1>3, <1>15, <2>2, <3>1, EndNeedsBuilds
  <2> QED BY <2>1, <2>2
<1>16. CASE Epilogue
  <2>1. phase' = "start"
    BY <1>16 DEF Epilogue
  <2> QED BY <1>3, <1>16, <2>1, EpilogueBuilds
<1> QED BY <1>5, <1>6, <1>7, <1>8, <1>9, <1>10, <1>11, <1>12, <1>13, <1>14, <1>15, <1>16
        DEF Compile

\* Every step keeps the invariant.
LEMMA NextInv ==
  ASSUME DischargeInv, Fits, Fits', [Next]_vars
  PROVE  DischargeInv'
<1>1. CASE Compile
  BY <1>1, CompileInv
<1>2. CASE Start
  <2>1. phase = "start" /\ phase' = "run" /\ exact' = exact
    BY <1>2 DEF Start
  <2>2. ASSUME exact PROVE Described'
    <3>1. Assembled
      BY <2>1, <2>2 DEF DischargeInv, Compiling
    <3> QED BY <1>2, <3>1, StartDescribed
  <2> QED BY <2>1, <2>2 DEF DischargeInv
<1>3. CASE Exec
  <2>1. phase = "run" /\ exact' = exact
    BY <1>3 DEF Exec
  <2>2. ASSUME exact PROVE phase' \in {"trapped", "returned"} \/ (phase' = "run" /\ Described')
    <3>1. Described
      BY <2>1, <2>2 DEF DischargeInv, Compiling
    <3> QED BY <1>3, <3>1, ExecDescribed
  <2> QED BY <2>1, <2>2 DEF DischargeInv
<1>4. CASE UNCHANGED vars
  BY <1>4 DEF vars, DischargeInv, Compiling, Compiles, Assembled, Described
<1> QED BY <1>1, <1>2, <1>3, <1>4 DEF Next

\* What the invariant says of a machine that stands at an instruction.
LEMMA InvJudges ==
  ASSUME DischargeInv
  PROVE  ElisionSound /\ FailingSound /\ AbstractCovers
<1> SUFFICES ASSUME phase = "run", exact
             PROVE  /\ code[pc].op = "elided" => InRange(At(cstack, 1))
                    /\ code[pc].op = "check" /\ code[pc].v = 1 => ~InRange(At(cstack, 1))
                    /\ code[pc].op = "ret" =>
                         Len(abs) = Len(cstack)
                         /\ \A i \in DOMAIN abs : Contains(abs[i].iv, cstack[i])
  BY DEF ElisionSound, FailingSound, AbstractCovers, Running
<1>1. Described
  BY DEF DischargeInv, Compiling
<1>2. PICK ann : Built(ann, abs, ts, code) /\ pc \in 1 .. Len(code) /\ Held(ann[pc], cstack)
  BY <1>1 DEF Described
<1>3. args \in Inputs /\ cstack \in Stacks
  BY <1>1 DEF Described
<1>4. StepOK(ann, code[pc], pc) /\ (code[pc].op = "ret" => pc = Len(code))
  BY <1>2 DEF Built
<1>5. Judged(code[pc], cstack)
  BY <1>2, <1>3, <1>4 DEF StepOK
<1>6. ASSUME code[pc].op = "ret"
      PROVE  Len(abs) = Len(cstack) /\ \A i \in DOMAIN abs : Contains(abs[i].iv, cstack[i])
  <2>1. ann[pc] = Note(abs, ts) /\ abs \in States /\ ts \in Seq(Types)
    BY <1>2, <1>4, <1>6 DEF Built
  <2>2. Covers(abs, ts, cstack)
    BY <1>2, <2>1, NoteFacts
  <2>3. Len(abs) = Len(ts) /\ Len(cstack) = Len(ts)
        /\ \A i \in 1 .. Len(ts) : Contains(abs[i].iv, cstack[i])
    BY <2>2 DEF Covers, CoversAt
  <2>4. DOMAIN abs = 1 .. Len(ts)
    BY <2>1, <2>3 DEF States
  <2> QED BY <2>3, <2>4
<1> QED BY <1>5, <1>6 DEF Judged

\* The invariant, for every word that never needs more than MaxSlots slots.
THEOREM AlwaysDescribed == Spec /\ []Fits => []DischargeInv
<1>1. Init => DischargeInv
  BY InitInv
<1>2. DischargeInv /\ Fits /\ Fits' /\ [Next]_vars => DischargeInv'
  BY NextInv
<1> QED BY <1>1, <1>2, PTL DEF Spec

\* A trap that was left out would not have fired.
THEOREM ElisionAlwaysSound == Spec /\ []Fits => []ElisionSound
<1>1. DischargeInv => ElisionSound
  BY InvJudges
<1> QED BY <1>1, AlwaysDescribed, PTL

\* A site recorded provably_failing fails whenever it is reached.
THEOREM FailingAlwaysSound == Spec /\ []Fits => []FailingSound
<1>1. DischargeInv => FailingSound
  BY InvJudges
<1> QED BY <1>1, AlwaysDescribed, PTL

\* The abstract stack of the epilogue describes the machine's at the return.
THEOREM AbstractAlwaysCovers == Spec /\ []Fits => []AbstractCovers
<1>1. DischargeInv => AbstractCovers
  BY InvJudges
<1> QED BY <1>1, AlwaysDescribed, PTL

-----------------------------------------------------------------------------
(***************************************************************************)
(* The predicate of needs.  Here only the origins of the slots matter: a   *)
(* slot with the origin of an input holds that input.  Unlike the ranges,  *)
(* this needs no ghost: a predicate has no loops, and `as?' keeps the      *)
(* origins it finds.  Every position of the predicate gets the set of the  *)
(* stacks the machine can have there for given inputs.                     *)
(***************************************************************************)
IntStacks == Seq(Int)
Tells(s, in, x) == s.org \in 0 .. NIn - 1 => x = in[s.org + 1]

\* The stacks that an abstract stack's origins allow.
Told(st, in) ==
  {c \in IntStacks : Len(c) = Len(st) /\ \A i \in 1 .. Len(st) : Tells(st[i], in, c[i])}

\* A pop on both stacks.
LEMMA ToldPop ==
  ASSUME NEW st \in States, Len(st) <= MaxSlots, NEW in \in Inputs, NEW c \in Told(st, in),
         NEW n \in Nat, n <= Len(st)
  PROVE  /\ Pop(st, n) \in States /\ Len(Pop(st, n)) = Len(st) - n
         /\ Below(c, n) \in Told(Pop(st, n), in)
<1>1. Len(st) \in Nat /\ st \in Seq(Slots) /\ c \in Seq(Int) /\ Len(c) = Len(st)
      /\ \A i \in 1 .. Len(st) : Tells(st[i], in, c[i])
  BY DEF Told, States, IntStacks
<1>2. Pop(st, n) \in States /\ Len(Pop(st, n)) = Len(st) - n
  BY StackLengths
<1>3. Pop(st, n) = Below(st, n)
  <2>1. GreatestOf(Len(st) - n, 0) = Len(st) - n /\ LeastOf(Len(st) - n, Len(st)) = Len(st) - n
    BY <1>1 DEF GreatestOf, LeastOf
  <2> QED BY <2>1 DEF Pop, Truncate, Below
<1>4. \A i \in 1 .. Len(st) - n : Below(st, n)[i] = st[i]
  BY <1>1, BelowFacts
<1>5. /\ Below(c, n) \in Seq(Int) /\ Len(Below(c, n)) = Len(st) - n
      /\ \A i \in 1 .. Len(st) - n : Below(c, n)[i] = c[i]
  BY <1>1, BelowFacts
<1>6. \A i \in 1 .. Len(st) - n : Tells(Below(st, n)[i], in, Below(c, n)[i])
  <2> TAKE i \in 1 .. Len(st) - n
  <2>1. i \in 1 .. Len(st)
    BY <1>1
  <2>2. Tells(st[i], in, c[i])
    BY <1>1, <2>1
  <2> QED BY <1>4, <1>5, <2>2
<1>7. Below(c, n) \in Told(Below(st, n), in)
  BY <1>2, <1>3, <1>5, <1>6 DEF Told, IntStacks
<1> QED BY <1>2, <1>3, <1>7

\* A push on both stacks, while the abstract one is not full.
LEMMA ToldPush ==
  ASSUME NEW st \in States, Len(st) < MaxSlots, NEW in \in Inputs, NEW c \in Told(st, in),
         NEW s \in Slots, NEW x \in Int, Tells(s, in, x)
  PROVE  /\ Push(st, s) \in States /\ Len(Push(st, s)) = Len(st) + 1
         /\ Append(c, x) \in Told(Push(st, s), in)
<1>1. Len(st) \in Nat /\ st \in Seq(Slots) /\ c \in Seq(Int) /\ Len(c) = Len(st)
      /\ (\A i \in 1 .. Len(st) : Tells(st[i], in, c[i])) /\ MaxSlots \in Nat
  BY DischargeAssumption DEF Told, States, IntStacks
<1>2. Push(st, s) \in States /\ Len(Push(st, s)) = Len(st) + 1
  BY <1>1, StackLengths
<1>3. Push(st, s) = Append(st, s)
  <2>1. LeastOf(MaxSlots - 1, Len(st)) = Len(st)
    BY <1>1 DEF LeastOf
  <2>2. Below(st, 0) = st /\ Len(st) - 0 = Len(st)
    BY <1>1, BelowNone
  <2> QED BY <2>1, <2>2 DEF Push, Truncate, Below
<1>4. /\ \A i \in 1 .. Len(st) : Append(st, s)[i] = st[i]
      /\ Append(st, s)[Len(st) + 1] = s
  BY <1>1, AppendFacts
<1>5. /\ Append(c, x) \in Seq(Int) /\ Len(Append(c, x)) = Len(st) + 1
      /\ \A i \in 1 .. Len(st) : Append(c, x)[i] = c[i]
      /\ Append(c, x)[Len(st) + 1] = x
  BY <1>1, AppendFacts
<1>6. \A i \in 1 .. Len(st) + 1 : Tells(Append(st, s)[i], in, Append(c, x)[i])
  <2> TAKE i \in 1 .. Len(st) + 1
  <2>1. CASE i \in 1 .. Len(st)
    BY <1>1, <1>4, <1>5, <2>1
  <2>2. CASE i = Len(st) + 1
    BY <1>4, <1>5, <2>2
  <2> QED BY <1>1, <2>1, <2>2
<1>7. Append(c, x) \in Told(Append(st, s), in)
  BY <1>2, <1>3, <1>5, <1>6 DEF Told, IntStacks
<1> QED BY <1>2, <1>3, <1>7

\* The slots at the top tell the values at the top.
LEMMA ToldPeek ==
  ASSUME NEW st \in States, NEW in \in Inputs, NEW c \in Told(st, in),
         NEW n \in Nat \ {0}, n <= Len(st)
  PROVE  Peek(st, n) \in Slots /\ At(c, n) \in Int /\ Tells(Peek(st, n), in, At(c, n))
<1> DEFINE i == Len(st) + 1 - n
<1>1. Len(st) \in Nat /\ c \in Seq(Int) /\ Len(c) = Len(st)
      /\ \A k \in 1 .. Len(st) : Tells(st[k], in, c[k])
  BY DEF Told, States, IntStacks
<1>2. i \in 1 .. Len(st)
  BY <1>1
<1>3. Peek(st, n) = st[i] /\ At(c, n) = c[i]
  BY <1>1 DEF Peek, At
<1>4. Peek(st, n) \in Slots
  BY StateTypes
<1> HIDE DEF i
<1> QED BY <1>1, <1>2, <1>3, <1>4

\* A computed slot tells nothing.
LEMMA ComputedTells ==
  \A iv \in Interval : Computed(iv) \in Slots /\ \A in, x : Tells(Computed(iv), in, x)
<1>1. ASSUME NEW iv \in Interval PROVE Computed(iv).org \notin 0 .. NIn - 1
  BY DEF Computed, OrgComputed
<1> QED BY <1>1, ComputedSlot DEF Tells

\* The transfer function keeps what the origins tell.
LEMMA ToldTransfer ==
  ASSUME NEW st \in States, ts \in Seq(Types), Len(st) = Len(ts), Len(ts) <= MaxSlots,
         NEW o \in PlainOps, NEW t \in Typed(o), Len(t) <= MaxSlots,
         NEW in \in Inputs, NEW c \in Told(st, in), NEW r \in Results(Emitted(o), in, c)
  PROVE  r \in Told(Transfer(st, o), in)
<1> DEFINE a == Peek(st, 2)
           b == Peek(st, 1)
           x == At(c, 2)
           y == At(c, 1)
<1>0. /\ Emitted(o).op = o.op /\ Emitted(o).v = o.v
      /\ \/ o.op = "const" /\ o.ty \in {"int", "bool"} /\ o.v \in Word
         \/ o.op = "get" /\ o.v \in 0 .. NIn - 1
         \/ o.op \in OpNames
  BY WordFacts, DischargeAssumption DEF PlainOps, Op, Emitted, Instr
<1>1. Len(ts) \in Nat /\ Len(st) \in Nat /\ MaxSlots \in Nat /\ Word \subseteq Int
  BY DischargeAssumption, WordFacts
<1>2. Deep(1) => b \in Slots /\ b.iv \in Interval /\ y \in Int /\ Tells(b, in, y)
  <2> SUFFICES ASSUME Deep(1) PROVE b \in Slots /\ y \in Int /\ Tells(b, in, y)
    BY DEF Slots
  <2>1. 1 <= Len(st) /\ 1 \in Nat \ {0}
    BY DEF Deep
  <2> QED BY <2>1, ToldPeek
<1>3. Deep(2) => a \in Slots /\ a.iv \in Interval /\ x \in Int /\ Tells(a, in, x) /\ Deep(1)
  <2> SUFFICES ASSUME Deep(2) PROVE a \in Slots /\ x \in Int /\ Tells(a, in, x) /\ Deep(1)
    BY DEF Slots
  <2>1. 2 <= Len(st) /\ 2 \in Nat \ {0} /\ Deep(1)
    BY <1>1 DEF Deep
  <2> QED BY <2>1, ToldPeek
<1> HIDE DEF a, b, x, y
<1>b. TypedArm(o, t) /\ TransferArm(st, o, a, b) /\ ResultArm(o, in, c, x, y, r)
  <2>1. ResultArm(Emitted(o), in, c, x, y, r)
    BY ResultArms DEF x, y
  <2>2. ResultArm(o, in, c, x, y, r)
    BY <1>0, <2>1 DEF ResultArm
  <2> QED BY <2>2, TypedArms, TransferArms DEF a, b
\* A computed value where the n at the top were.
<1>4. ASSUME NEW n \in {1, 2}, Deep(n), NEW iv \in Interval, NEW v \in Int,
             Transfer(st, o) = Push(Pop(st, n), Computed(iv)), r = Append(Below(c, n), v)
      PROVE  r \in Told(Transfer(st, o), in)
  <2> DEFINE s0 == Pop(st, n)
             c0 == Below(c, n)
             w == Computed(iv)
  <2>1. n <= Len(st) /\ n \in Nat
    BY <1>4 DEF Deep
  <2>2. s0 \in States /\ Len(s0) = Len(st) - n /\ c0 \in Told(s0, in)
    BY <2>1, ToldPop
  <2>3. w \in Slots /\ Tells(w, in, v)
    BY <1>4, ComputedTells
  <2> HIDE DEF s0, c0, w
  <2>4. Len(s0) < MaxSlots
    BY <1>1, <1>4, <2>1, <2>2
  <2>5. Append(c0, v) \in Told(Push(s0, w), in)
    BY <1>4, <2>2, <2>3, <2>4, ToldPush
  <2> QED BY <1>4, <2>5 DEF s0, c0, w
\* A slot and its value on top.
<1>5. ASSUME NEW s \in Slots, NEW v \in Int, Tells(s, in, v), Len(t) = Len(ts) + 1,
             Transfer(st, o) = Push(st, s), r = Append(c, v)
      PROVE  r \in Told(Transfer(st, o), in)
  <2>1. Len(st) < MaxSlots
    BY <1>1, <1>5
  <2>2. Append(c, v) \in Told(Push(st, s), in)
    BY <1>5, <2>1, ToldPush
  <2> QED BY <1>5, <2>2
\* Two slots and their values where the n at the top were.
<1>6. ASSUME NEW n \in {1, 2}, Deep(n), NEW p \in Slots, NEW q \in Slots,
             NEW u \in Int, NEW v \in Int, Tells(p, in, u), Tells(q, in, v),
             Len(ts) - n + 2 <= MaxSlots,
             Transfer(st, o) = Push(Push(Pop(st, n), p), q),
             r = Append(Append(Below(c, n), u), v)
      PROVE  r \in Told(Transfer(st, o), in)
  <2> DEFINE s0 == Pop(st, n)
             c0 == Below(c, n)
  <2>1. n <= Len(st) /\ n \in Nat
    BY <1>6 DEF Deep
  <2>2. s0 \in States /\ Len(s0) = Len(st) - n /\ c0 \in Told(s0, in)
    BY <2>1, ToldPop
  <2> HIDE DEF s0, c0
  <2>3. Len(s0) < MaxSlots /\ Len(s0) + 1 < MaxSlots
    BY <1>1, <1>6, <2>1, <2>2
  <2> DEFINE s1 == Push(s0, p)
             c1 == Append(c0, u)
  <2>4. s1 \in States /\ Len(s1) = Len(s0) + 1 /\ c1 \in Told(s1, in)
    BY <1>6, <2>2, <2>3, ToldPush
  <2>5. Len(s1) < MaxSlots
    BY <2>3, <2>4
  <2> HIDE DEF s1, c1
  <2>6. Append(c1, v) \in Told(Push(s1, q), in)
    BY <1>6, <2>4, <2>5, ToldPush
  <2> QED BY <1>6, <2>6 DEF s0, c0, s1, c1
<1>7. CASE o.op = "const"
  <2>1. o.v \in Word /\ o.ty \in Types
    BY <1>0, <1>7 DEF OpNames, CmpKinds, Types
  <2>2. Len(t) = Len(ts) + 1
    BY <1>7, <1>b, <2>1, AppendFacts DEF TypedArm
  <2>3. Const(o.v) \in Interval
    BY <2>1, IntervalTypes
  <2>4. Computed(Const(o.v)) \in Slots /\ Tells(Computed(Const(o.v)), in, o.v)
    BY <2>3, ComputedTells
  <2> QED BY <1>1, <1>5, <1>7, <1>b, <2>1, <2>2, <2>4 DEF TransferArm, ResultArm
<1>8. CASE o.op = "get"
  <2>1. o.v \in 0 .. NIn - 1 /\ NIn \in Nat
    BY <1>0, <1>8, DischargeAssumption DEF OpNames, CmpKinds, NIn
  <2>2. InTypes[o.v + 1] \in Types /\ [iv |-> Top, org |-> o.v] \in Slots
    BY <2>1, IntervalTypes, DischargeAssumption DEF NIn, Types, Slots
  <2>3. Len(t) = Len(ts) + 1
    BY <1>8, <1>b, <2>2, AppendFacts DEF TypedArm
  <2>4. in[o.v + 1] \in Int
    <3>1. o.v + 1 \in 1 .. NIn
      BY <2>1
    <3>2. in[o.v + 1] \in Word
      BY <3>1 DEF Inputs
    <3> QED BY <1>1, <3>2
  <2>5. Tells([iv |-> Top, org |-> o.v], in, in[o.v + 1])
    BY DEF Tells
  <2> QED BY <1>5, <1>8, <1>b, <2>2, <2>3, <2>4, <2>5 DEF TransferArm, ResultArm
<1>9. CASE o.op = "drop"
  <2>1. Deep(1) /\ Transfer(st, o) = Pop(st, 1) /\ r = Below(c, 1)
    BY <1>9, <1>b DEF TypedArm, TransferArm, ResultArm
  <2>2. 1 <= Len(st)
    BY <2>1 DEF Deep
  <2> QED BY <2>1, <2>2, ToldPop
<1>10. CASE o.op = "dup"
  <2>1. Deep(1) /\ Transfer(st, o) = Push(Push(Pop(st, 1), b), b) /\ r = Append(c, y)
        /\ t = Append(ts, TypeAt(1))
    BY <1>10, <1>b DEF TypedArm, TransferArm, ResultArm, Push2
  <2>2. Len(t) = Len(ts) + 1
    <3>1. TypeAt(1) \in Types
      BY <2>1, RestFacts
    <3> QED BY <2>1, <3>1, AppendFacts
  <2>3. c = Append(Below(c, 1), y)
    <3>1. c \in Seq(Int) /\ Len(c) = Len(ts) /\ 0 < Len(c)
      BY <1>1, <2>1 DEF Told, IntStacks, Deep
    <3>2. Append(Below(c, 0 + 1), c[Len(c) - 0]) = Below(c, 0)
      BY <3>1, FrontLast
    <3>3. Below(c, 0) = c
      BY <3>1, BelowNone
    <3>4. c[Len(c) - 0] = y
      BY <3>1 DEF y, At
    <3> QED BY <3>2, <3>3, <3>4
  <2> QED BY <1>1, <1>2, <1>6, <2>1, <2>2, <2>3
<1>11. CASE o.op = "swap"
  <2>1. Deep(2) /\ Transfer(st, o) = Push(Push(Pop(st, 2), b), a)
        /\ r = Below(c, 2) \o <<y, x>>
    BY <1>11, <1>b DEF TypedArm, TransferArm, ResultArm, Push2
  <2>2. Below(c, 2) \in Seq(Int)
    <3>1. c \in Seq(Int) /\ 2 <= Len(c)
      BY <1>1, <2>1 DEF Told, IntStacks, Deep
    <3> QED BY <3>1, BelowFacts
  <2>3. r = Append(Append(Below(c, 2), y), x)
    BY <1>2, <1>3, <2>1, <2>2, AppendTwice
  <2>4. /\ a \in Slots /\ b \in Slots /\ x \in Int /\ y \in Int
        /\ Tells(a, in, x) /\ Tells(b, in, y) /\ Len(ts) - 2 + 2 <= MaxSlots /\ 2 \in {1, 2}
    BY <1>1, <1>2, <1>3, <2>1
  <2>5. Transfer(st, o) = Push(Push(Pop(st, 2), b), a)
    BY <2>1
  <2> QED BY <1>6, <2>1, <2>3, <2>4, <2>5
<1>12. CASE o.op \in {"add", "sub", "mul"}
  <2>1. Deep(2)
    BY <1>12, <1>b DEF TypedArm
  <2>2. PICK iv \in Interval : Transfer(st, o) = Push(Pop(st, 2), Computed(iv))
    <3>1. /\ Add(a.iv, b.iv) \in Interval /\ Sub(a.iv, b.iv) \in Interval
          /\ Mul(a.iv, b.iv) \in Interval
      BY <1>2, <1>3, <2>1, IntervalTypes
    <3> QED BY <1>12, <3>1, <1>b DEF TransferArm
  <2>3. PICK v \in Int : r = Append(Below(c, 2), v)
    <3>1. x + y \in Int /\ x - y \in Int /\ x * y \in Int
      BY <1>2, <1>3, <2>1
    <3>2. Wrap(x + y) \in Int /\ Wrap(x - y) \in Int /\ Wrap(x * y) \in Int
      BY <1>1, <3>1, WrapInWord
    <3> QED BY <1>12, <3>2, <1>b DEF ResultArm
  <2> QED BY <1>4, <2>1, <2>2, <2>3
<1>13. CASE o.op \in CmpKinds
  <2>1. Deep(2)
    BY <1>13, <1>b DEF TypedArm
  <2>2. /\ Transfer(st, o) = Push(Pop(st, 2), Computed(BoolIv(TriCmp(a.iv, b.iv, o.op))))
        /\ r = Append(Below(c, 2), Flag(Holds(o.op, x, y)))
    BY <1>13, <1>b DEF TransferArm, ResultArm
  <2>3. BoolIv(TriCmp(a.iv, b.iv, o.op)) \in Interval /\ Flag(Holds(o.op, x, y)) \in Int
    BY IntervalTypes DEF Flag
  <2> QED BY <1>4, <2>1, <2>2, <2>3
<1>14. CASE o.op \in {"and", "or"}
  <2>1. Deep(2)
    BY <1>14, <1>b DEF TypedArm
  <2>2. PICK iv \in Interval : Transfer(st, o) = Push(Pop(st, 2), Computed(iv))
    <3>1. /\ BoolIv(TriAnd(TriFromBoolIv(a.iv), TriFromBoolIv(b.iv))) \in Interval
          /\ BoolIv(TriOr(TriFromBoolIv(a.iv), TriFromBoolIv(b.iv))) \in Interval
      BY IntervalTypes
    <3> QED BY <1>14, <3>1, <1>b DEF TransferArm
  <2>3. PICK v \in Int : r = Append(Below(c, 2), v)
    <3>1. x * y \in Int /\ GreatestOf(x, y) \in Int
      BY <1>2, <1>3, <2>1 DEF GreatestOf
    <3> QED BY <1>14, <3>1, <1>b DEF ResultArm
  <2> QED BY <1>4, <2>1, <2>2, <2>3
<1>15. CASE o.op = "not"
  <2>1. /\ Deep(1) /\ r = Append(Below(c, 1), 1 - y)
        /\ Transfer(st, o) = Push(Pop(st, 1), Computed(BoolIv(TriNot(TriFromBoolIv(b.iv)))))
    BY <1>15, <1>b DEF TypedArm, TransferArm, ResultArm
  <2>2. BoolIv(TriNot(TriFromBoolIv(b.iv))) \in Interval /\ 1 - y \in Int
    BY <1>2, <2>1, IntervalTypes
  <2> QED BY <1>4, <2>1, <2>2
<1>16. CASE o.op = "havoc"
  <2>1. Deep(1) /\ Transfer(st, o) = Push(Pop(st, 1), Computed(Top))
    BY <1>16, <1>b DEF TypedArm, TransferArm
  <2>2. PICK v \in Word : r = Append(Below(c, 1), v)
    BY <1>16, <1>b DEF ResultArm
  <2>3. v \in Int /\ Top \in Interval
    BY <1>1, IntervalTypes
  <2> QED BY <1>4, <2>1, <2>2, <2>3
<1> QED
  BY <1>0, <1>7, <1>8, <1>9, <1>10, <1>11, <1>12, <1>13, <1>14, <1>15, <1>16 DEF OpNames

\* A cast, with its check or as a question, tells nothing of its result.
LEMMA ToldCast ==
  ASSUME NEW st \in States, ts \in Seq(Types), Len(st) = Len(ts), Len(ts) <= MaxSlots, Deep(1),
         NEW in \in Inputs, NEW c \in Told(st, in)
  PROVE  c \in Told(CastState(st), in) /\ At(c, 1) \in Int
<1> DEFINE iv == CastNarrow(TopInterval(st), SubLo, SubHi)
           s0 == Pop(st, 1)
           c0 == Below(c, 1)
           y == At(c, 1)
           w == Computed(iv)
<1>1. Len(ts) \in Nat /\ 1 <= Len(ts) /\ MaxSlots \in Nat
  BY DischargeAssumption DEF Deep
<1>2. iv \in Interval
  BY CastFacts
<1>3. CastState(st) = Push(s0, w)
  <2>1. TransferArm(st, Op("cast", 0), Peek(st, 2), Peek(st, 1))
    BY TransferArms
  <2>2. Op("cast", 0).op = "cast"
    BY DEF Op
  <2>3. TopInterval(st) = Peek(st, 1).iv
    BY TopTyped
  <2> QED BY <2>1, <2>2, <2>3 DEF TransferArm, CastState
<1>4. s0 \in States /\ Len(s0) = Len(st) - 1 /\ c0 \in Told(s0, in)
  BY <1>1, ToldPop
<1>5. y \in Int
  BY <1>1, ToldPeek
<1>6. w \in Slots /\ Tells(w, in, y)
  BY <1>2, ComputedTells
<1>7. c = Append(c0, y)
  <2>1. c \in Seq(Int) /\ Len(c) = Len(ts) /\ 0 < Len(c)
    BY <1>1 DEF Told, IntStacks
  <2>2. Append(Below(c, 0 + 1), c[Len(c) - 0]) = Below(c, 0)
    BY <2>1, FrontLast
  <2>3. Below(c, 0) = c
    BY <2>1, BelowNone
  <2>4. c[Len(c) - 0] = y
    BY <2>1 DEF At
  <2> QED BY <2>2, <2>3, <2>4
<1> HIDE DEF s0, c0, y, w
<1>8. Append(c0, y) \in Told(Push(s0, w), in)
  <2>1. Len(s0) < MaxSlots
    BY <1>1, <1>4
  <2> QED BY <1>4, <1>5, <1>6, <2>1, ToldPush
<1> QED BY <1>3, <1>5, <1>7, <1>8 DEF y

\* Where two branches meet, an origin is kept that both agree on.
LEMMA ToldHull ==
  ASSUME NEW s \in States, NEW t \in States, Len(s) = Len(t), NEW in \in Inputs
  PROVE  /\ Told(s, in) \subseteq Told(HullState(s, t, Len(s)), in)
         /\ Told(t, in) \subseteq Told(HullState(s, t, Len(s)), in)
<1> DEFINE h == HullState(s, t, Len(s))
<1>1. Len(s) \in Nat /\ NIn \in Nat
  BY DischargeAssumption DEF States, NIn
<1>2. LeastOf(Len(s), LeastOf(Len(s), Len(t))) = Len(s)
  BY <1>1 DEF LeastOf
<1>3. h = [i \in 1 .. Len(s) |-> HullSlot(s[i], t[i])]
  BY <1>2 DEF HullState
<1>4. Len(h) = Len(s)
  BY HullCovers
<1>5. ASSUME NEW i \in 1 .. Len(s), NEW x, Tells(s[i], in, x) \/ Tells(t[i], in, x)
      PROVE  Tells(h[i], in, x)
  <2>1. h[i].org = IF s[i].org = t[i].org THEN s[i].org ELSE OrgComputed
    BY <1>3 DEF HullSlot
  <2> HIDE DEF h
  <2>2. OrgComputed \notin 0 .. NIn - 1
    BY <1>1 DEF OrgComputed
  <2>3. CASE s[i].org = t[i].org
    BY <1>5, <2>1, <2>3 DEF Tells
  <2>4. CASE s[i].org # t[i].org
    BY <2>1, <2>2, <2>4 DEF Tells
  <2> QED BY <2>3, <2>4
<1> HIDE DEF h
<1> QED BY <1>4, <1>5 DEF Told, h

-----------------------------------------------------------------------------
\* Whatever stacks an instruction is reached with, it leads to a position and
\* a stack of that position.
Leads(ann, in, o, i) ==
  \A c \in ann[i] : \A r \in Results(o, in, c) :
    LET j == Target(o, i, c) IN j \in 1 .. Len(ann) /\ r \in ann[j]

\* What is known of an open branch: its fall-through is settled, and its seed,
\* or its end, tells the stacks it will jump with.
Promised(ann, in, cd, f) ==
  /\ f.kind \in {"then", "else"} /\ f.at \in 1 .. Len(cd)
  /\ f.kind = "then" =>
       /\ cd[f.at].op = "brif" /\ Len(f.seed) = Len(f.base)
       /\ \A c \in ann[f.at] : Below(c, 1) \in ann[f.at + 1] /\ Below(c, 1) \in Told(f.seed, in)
  /\ f.kind = "else" =>
       cd[f.at].op = "br" /\ Len(f.end) = Len(f.types) /\ ann[f.at] \subseteq Told(f.end, in)

\* The predicate so far, with the stacks of its positions.
Traced(ann, in, st, ty, cd, fr) ==
  /\ st \in States /\ ty \in Seq(Types) /\ Len(st) = Len(ty)
  /\ cd \in Seq(Instrs) /\ fr \in Seq(Frames)
  /\ ann \in Seq(SUBSET IntStacks) /\ Len(ann) = Len(cd) + 1
  /\ in \in ann[1] /\ ann[Len(ann)] \subseteq Told(st, in)
  /\ \A i \in 1 .. Len(cd) :
       cd[i].op # "trapiffalse" /\ (~Waits(fr, i) => Leads(ann, in, cd[i], i))
  /\ \A k \in 1 .. Len(fr) : Promised(ann, in, cd, fr[k])

\* Positions are added at the end, and only the last one gets more stacks.
Wider(ann, bnn) ==
  /\ ann \in Seq(SUBSET IntStacks) /\ bnn \in Seq(SUBSET IntStacks) /\ Len(ann) <= Len(bnn)
  /\ Len(ann) > 0
  /\ \A i \in 1 .. Len(ann) - 1 : bnn[i] = ann[i]
  /\ ann[Len(ann)] \subseteq bnn[Len(ann)]

\* What was known before the last position is known still.
LEMMA WiderKeeps ==
  ASSUME NEW ann, NEW bnn, Wider(ann, bnn), NEW in
  PROVE  /\ \A i \in 1 .. Len(ann) : ann[i] \subseteq bnn[i]
         /\ \A i \in 1 .. Len(ann) - 1 : \A o : Leads(ann, in, o, i) => Leads(bnn, in, o, i)
         /\ \A cd, cd2, f :
              /\ Promised(ann, in, cd, f) /\ Len(ann) = Len(cd) + 1 /\ Len(cd) \in Nat
              /\ Len(cd2) \in Nat /\ Len(cd) <= Len(cd2) /\ cd2[f.at].op = cd[f.at].op
              => Promised(bnn, in, cd2, f)
<1>1. Len(ann) \in Nat /\ Len(bnn) \in Nat /\ Len(ann) <= Len(bnn) /\ Len(ann) > 0
  BY DEF Wider
<1>2. ASSUME NEW i \in 1 .. Len(ann) PROVE ann[i] \subseteq bnn[i]
  <2>1. CASE i = Len(ann)
    BY <2>1 DEF Wider
  <2>2. CASE i # Len(ann)
    <3>1. i \in 1 .. Len(ann) - 1
      BY <1>1, <2>2
    <3> QED BY <3>1 DEF Wider
  <2> QED BY <2>1, <2>2
<1>3. ASSUME NEW i \in 1 .. Len(ann) - 1, NEW o, Leads(ann, in, o, i) PROVE Leads(bnn, in, o, i)
  <2> SUFFICES ASSUME NEW c \in bnn[i], NEW r \in Results(o, in, c)
               PROVE  Target(o, i, c) \in 1 .. Len(bnn) /\ r \in bnn[Target(o, i, c)]
    BY DEF Leads
  <2>1. c \in ann[i]
    BY DEF Wider
  <2>2. Target(o, i, c) \in 1 .. Len(ann) /\ r \in ann[Target(o, i, c)]
    BY <1>3, <2>1 DEF Leads
  <2> QED BY <1>1, <1>2, <2>2
<1>4. ASSUME NEW cd, NEW cd2, NEW f, Promised(ann, in, cd, f), Len(ann) = Len(cd) + 1,
             Len(cd) \in Nat, Len(cd2) \in Nat, Len(cd) <= Len(cd2), cd2[f.at].op = cd[f.at].op
      PROVE  Promised(bnn, in, cd2, f)
  <2>1. f.at \in 1 .. Len(cd) /\ f.kind \in {"then", "else"}
    BY <1>4 DEF Promised
  <2>2. f.at \in 1 .. Len(ann) - 1 /\ f.at + 1 \in 1 .. Len(ann) /\ f.at \in 1 .. Len(cd2)
    BY <1>4, <2>1
  <2>3. bnn[f.at] = ann[f.at] /\ ann[f.at + 1] \subseteq bnn[f.at + 1]
    BY <1>2, <2>2 DEF Wider
  <2> QED BY <1>4, <2>1, <2>2, <2>3 DEF Promised
<1> QED BY <1>2, <1>3, <1>4

\* A longer predicate: what is new is traced, an instruction that changed or
\* no longer waits, and a construct that was opened.
Retraces(ann, in, st, ty, cd, fr, bnn, st2, ty2, cd2, fr2) ==
  /\ Traced(ann, in, st, ty, cd, fr) /\ Wider(ann, bnn)
  /\ st2 \in States /\ ty2 \in Seq(Types) /\ Len(st2) = Len(ty2)
  /\ cd2 \in Seq(Instrs) /\ fr2 \in Seq(Frames)
  /\ Len(bnn) = Len(cd2) + 1 /\ bnn[Len(bnn)] \subseteq Told(st2, in)
  /\ \A i \in 1 .. Len(cd) : cd2[i].op = cd[i].op
  /\ \A i \in 1 .. Len(cd2) : i \in 1 .. Len(cd) \/ cd2[i].op # "trapiffalse"
  /\ \A i \in 1 .. Len(cd2) : \/ Waits(fr2, i)
                              \/ i \in 1 .. Len(cd) /\ cd2[i] = cd[i] /\ ~Waits(fr, i)
                              \/ Leads(bnn, in, cd2[i], i)
  /\ \A k \in 1 .. Len(fr2) : \/ k \in 1 .. Len(fr) /\ fr2[k] = fr[k]
                              \/ Promised(bnn, in, cd2, fr2[k])

\* It is traced.
LEMMA Retraced ==
  ASSUME NEW ann, NEW in, NEW st, NEW ty, NEW cd, NEW fr, NEW bnn, NEW st2, NEW ty2, NEW cd2,
         NEW fr2, Retraces(ann, in, st, ty, cd, fr, bnn, st2, ty2, cd2, fr2)
  PROVE  Traced(bnn, in, st2, ty2, cd2, fr2)
<1>1. /\ Len(ann) = Len(cd) + 1 /\ Len(cd) \in Nat /\ Len(cd2) \in Nat /\ Len(cd) <= Len(cd2)
      /\ bnn \in Seq(SUBSET IntStacks) /\ in \in ann[1]
      /\ Wider(ann, bnn) /\ Traced(ann, in, st, ty, cd, fr)
  <2>1. /\ Wider(ann, bnn) /\ Traced(ann, in, st, ty, cd, fr)
        /\ Len(bnn) = Len(cd2) + 1 /\ cd2 \in Seq(Instrs)
    BY DEF Retraces
  <2>2. Len(ann) = Len(cd) + 1 /\ cd \in Seq(Instrs) /\ in \in ann[1]
    BY <2>1 DEF Traced
  <2>3. bnn \in Seq(SUBSET IntStacks) /\ Len(ann) <= Len(bnn)
    BY <2>1 DEF Wider
  <2>4. Len(cd) \in Nat /\ Len(cd2) \in Nat
    BY <2>1, <2>2
  <2> QED BY <2>1, <2>2, <2>3, <2>4
<1>2. in \in bnn[1]
  <2>1. 1 \in 1 .. Len(ann)
    BY <1>1
  <2> QED BY <1>1, <2>1, WiderKeeps
<1>3. ASSUME NEW i \in 1 .. Len(cd2)
      PROVE  cd2[i].op # "trapiffalse" /\ (~Waits(fr2, i) => Leads(bnn, in, cd2[i], i))
  <2>1. cd2[i].op # "trapiffalse"
    BY DEF Retraces, Traced
  <2>2. CASE i \in 1 .. Len(cd) /\ cd2[i] = cd[i] /\ ~Waits(fr, i)
    <3>1. Leads(ann, in, cd[i], i) /\ i \in 1 .. Len(ann) - 1
      BY <1>1, <2>2 DEF Traced
    <3> QED BY <1>1, <2>1, <2>2, <3>1, WiderKeeps
  <2> QED BY <2>1, <2>2 DEF Retraces
<1>4. ASSUME NEW k \in 1 .. Len(fr2) PROVE Promised(bnn, in, cd2, fr2[k])
  <2>1. CASE k \in 1 .. Len(fr) /\ fr2[k] = fr[k]
    <3>1. Promised(ann, in, cd, fr[k])
      BY <1>1, <2>1 DEF Traced
    <3>2. cd2[fr[k].at].op = cd[fr[k].at].op
      BY <3>1 DEF Promised, Retraces
    <3> QED BY <1>1, <2>1, <3>1, <3>2, WiderKeeps
  <2> QED BY <2>1 DEF Retraces
<1> QED BY <1>1, <1>2, <1>3, <1>4 DEF Traced, Retraces

\* One position more.
LEMMA PositionAdded ==
  ASSUME NEW ann, NEW in, NEW st, NEW ty, NEW cd, NEW fr, Traced(ann, in, st, ty, cd, fr),
         NEW N \in SUBSET IntStacks
  PROVE  /\ Wider(ann, Append(ann, N)) /\ Len(Append(ann, N)) = Len(cd) + 2
         /\ Append(ann, N)[Len(cd) + 2] = N
         /\ \A i \in 1 .. Len(cd) + 1 : Append(ann, N)[i] = ann[i]
<1>1. ann \in Seq(SUBSET IntStacks) /\ Len(ann) = Len(cd) + 1 /\ Len(cd) \in Nat
  BY DEF Traced
<1> DEFINE b == Append(ann, N)
<1>2. /\ b \in Seq(SUBSET IntStacks) /\ Len(b) = Len(ann) + 1 /\ b[Len(ann) + 1] = N
      /\ \A i \in 1 .. Len(ann) : b[i] = ann[i]
  BY <1>1, AppendFacts
<1> HIDE DEF b
<1>3. Wider(ann, b)
  BY <1>1, <1>2 DEF Wider
<1> QED BY <1>1, <1>2, <1>3 DEF b

\* The stacks an abstract stack tells are stacks.
LEMMA ToldTypes == \A st, in : Told(st, in) \in SUBSET IntStacks
  BY DEF Told

\* An instruction that goes on to the next position.
LEMMA StraightTraced ==
  ASSUME NEW in \in Inputs, NEW ann, Traced(ann, in, abs, ts, code, ctl),
         NEW o \in Instrs, o.op \notin {"br", "brif", "trapiffalse"},
         abs' \in States, ts' \in Seq(Types), Len(abs') = Len(ts'),
         \A c \in Told(abs, in) : \A r \in Results(o, in, c) : r \in Told(abs', in),
         code' = Append(code, o), ctl' = ctl
  PROVE  \E bnn : Traced(bnn, in, abs', ts', code', ctl')
<1> DEFINE N == Told(abs', in)
           bnn == Append(ann, N)
           cd2 == Append(code, o)
           L == Len(code) + 1
<1>1. /\ code \in Seq(Instrs) /\ Len(code) \in Nat /\ ctl \in Seq(Frames) /\ Len(ann) = L
      /\ ann[L] \subseteq Told(abs, in)
  BY DEF Traced
<1>2. /\ cd2 \in Seq(Instrs) /\ Len(cd2) = L /\ cd2[L] = o
      /\ \A i \in 1 .. Len(code) : cd2[i] = code[i]
  BY <1>1, AppendFacts
<1>3. /\ Wider(ann, bnn) /\ Len(bnn) = L + 1 /\ bnn[L + 1] = N /\ bnn[L] = ann[L]
  BY <1>1, ToldTypes, PositionAdded
<1> HIDE DEF bnn, cd2
<1>4. Leads(bnn, in, o, L)
  <2> SUFFICES ASSUME NEW c \in bnn[L], NEW r \in Results(o, in, c)
               PROVE  Target(o, L, c) \in 1 .. Len(bnn) /\ r \in bnn[Target(o, L, c)]
    BY DEF Leads
  <2>1. Target(o, L, c) = L + 1
    BY DEF Target
  <2>2. c \in Told(abs, in)
    BY <1>1, <1>3
  <2> QED BY <1>1, <1>3, <2>1, <2>2
<1>5. \A i \in 1 .. Len(cd2) : i \in 1 .. Len(code) \/ i = L
  BY <1>1, <1>2
<1>6. Traced(bnn, in, abs', ts', cd2, ctl)
  <2> DEFINE st2 == abs'
             ty2 == ts'
  <2>0. st2 \in States /\ ty2 \in Seq(Types) /\ Len(st2) = Len(ty2)
    OBVIOUS
  <2>1. Len(bnn) = Len(cd2) + 1 /\ bnn[Len(bnn)] \subseteq Told(st2, in)
    BY <1>1, <1>2, <1>3
  <2>2. \A i \in 1 .. Len(code) : cd2[i].op = code[i].op
    BY <1>2
  <2>3. \A i \in 1 .. Len(cd2) : \/ i \in 1 .. Len(code)
                                 \/ cd2[i].op # "trapiffalse"
    BY <1>2, <1>5
  <2>4. \A i \in 1 .. Len(cd2) : \/ Waits(ctl, i)
                                 \/ i \in 1 .. Len(code) /\ cd2[i] = code[i] /\ ~Waits(ctl, i)
                                 \/ Leads(bnn, in, cd2[i], i)
    BY <1>2, <1>4, <1>5
  <2>5. \A k \in 1 .. Len(ctl) : \/ k \in 1 .. Len(ctl) /\ ctl[k] = ctl[k]
                                 \/ Promised(bnn, in, cd2, ctl[k])
    OBVIOUS
  <2>6. Wider(ann, bnn) /\ cd2 \in Seq(Instrs) /\ ctl \in Seq(Frames)
    BY <1>1, <1>2, <1>3
  <2> HIDE DEF N, L, st2, ty2
  <2>7. Retraces(ann, in, abs, ts, code, ctl, bnn, st2, ty2, cd2, ctl)
    BY <2>0, <2>1, <2>2, <2>3, <2>4, <2>5, <2>6 DEF Retraces
  <2>8. Traced(bnn, in, st2, ty2, cd2, ctl)
    BY <2>7, Retraced
  <2> QED BY <2>8 DEF st2, ty2
<1> QED BY <1>6 DEF cd2

\* What the compiler keeps while the predicate is traced.
LEMMA TracedTypes ==
  ASSUME NEW in, NEW ann, Traced(ann, in, abs, ts, code, ctl)
  PROVE  /\ abs \in States /\ ts \in Seq(Types) /\ Len(abs) = Len(ts) /\ Len(ts) \in Nat
         /\ code \in Seq(Instrs) /\ Len(code) \in Nat /\ ctl \in Seq(Frames) /\ Len(ctl) \in Nat
         /\ Len(ann) = Len(code) + 1 /\ ann[Len(code) + 1] \subseteq Told(abs, in)
  BY DEF Traced

\* An operation in the predicate.
LEMMA EmitOpTraced ==
  ASSUME NEW in \in Inputs, NEW ann, Traced(ann, in, abs, ts, code, ctl), Fits, Fits',
         NEW op \in PlainOps, EmitOp(op)
  PROVE  \E bnn : Traced(bnn, in, abs', ts', code', ctl')
<1>1. PICK t \in Typed(op) : ts' = t
  BY DEF EmitOp
<1>2. /\ abs' = Transfer(abs, op) /\ code' = Append(code, Emitted(op)) /\ ctl' = ctl
  BY DEF EmitOp
<1>3. Len(ts) <= MaxSlots /\ Len(t) <= MaxSlots
  BY <1>1 DEF Fits
<1>4. abs' \in States /\ ts' \in Seq(Types) /\ Len(abs') = Len(ts')
  BY <1>1, <1>2, <1>3, TracedTypes, TransferTypes
<1>5. /\ Emitted(op) \in Instrs /\ Emitted(op).op \notin {"br", "brif", "ret"}
  BY <1>3, TracedTypes, PlainSteps
<1>6. Emitted(op).op # "trapiffalse"
  <2>1. Emitted(op).op \in OpNames \cup {"const", "get"}
    BY DischargeAssumption DEF PlainOps, Op, Emitted, Instr
  <2> QED BY <2>1 DEF OpNames, CmpKinds
<1>7. \A c \in Told(abs, in) : \A r \in Results(Emitted(op), in, c) : r \in Told(abs', in)
  BY <1>1, <1>2, <1>3, TracedTypes, ToldTransfer
<1> QED BY <1>2, <1>4, <1>5, <1>6, <1>7, StraightTraced

\* A cast in the predicate.
LEMMA CompileCastTraced ==
  ASSUME NEW in \in Inputs, NEW ann, Traced(ann, in, abs, ts, code, ctl), Fits, CompileCast
  PROVE  \E bnn : Traced(bnn, in, abs', ts', code', ctl')
<1> DEFINE o == EmitSubtypeCheck(OfRange(TopInterval(abs), SubLo, SubHi))
<1>1. /\ Deep(1) /\ ts' = Append(Rest(1), "sub") /\ code' = Append(code, o) /\ ctl' = ctl
      /\ abs' = CastState(abs)
  BY DEF CompileCast, CastState
<1>2. abs' \in States /\ ts' \in Seq(Types) /\ Len(abs') = Len(ts')
  BY <1>1, TracedTypes, CastFacts DEF Fits
<1>3. o \in Instrs /\ o.op \in {"check", "elided"}
  <2>1. TopInterval(abs) \in Interval
    BY <1>1, TracedTypes, TopTyped
  <2> QED BY <2>1, SiteSound
<1> HIDE DEF o
<1>4. ASSUME NEW c \in Told(abs, in), NEW r \in Results(o, in, c) PROVE r \in Told(abs', in)
  <2>1. ResultArm(o, in, c, At(c, 2), At(c, 1), r)
    BY ResultArms
  <2>2. r = c
    BY <1>3, <2>1 DEF ResultArm
  <2> QED BY <1>1, <2>2, TracedTypes, ToldCast DEF Fits
<1> QED BY <1>1, <1>2, <1>3, <1>4, StraightTraced

\* A question in the predicate.
LEMMA CompileCastQTraced ==
  ASSUME NEW in \in Inputs, NEW ann, Traced(ann, in, abs, ts, code, ctl), Fits, Fits', CompileCastQ
  PROVE  \E bnn : Traced(bnn, in, abs', ts', code', ctl')
<1> DEFINE o == Instr("as?", 0)
           s1 == CastState(abs)
           v == TopInterval(s1)
           t1 == Append(Rest(1), "sub")
           iv == BoolIv(TriAnd(TriCmp(v, Const(SubLo), "ge"), TriCmp(v, Const(SubHi), "le")))
           w == Computed(iv)
<1>1. /\ Deep(1) /\ ts' = Rest(1) \o <<"sub", "bool">> /\ code' = Append(code, o) /\ ctl' = ctl
      /\ abs' = Push(s1, w)
  BY DEF CompileCastQ, CastState
<1>2. s1 \in States /\ t1 \in Seq(Types) /\ Len(s1) = Len(ts) /\ Len(t1) = Len(ts)
  BY <1>1, TracedTypes, CastFacts DEF Fits
<1>3. ts' = Append(t1, "bool") /\ ts' \in Seq(Types) /\ Len(ts') = Len(ts) + 1
  <2>1. "bool" \in Types /\ "sub" \in Types /\ Rest(1) \in Seq(Types)
    BY <1>1, TracedTypes, RestFacts DEF Types
  <2>2. ts' = Append(t1, "bool")
    BY <1>1, <2>1, AppendTwice
  <2>3. Append(t1, "bool") \in Seq(Types) /\ Len(Append(t1, "bool")) = Len(t1) + 1
    BY <1>2, <2>1, AppendFacts
  <2> QED BY <1>2, <2>1, <2>2, <2>3
<1>4. w \in Slots /\ \A x : Tells(w, in, x)
  BY IntervalTypes, ComputedTells
<1>5. Len(s1) < MaxSlots /\ Len(s1) <= MaxSlots
  <2>1. MaxSlots \in Nat
    BY DischargeAssumption
  <2> QED BY <1>2, <1>3, <2>1, TracedTypes DEF Fits
<1>6. o \in Instrs /\ o.op = "as?"
  BY DEF Instr, Instrs, Ops
<1> HIDE DEF o, s1, w, t1
<1>7. abs' \in States /\ Len(abs') = Len(ts')
  <2>1. Push(s1, w) \in States /\ Len(Push(s1, w)) = Len(s1) + 1
    BY <1>2, <1>4, <1>5, StackLengths
  <2> QED BY <1>1, <1>2, <1>3, <2>1
<1>8. ASSUME NEW c \in Told(abs, in), NEW r \in Results(o, in, c) PROVE r \in Told(abs', in)
  <2> DEFINE x == Flag(InRange(At(c, 1)))
  <2>1. ResultArm(o, in, c, At(c, 2), At(c, 1), r)
    BY ResultArms
  <2>2. r = Append(c, x)
    BY <1>6, <2>1 DEF ResultArm
  <2>3. c \in Told(s1, in)
    BY <1>1, TracedTypes, ToldCast DEF Fits, s1
  <2>4. x \in Int
    BY DEF Flag
  <2> HIDE DEF x
  <2>5. Append(c, x) \in Told(Push(s1, w), in)
    BY <1>2, <1>4, <1>5, <2>3, <2>4, ToldPush
  <2> QED BY <1>1, <2>2, <2>5
<1> QED BY <1>1, <1>3, <1>6, <1>7, <1>8, StraightTraced

\* The innermost construct of a predicate is a conditional.
LEMMA TracedFrame ==
  ASSUME NEW in, NEW ann, Traced(ann, in, abs, ts, code, ctl), ctl # <<>>
  PROVE  /\ Frame \in Frames /\ Promised(ann, in, code, Frame)
         /\ Frame.kind \in {"then", "else"}
<1>1. ctl \in Seq(Frames) /\ \A k \in 1 .. Len(ctl) : Promised(ann, in, code, ctl[k])
  BY DEF Traced
<1>2. Frame \in Frames /\ Promised(ann, in, code, Frame)
  BY <1>1, FrameFacts DEF Frame
<1> QED BY <1>2 DEF Promised

\* Below the condition of a branch.
LEMMA ToldBelow ==
  ASSUME NEW in \in Inputs, NEW ann, Traced(ann, in, abs, ts, code, ctl), Fits, Deep(1)
  PROVE  LET st2 == Truncate(abs, Len(Rest(1)))
         IN /\ st2 \in States /\ Rest(1) \in Seq(Types) /\ Len(st2) = Len(Rest(1))
            /\ \A c \in Told(abs, in) : Below(c, 1) \in Told(st2, in)
<1> DEFINE st2 == Truncate(abs, Len(Rest(1)))
<1>1. abs \in States /\ ts \in Seq(Types) /\ Len(abs) = Len(ts) /\ Len(ts) \in Nat
  BY TracedTypes
<1>2. Rest(1) \in Seq(Types) /\ Len(Rest(1)) = Len(ts) - 1 /\ 1 <= Len(ts)
  BY <1>1, RestFacts
<1>3. st2 = Pop(abs, 1)
  <2>1. GreatestOf(Len(abs) - 1, 0) = Len(Rest(1))
    BY <1>1, <1>2 DEF GreatestOf
  <2> QED BY <2>1 DEF Pop
<1>4. 1 \in Nat /\ 1 <= Len(abs) /\ Len(abs) <= MaxSlots
  BY <1>1, <1>2 DEF Fits
<1>5. Pop(abs, 1) \in States /\ Len(Pop(abs, 1)) = Len(abs) - 1
  BY <1>1, <1>4, StackLengths
<1>6. \A c \in Told(abs, in) : Below(c, 1) \in Told(Pop(abs, 1), in)
  BY <1>1, <1>4, ToldPop
<1> HIDE DEF st2
<1> QED BY <1>1, <1>2, <1>3, <1>5, <1>6 DEF st2

\* A conditional is opened in the predicate.
LEMMA CompileIfTraced ==
  ASSUME NEW in \in Inputs, NEW ann, Traced(ann, in, abs, ts, code, ctl), Fits, CompileIf
  PROVE  \E bnn : Traced(bnn, in, abs', ts', code', ctl')
<1> DEFINE st2 == abs'
           ty2 == ts'
           f == Opened("then", Len(code) + 1, 0, st2, ty2)
           o == Instr("brif", 0)
           cd2 == Append(code, o)
           fr2 == Append(ctl, f)
           L == Len(code) + 1
           bnn == Append(ann, Told(st2, in))
<1>1. Deep(1) /\ ty2 = Rest(1) /\ st2 = Truncate(abs, Len(ty2)) /\ code' = cd2
  BY DEF CompileIf
<1>2. ctl' = fr2
  <2>1. ~Inside({"header"})
    BY TracedFrame DEF Inside
  <2> QED BY <2>1 DEF CompileIf, HeaderClosed
<1>3. /\ st2 \in States /\ ty2 \in Seq(Types) /\ Len(st2) = Len(ty2)
      /\ \A c \in Told(abs, in) : Below(c, 1) \in Told(st2, in)
  BY <1>1, ToldBelow
<1>4. /\ abs \in States /\ code \in Seq(Instrs) /\ Len(code) \in Nat /\ ctl \in Seq(Frames)
      /\ Len(ctl) \in Nat /\ Len(ann) = L /\ ann[L] \subseteq Told(abs, in)
  BY TracedTypes
<1>5. /\ f \in Frames /\ f.kind = "then" /\ f.at = L /\ f.seed = st2 /\ f.base = ty2
  <2>1. "then" \in FrameKinds /\ L \in Nat /\ 0 \in Nat
    BY <1>4 DEF FrameKinds
  <2>2. f = [kind |-> "then", at |-> L, head |-> 0, seed |-> st2, end |-> <<>>, base |-> ty2,
             types |-> <<>>, entry |-> abs]
    BY DEF Opened
  <2>3. abs \in States
    BY <1>4
  <2>4. st2 \in States
    BY <1>3
  <2>5. ty2 \in Seq(Types)
    BY <1>3
  <2> HIDE DEF f, st2, ty2, L
  <2> QED BY <2>1, <2>2, <2>3, <2>4, <2>5, OpenedFrame
<1>6. o \in Instrs /\ o.op = "brif"
  BY DEF Instr, Instrs, Ops
<1> HIDE DEF f, o
<1>7. /\ cd2 \in Seq(Instrs) /\ Len(cd2) = L /\ cd2[L] = o
      /\ \A i \in 1 .. Len(code) : cd2[i] = code[i]
  BY <1>4, <1>6, AppendFacts
<1>8. /\ fr2 \in Seq(Frames) /\ Len(fr2) = Len(ctl) + 1 /\ fr2[Len(ctl) + 1] = f
      /\ \A k \in 1 .. Len(ctl) : fr2[k] = ctl[k]
  BY <1>4, <1>5, AppendFacts
<1>9. /\ Wider(ann, bnn) /\ Len(bnn) = L + 1 /\ bnn[L + 1] = Told(st2, in) /\ bnn[L] = ann[L]
  BY <1>4, ToldTypes, PositionAdded
<1> HIDE DEF st2, ty2, cd2, fr2, bnn
<1>10. Promised(bnn, in, cd2, f)
  <2>1. L \in 1 .. Len(cd2) /\ cd2[L].op = "brif"
    BY <1>4, <1>6, <1>7
  <2>2. \A c \in bnn[L] : Below(c, 1) \in bnn[L + 1] /\ Below(c, 1) \in Told(st2, in)
    BY <1>3, <1>4, <1>9
  <2> HIDE DEF L
  <2> QED BY <1>3, <1>5, <2>1, <2>2 DEF Promised
<1>11. Waits(fr2, L) /\ \A i : Waits(ctl, i) => Waits(fr2, i)
  <2>1. Len(ctl) + 1 \in 1 .. Len(fr2)
    BY <1>4, <1>8
  <2>2. Waits(fr2, L)
    BY <1>5, <1>8, <2>1 DEF Waits, Branching
  <2>3. ASSUME NEW i, Waits(ctl, i) PROVE Waits(fr2, i)
    <3>1. PICK k \in 1 .. Len(ctl) : ctl[k].kind \in Branching /\ ctl[k].at = i
      BY <2>3 DEF Waits
    <3>2. k \in 1 .. Len(fr2) /\ fr2[k] = ctl[k]
      BY <1>4, <1>8, <3>1
    <3> QED BY <3>1, <3>2 DEF Waits
  <2> QED BY <2>2, <2>3
<1>12. Traced(bnn, in, st2, ty2, cd2, fr2)
  <2>1. Len(bnn) = Len(cd2) + 1 /\ bnn[Len(bnn)] \subseteq Told(st2, in)
    BY <1>4, <1>7, <1>9
  <2>2. \A i \in 1 .. Len(code) : cd2[i].op = code[i].op
    BY <1>7
  <2>3. \A i \in 1 .. Len(cd2) : i \in 1 .. Len(code) \/ i = L
    BY <1>4, <1>7
  <2>4. \A i \in 1 .. Len(cd2) : i \in 1 .. Len(code) \/ cd2[i].op # "trapiffalse"
    BY <1>6, <1>7, <2>3
  <2>5. \A i \in 1 .. Len(cd2) : \/ Waits(fr2, i)
                                 \/ i \in 1 .. Len(code) /\ cd2[i] = code[i] /\ ~Waits(ctl, i)
                                 \/ Leads(bnn, in, cd2[i], i)
    BY <1>7, <1>11, <2>3
  <2>6. \A k \in 1 .. Len(fr2) : \/ k \in 1 .. Len(ctl) /\ fr2[k] = ctl[k]
                                 \/ Promised(bnn, in, cd2, fr2[k])
    <3> TAKE k \in 1 .. Len(fr2)
    <3>1. k \in 1 .. Len(ctl) \/ k = Len(ctl) + 1
      BY <1>4, <1>8
    <3> QED BY <1>8, <1>10, <3>1
  <2> HIDE DEF L
  <2>7. Retraces(ann, in, abs, ts, code, ctl, bnn, st2, ty2, cd2, fr2)
    BY <1>3, <1>7, <1>8, <1>9, <2>1, <2>2, <2>4, <2>5, <2>6 DEF Retraces
  <2> QED BY <2>7, Retraced
<1> QED BY <1>1, <1>2, <1>12 DEF st2, ty2

\* Where a filled-in branch or jump goes.
LEMMA FilledLeads ==
  ASSUME NEW bnn, NEW in, NEW o, NEW i,
         \/ /\ o.op = "br" /\ o.v \in 1 .. Len(bnn)
            /\ \A c \in bnn[i] : c \in bnn[o.v]
         \/ /\ o.op = "brif" /\ o.v \in 1 .. Len(bnn) /\ i + 1 \in 1 .. Len(bnn)
            /\ \A c \in bnn[i] : Below(c, 1) \in bnn[i + 1] /\ Below(c, 1) \in bnn[o.v]
  PROVE  Leads(bnn, in, o, i)
<1> SUFFICES ASSUME NEW c \in bnn[i], NEW r \in Results(o, in, c)
             PROVE  Target(o, i, c) \in 1 .. Len(bnn) /\ r \in bnn[Target(o, i, c)]
  BY DEF Leads
<1>1. ResultArm(o, in, c, At(c, 2), At(c, 1), r)
  BY ResultArms
<1>2. CASE o.op = "br"
  <2>1. r = c
    BY <1>1, <1>2 DEF ResultArm
  <2>2. Target(o, i, c) = o.v
    BY <1>2 DEF Target
  <2> QED BY <1>2, <2>1, <2>2
<1>3. CASE o.op = "brif"
  <2>1. r = Below(c, 1)
    BY <1>1, <1>3 DEF ResultArm
  <2>2. Target(o, i, c) \in {i + 1, o.v}
    BY <1>3 DEF Target
  <2> QED BY <1>3, <2>1, <2>2
<1> QED BY <1>2, <1>3

\* Its other branch is opened.
LEMMA CompileElseTraced ==
  ASSUME NEW in \in Inputs, NEW ann, Traced(ann, in, abs, ts, code, ctl), CompileElse
  PROVE  \E bnn : Traced(bnn, in, abs', ts', code', ctl')
<1> DEFINE f == Frame
           o == Instr("br", 0)
           g == [f EXCEPT !.kind = "else", !.at = Len(code) + 1, !.end = abs, !.types = ts]
           cd1 == Append(code, o)
           cd2 == Filled(cd1, f.at, Len(code) + 2)
           fr2 == Append(Outer, g)
           L == Len(code) + 1
           st2 == f.seed
           ty2 == f.base
           bnn == Append(ann, Told(st2, in))
<1>1. /\ ctl # <<>> /\ f.kind = "then" /\ code' = cd2 /\ ctl' = fr2
      /\ abs' = st2 /\ ts' = ty2
  BY DEF CompileElse, Inside, Filled
<1>2. /\ abs \in States /\ ts \in Seq(Types) /\ Len(abs) = Len(ts) /\ code \in Seq(Instrs)
      /\ Len(code) \in Nat /\ ctl \in Seq(Frames)
      /\ Len(ctl) \in Nat /\ Len(ann) = L /\ ann[L] \subseteq Told(abs, in)
  BY TracedTypes
<1>3. f \in Frames /\ Promised(ann, in, code, f)
  BY <1>1, TracedFrame
<1>4. /\ st2 \in States /\ ty2 \in Seq(Types) /\ Len(st2) = Len(ty2) /\ f.at \in 1 .. Len(code)
      /\ code[f.at].op = "brif"
      /\ \A c \in ann[f.at] : Below(c, 1) \in ann[f.at + 1] /\ Below(c, 1) \in Told(st2, in)
  BY <1>1, <1>3 DEF Frames, Promised
<1>5. o \in Instrs /\ o.op = "br"
  BY DEF Instr, Instrs, Ops
<1>6. /\ g \in Frames /\ g.kind = "else" /\ g.at = L /\ g.end = abs /\ g.types = ts
  <2>0. f \in Frames
        /\ g = [f EXCEPT !.kind = "else", !.at = Len(code) + 1, !.end = abs, !.types = ts]
    BY <1>3
  <2>1. /\ f.head \in Nat /\ f.seed \in States /\ f.base \in Seq(Types) /\ f.entry \in States
    BY <1>3 DEF Frames
  <2> HIDE DEF f, g
  <2>2. g = [kind |-> "else", at |-> Len(code) + 1, head |-> f.head, seed |-> f.seed,
             end |-> abs, base |-> f.base, types |-> ts, entry |-> f.entry]
    BY <2>0 DEF Frames
  <2>3. "else" \in FrameKinds /\ Len(code) + 1 \in Nat
    BY <1>2 DEF FrameKinds
  <2>4. g \in Frames
    <3> HIDE DEF States
    <3> QED BY <1>2, <2>1, <2>2, <2>3 DEF Frames
  <2> QED BY <2>2, <2>4
<1> HIDE DEF o, g
<1>7. /\ cd1 \in Seq(Instrs) /\ Len(cd1) = L /\ cd1[L] = o
      /\ \A i \in 1 .. Len(code) : cd1[i] = code[i]
  BY <1>2, <1>5, AppendFacts
<1> HIDE DEF cd1
<1>8. /\ cd2 \in Seq(Instrs) /\ Len(cd2) = L /\ cd2[L].op = "br"
      /\ cd2[f.at].op = "brif" /\ cd2[f.at].v = L + 1
      /\ \A i \in 1 .. Len(code) : cd2[i].op = code[i].op /\ (i # f.at => cd2[i] = code[i])
  <2> DEFINE at == f.at
             v == Len(code) + 2
             e == Filled(cd1, at, v)
  <2>1. at \in 1 .. Len(cd1) /\ v \in Int /\ cd2 = e /\ L \in 1 .. Len(cd1)
    BY <1>2, <1>4, <1>7
  <2> HIDE DEF at, v, cd2
  <2>2. /\ e \in Seq(Instrs) /\ Len(e) = Len(cd1) /\ e[at].op = cd1[at].op /\ e[at].v = v
        /\ \A i \in 1 .. Len(cd1) : e[i].op = cd1[i].op /\ (i # at => e[i] = cd1[i])
    BY <1>7, <2>1, TargetFilled
  <2> HIDE DEF e
  <2>3. v = L + 1 /\ \A i \in 1 .. Len(code) : i \in 1 .. Len(cd1)
    BY <1>2, <1>7 DEF v
  <2> QED BY <1>4, <1>5, <1>7, <2>1, <2>2, <2>3 DEF at
<1>9. /\ fr2 \in Seq(Frames) /\ Len(fr2) = Len(ctl) /\ fr2[Len(ctl)] = g /\ Len(ctl) \in 1 .. Len(ctl)
      /\ \A k \in 1 .. Len(ctl) - 1 : fr2[k] = ctl[k]
  BY <1>1, <1>2, <1>6, FrameFacts
<1>10. /\ Wider(ann, bnn) /\ Len(bnn) = L + 1 /\ bnn[L + 1] = Told(st2, in)
       /\ \A i \in 1 .. L : bnn[i] = ann[i]
  BY <1>2, ToldTypes, PositionAdded
<1> HIDE DEF st2, ty2, cd2, fr2, bnn
<1>11. Promised(bnn, in, cd2, g)
  <2>1. L \in 1 .. Len(cd2) /\ L \in 1 .. L
    BY <1>2, <1>8
  <2>2. bnn[L] \subseteq Told(abs, in)
    BY <1>2, <1>10, <2>1
  <2> HIDE DEF L
  <2> QED BY <1>2, <1>6, <1>8, <2>1, <2>2 DEF Promised
<1>12. Leads(bnn, in, cd2[f.at], f.at)
  <2> DEFINE at == f.at
             e == cd2[f.at]
  <2>1. /\ at \in 1 .. L /\ at + 1 \in 1 .. L /\ L + 1 \in 1 .. Len(bnn)
        /\ at + 1 \in 1 .. Len(bnn)
    BY <1>2, <1>4, <1>10
  <2>2. bnn[at] = ann[at] /\ bnn[at + 1] = ann[at + 1]
    BY <1>10, <2>1
  <2>3. e.op = "brif" /\ e.v = L + 1
    BY <1>8
  <2>4. \A c \in bnn[at] : Below(c, 1) \in bnn[at + 1] /\ Below(c, 1) \in bnn[e.v]
    BY <1>4, <1>10, <2>2, <2>3
  <2> HIDE DEF at, e
  <2>5. Leads(bnn, in, e, at)
    BY <2>1, <2>3, <2>4, FilledLeads
  <2> QED BY <2>5 DEF at, e
<1>13. Waits(fr2, L) /\ \A i : Waits(ctl, i) /\ i # f.at => Waits(fr2, i)
  <2>1. Waits(fr2, L)
    BY <1>6, <1>9 DEF Waits, Branching
  <2>2. ASSUME NEW i, Waits(ctl, i), i # f.at PROVE Waits(fr2, i)
    <3>1. PICK k \in 1 .. Len(ctl) : ctl[k].kind \in Branching /\ ctl[k].at = i
      BY <2>2 DEF Waits
    <3>2. k # Len(ctl)
      BY <2>2, <3>1 DEF Frame
    <3>3. k \in 1 .. Len(ctl) - 1 /\ k \in 1 .. Len(fr2)
      BY <1>2, <1>9, <3>2
    <3> QED BY <1>9, <3>1, <3>3 DEF Waits
  <2> QED BY <2>1, <2>2
<1>14. Traced(bnn, in, st2, ty2, cd2, fr2)
  <2>1. Len(bnn) = Len(cd2) + 1 /\ bnn[Len(bnn)] \subseteq Told(st2, in)
    BY <1>2, <1>8, <1>10
  <2>2. \A i \in 1 .. Len(code) : cd2[i].op = code[i].op
    BY <1>8
  <2>3. \A i \in 1 .. Len(cd2) : i \in 1 .. Len(code) \/ i = L
    BY <1>2, <1>8
  <2>4. \A i \in 1 .. Len(cd2) : i \in 1 .. Len(code) \/ cd2[i].op # "trapiffalse"
    BY <1>8, <2>3
  <2>5. \A i \in 1 .. Len(cd2) : \/ Waits(fr2, i)
                                 \/ i \in 1 .. Len(code) /\ cd2[i] = code[i] /\ ~Waits(ctl, i)
                                 \/ Leads(bnn, in, cd2[i], i)
    BY <1>8, <1>12, <1>13, <2>3
  <2>6. \A k \in 1 .. Len(fr2) : \/ k \in 1 .. Len(ctl) /\ fr2[k] = ctl[k]
                                 \/ Promised(bnn, in, cd2, fr2[k])
    <3> TAKE k \in 1 .. Len(fr2)
    <3>1. k \in 1 .. Len(ctl) /\ (k \in 1 .. Len(ctl) - 1 \/ k = Len(ctl))
      BY <1>2, <1>9
    <3> QED BY <1>9, <1>11, <3>1
  <2> HIDE DEF L
  <2>7. Retraces(ann, in, abs, ts, code, ctl, bnn, st2, ty2, cd2, fr2)
    BY <1>4, <1>8, <1>9, <1>10, <2>1, <2>2, <2>4, <2>5, <2>6 DEF Retraces
  <2> QED BY <2>7, Retraced
<1> QED BY <1>1, <1>14

\* The branches meet: what both agree on is told after them.
LEMMA EndIfTraced ==
  ASSUME NEW in \in Inputs, NEW ann, Traced(ann, in, abs, ts, code, ctl), EndIf
  PROVE  \E bnn : Traced(bnn, in, abs', ts', code', ctl')
<1> DEFINE f == Frame
           L == Len(code) + 1
           cd2 == Filled(code, f.at, L)
           st2 == HullState(f.end, abs, Len(ts))
           N == Told(st2, in)
           bnn == [ann EXCEPT ![L] = N]
<1>1. /\ ctl # <<>> /\ f.kind = "else" /\ ts = f.types /\ code' = cd2 /\ ctl' = Outer
      /\ abs' = st2 /\ ts' = ts
  BY DEF EndIf, Inside, Filled
<1>2. /\ abs \in States /\ ts \in Seq(Types) /\ Len(abs) = Len(ts) /\ code \in Seq(Instrs)
      /\ Len(code) \in Nat /\ ctl \in Seq(Frames)
      /\ Len(ctl) \in Nat /\ Len(ann) = L /\ ann[L] \subseteq Told(abs, in)
  BY TracedTypes
<1>3. f \in Frames /\ Promised(ann, in, code, f)
  BY <1>1, TracedFrame
<1>4. /\ f.end \in States /\ Len(f.end) = Len(ts) /\ f.at \in 1 .. Len(code)
      /\ code[f.at].op = "br" /\ ann[f.at] \subseteq Told(f.end, in)
  BY <1>1, <1>3 DEF Frames, Promised
<1>5. /\ Outer \in Seq(Frames) /\ Len(Outer) = Len(ctl) - 1 /\ Len(ctl) > 0
      /\ \A k \in 1 .. Len(ctl) - 1 : Outer[k] = ctl[k]
  BY <1>1, <1>2, FrameFacts
<1>6. /\ st2 \in States /\ Len(st2) = Len(ts)
      /\ Told(f.end, in) \subseteq N /\ Told(abs, in) \subseteq N
  <2> DEFINE s == f.end
             w == HullState(s, abs, Len(s))
  <2>1. s \in States /\ Len(s) = Len(ts) /\ st2 = w /\ Len(s) = Len(abs) /\ N = Told(w, in)
    BY <1>2, <1>4
  <2>2. /\ w \in States /\ Len(w) = Len(s)
        /\ Told(s, in) \subseteq Told(w, in) /\ Told(abs, in) \subseteq Told(w, in)
    <3> HIDE DEF s
    <3> QED BY <1>2, <2>1, HullCovers, ToldHull
  <2> HIDE DEF w, st2, N
  <2> QED BY <1>2, <2>1, <2>2
<1>7. /\ cd2 \in Seq(Instrs) /\ Len(cd2) = Len(code)
      /\ cd2[f.at].op = "br" /\ cd2[f.at].v = L
      /\ \A i \in 1 .. Len(code) : cd2[i].op = code[i].op /\ (i # f.at => cd2[i] = code[i])
  <2> DEFINE at == f.at
             e == Filled(code, at, L)
  <2>1. at \in 1 .. Len(code) /\ L \in Int /\ cd2 = e
    BY <1>2, <1>4
  <2> HIDE DEF at, L, cd2
  <2>2. /\ e \in Seq(Instrs) /\ Len(e) = Len(code) /\ e[at].op = code[at].op /\ e[at].v = L
        /\ \A i \in 1 .. Len(code) : e[i].op = code[i].op /\ (i # at => e[i] = code[i])
    BY <1>2, <2>1, TargetFilled
  <2> HIDE DEF e
  <2> QED BY <1>4, <2>1, <2>2 DEF at
<1> HIDE DEF st2, cd2
<1>8. /\ Wider(ann, bnn) /\ Len(bnn) = L /\ bnn[L] = N
      /\ \A i \in 1 .. Len(code) : bnn[i] = ann[i]
  <2>1. ann \in Seq(SUBSET IntStacks) /\ N \in SUBSET IntStacks
    BY ToldTypes DEF Traced
  <2> HIDE DEF N
  <2>2. /\ bnn \in Seq(SUBSET IntStacks) /\ Len(bnn) = L /\ bnn[L] = N
        /\ \A i \in 1 .. Len(code) : bnn[i] = ann[i]
    BY <1>2, <2>1
  <2> HIDE DEF bnn
  <2>3. ann[L] \subseteq bnn[L]
    BY <1>2, <1>6, <2>2
  <2>4. Len(ann) > 0 /\ Len(ann) <= Len(bnn) /\ 1 .. Len(ann) - 1 = 1 .. Len(code)
    BY <1>2, <2>2
  <2> QED BY <1>2, <2>1, <2>2, <2>3, <2>4 DEF Wider
<1> HIDE DEF N, bnn
<1>9. Leads(bnn, in, cd2[f.at], f.at)
  <2> DEFINE at == f.at
             e == cd2[f.at]
  <2>1. bnn[at] = ann[at] /\ L \in 1 .. Len(bnn)
    BY <1>2, <1>4, <1>8
  <2>2. e.op = "br" /\ e.v = L
    BY <1>7
  <2>3. \A c \in bnn[at] : c \in bnn[e.v]
    BY <1>4, <1>6, <1>8, <2>1, <2>2
  <2> HIDE DEF at, e
  <2>4. Leads(bnn, in, e, at)
    BY <2>1, <2>2, <2>3, FilledLeads
  <2> QED BY <2>4 DEF at, e
<1>10. \A i : Waits(ctl, i) /\ i # f.at => Waits(Outer, i)
  <2> SUFFICES ASSUME NEW i, Waits(ctl, i), i # f.at PROVE Waits(Outer, i)
    OBVIOUS
  <2>1. PICK k \in 1 .. Len(ctl) : ctl[k].kind \in Branching /\ ctl[k].at = i
    BY DEF Waits
  <2>2. k # Len(ctl)
    BY <2>1 DEF Frame
  <2>3. k \in 1 .. Len(ctl) - 1 /\ k \in 1 .. Len(Outer)
    BY <1>2, <1>5, <2>2
  <2> QED BY <1>5, <2>1, <2>3 DEF Waits
<1>11. Traced(bnn, in, st2, ts, cd2, Outer)
  <2>1. Len(bnn) = Len(cd2) + 1 /\ bnn[Len(bnn)] \subseteq Told(st2, in)
    BY <1>2, <1>7, <1>8 DEF N
  <2>2. \A i \in 1 .. Len(code) : cd2[i].op = code[i].op
    BY <1>7
  <2>3. \A i \in 1 .. Len(cd2) : i \in 1 .. Len(code) \/ cd2[i].op # "trapiffalse"
    BY <1>7
  <2>4. \A i \in 1 .. Len(cd2) : \/ Waits(Outer, i)
                                 \/ i \in 1 .. Len(code) /\ cd2[i] = code[i] /\ ~Waits(ctl, i)
                                 \/ Leads(bnn, in, cd2[i], i)
    BY <1>7, <1>9, <1>10
  <2>5. \A k \in 1 .. Len(Outer) : \/ k \in 1 .. Len(ctl) /\ Outer[k] = ctl[k]
                                   \/ Promised(bnn, in, cd2, Outer[k])
    <3> TAKE k \in 1 .. Len(Outer)
    <3>1. k \in 1 .. Len(ctl) - 1 /\ k \in 1 .. Len(ctl)
      BY <1>2, <1>5
    <3> QED BY <1>5, <3>1
  <2> HIDE DEF L
  <2>6. Retraces(ann, in, abs, ts, code, ctl, bnn, st2, ts, cd2, Outer)
    BY <1>2, <1>5, <1>6, <1>7, <1>8, <2>1, <2>2, <2>3, <2>4, <2>5 DEF Retraces
  <2> QED BY <2>6, Retraced
<1> QED BY <1>1, <1>11

-----------------------------------------------------------------------------
\* The code of an accepted predicate: its trap stands at p, and is reached
\* with the inputs below its flag.
Prefix(ann, in, cd, p) ==
  /\ Len(ann) = p /\ in \in ann[1] /\ cd[p].op = "trapiffalse"
  /\ \A i \in 1 .. p - 1 : cd[i].op # "trapiffalse" /\ Leads(ann, in, cd[i], i)
  /\ \A c \in ann[p] : Below(c, 1) = in

\* There is no predicate (p is 0), or all inputs are kept.
Checked(p, cd) == p = 0 \/ \A in \in Inputs : \E ann : Prefix(ann, in, cd, p)

\* The body never jumps back into the predicate.  Its abstract states do not
\* matter here, so that this holds whatever the loops were judged on.
Shaped(f) ==
  /\ f = [kind |-> f.kind, at |-> f.at, head |-> f.head, seed |-> f.seed, end |-> f.end,
          base |-> f.base, types |-> f.types, entry |-> f.entry]
  /\ f.kind \in FrameKinds /\ f.at \in Nat /\ f.head \in Nat

FrameBeyond(p, n, f) ==
  /\ Shaped(f)
  /\ f.kind \in Branching => f.at \in p + 1 .. n
  /\ f.kind \in Loops => f.head \in p + 1 .. n + 1

Jumps(o) == o.op \in {"br", "brif"}

Beyond(p, cd, fr) ==
  /\ p \in Nat /\ cd \in Seq(Instrs) /\ p <= Len(cd)
  /\ \E S : fr \in Seq(S)
  /\ \A k \in 1 .. Len(fr) : FrameBeyond(p, Len(cd), fr[k])
  /\ \A i \in p + 1 .. Len(cd) :
       /\ cd[i].op \notin {"trapiffalse", "ret"}
       /\ Jumps(cd[i]) => Waits(fr, i) \/ cd[i].v \in p + 1 .. Len(cd) + 1

\* There are inputs.
LEMMA SomeInput == \E in : in \in Inputs
<1>1. [i \in 1 .. NIn |-> SubLo] \in Inputs
  BY DischargeAssumption DEF Inputs
<1> QED BY <1>1

\* An accepted predicate keeps the inputs, because the origins of its
\* subjects are the ones it began with.
LEMMA OriginsKeep ==
  ASSUME NEW in \in Inputs, NEW c \in Told(abs, in), Len(abs) = NIn + 1, abs \in States,
         Truncate(abs, NIn) = ArgSlots
  PROVE  Below(c, 1) = in
<1>1. NIn \in Nat
  BY DischargeAssumption DEF NIn
<1>2. c \in Seq(Int) /\ Len(c) = NIn + 1 /\ \A i \in 1 .. NIn + 1 : Tells(abs[i], in, c[i])
  BY DEF Told, IntStacks
<1>3. /\ Below(c, 1) \in Seq(Int) /\ Len(Below(c, 1)) = NIn
      /\ \A i \in 1 .. NIn : Below(c, 1)[i] = c[i]
  <2>1. 1 \in Nat /\ 1 <= Len(c) /\ Len(c) - 1 = NIn
    BY <1>1, <1>2
  <2> QED BY <1>2, <2>1, BelowFacts
<1>4. ASSUME NEW i \in 1 .. NIn PROVE c[i] = in[i]
  <2>1. Truncate(abs, NIn)[i] = abs[i]
    <3>1. LeastOf(NIn, Len(abs)) = NIn
      BY <1>1 DEF LeastOf
    <3>2. abs \in Seq(Slots)
      BY DEF States
    <3> QED BY <1>1, <3>1, <3>2 DEF Truncate
  <2>2. abs[i].org = i - 1
    BY <2>1 DEF ArgSlots
  <2>3. i - 1 \in 0 .. NIn - 1 /\ i - 1 + 1 = i /\ i \in 1 .. NIn + 1
    BY <1>1
  <2>4. Tells(abs[i], in, c[i])
    BY <1>2, <2>3
  <2> QED BY <2>2, <2>3, <2>4 DEF Tells
<1>5. in \in Seq(Word) /\ Len(in) = NIn
  BY <1>1 DEF Inputs
<1> DEFINE b == Below(c, 1)
<1>6. \A i \in 1 .. NIn : b[i] = in[i]
  BY <1>3, <1>4
<1>7. b \in Seq(Int) /\ Len(b) = NIn
  BY <1>3
<1> HIDE DEF b
<1>8. b = in
  BY <1>5, <1>6, <1>7
<1> QED BY <1>8 DEF b

\* The end of an accepted predicate.
LEMMA EndNeedsChecked ==
  ASSUME \A in \in Inputs : \E ann : Traced(ann, in, abs, ts, code, ctl),
         snap = ArgSlots, EndNeeds, phase' = "body"
  PROVE  \E p : Beyond(p, code', ctl') /\ Checked(p, code')
<1> DEFINE o == Instr("trapiffalse", 0)
           p == Len(code) + 1
           cd2 == Append(code, o)
<1>1. /\ ctl = <<>> /\ ctl' = <<>> /\ ts = Append(InTypes, "bool") /\ code' = cd2
      /\ Truncate(abs, NIn) = ArgSlots
  BY DEF EndNeeds, PredicateOriginsPreserved
<1>2. abs \in States /\ Len(abs) = Len(ts) /\ code \in Seq(Instrs) /\ Len(code) \in Nat
  BY SomeInput, TracedTypes
<1>3. Len(abs) = NIn + 1
  BY <1>1, <1>2, DischargeAssumption DEF NIn
<1>4. o \in Instrs /\ o.op = "trapiffalse"
  BY DEF Instr, Instrs, Ops
<1> HIDE DEF o
<1>5. /\ cd2 \in Seq(Instrs) /\ Len(cd2) = p /\ cd2[p] = o
      /\ \A i \in 1 .. Len(code) : cd2[i] = code[i]
  BY <1>2, <1>4, AppendFacts
<1> HIDE DEF cd2
<1>6. Beyond(p, cd2, <<>>)
  <2>1. <<>> \in Seq({}) /\ 1 .. Len(<<>>) = {}
    OBVIOUS
  <2>2. p \in Nat /\ p <= Len(cd2) /\ p + 1 .. Len(cd2) = {}
    BY <1>2, <1>5
  <2> HIDE DEF p
  <2> QED BY <1>5, <2>1, <2>2 DEF Beyond
<1>7. ASSUME NEW in \in Inputs PROVE \E ann : Prefix(ann, in, cd2, p)
  <2>1. PICK ann : Traced(ann, in, abs, ts, code, ctl)
    OBVIOUS
  <2>2. /\ Len(ann) = p /\ in \in ann[1] /\ ann[p] \subseteq Told(abs, in)
        /\ \A i \in 1 .. Len(code) :
             code[i].op # "trapiffalse" /\ (~Waits(ctl, i) => Leads(ann, in, code[i], i))
    BY <2>1 DEF Traced
  <2>3. \A i : ~Waits(ctl, i)
    BY <1>1 DEF Waits
  <2>4. \A i \in 1 .. p - 1 : i \in 1 .. Len(code)
    BY <1>2
  <2>5. \A c \in ann[p] : Below(c, 1) = in
    BY <1>1, <1>2, <1>3, <2>2, OriginsKeep
  <2> HIDE DEF p
  <2>6. Prefix(ann, in, cd2, p)
    BY <1>4, <1>5, <2>2, <2>3, <2>4, <2>5 DEF Prefix
  <2> QED BY <2>6
<1>8. Checked(p, cd2)
  BY <1>7 DEF Checked
<1> QED BY <1>1, <1>6, <1>8

\* The predicate's code is not touched by what follows it.
LEMMA CheckedKept ==
  ASSUME NEW p \in Nat, NEW cd, NEW cd2, Checked(p, cd), \A i \in 1 .. p : cd2[i] = cd[i]
  PROVE  Checked(p, cd2)
<1> SUFFICES ASSUME p # 0, NEW in \in Inputs PROVE \E ann : Prefix(ann, in, cd2, p)
  BY DEF Checked
<1>1. PICK ann : Prefix(ann, in, cd, p)
  BY DEF Checked
<1>2. cd2[p] = cd[p] /\ \A i \in 1 .. p - 1 : cd2[i] = cd[i]
  OBVIOUS
<1> QED BY <1>1, <1>2 DEF Prefix

-----------------------------------------------------------------------------
\* The body is extended: what is new is in order, an instruction that changed
\* or no longer waits, and a construct that was opened or changed.
Continues(p, cd, fr, cd2, fr2) ==
  /\ Beyond(p, cd, fr)
  /\ cd2 \in Seq(Instrs) /\ Len(cd) <= Len(cd2) /\ \E S : fr2 \in Seq(S)
  /\ \A i \in 1 .. Len(cd) : cd2[i].op = cd[i].op /\ (i <= p => cd2[i] = cd[i])
  /\ \A i \in 1 .. Len(cd2) : i \in 1 .. Len(cd) \/ cd2[i].op \notin {"trapiffalse", "ret"}
  /\ \A i \in p + 1 .. Len(cd2) :
       Jumps(cd2[i]) => \/ Waits(fr2, i)
                        \/ i \in 1 .. Len(cd) /\ cd2[i] = cd[i] /\ ~Waits(fr, i)
                        \/ cd2[i].v \in p + 1 .. Len(cd2) + 1
  /\ \A k \in 1 .. Len(fr2) : \/ k \in 1 .. Len(fr) /\ fr2[k] = fr[k]
                              \/ FrameBeyond(p, Len(cd2), fr2[k])

\* The body continued is a body, behind the same predicate.
LEMMA Continued ==
  ASSUME NEW p, NEW cd, NEW fr, NEW cd2, NEW fr2, Continues(p, cd, fr, cd2, fr2)
  PROVE  Beyond(p, cd2, fr2) /\ p \in Nat /\ \A i \in 1 .. p : cd2[i] = cd[i]
<1>1. /\ p \in Nat /\ cd \in Seq(Instrs) /\ p <= Len(cd) /\ cd2 \in Seq(Instrs)
      /\ Len(cd) <= Len(cd2) /\ Len(cd) \in Nat /\ Len(cd2) \in Nat
  <2>1. Beyond(p, cd, fr) /\ cd2 \in Seq(Instrs) /\ Len(cd) <= Len(cd2)
    BY DEF Continues
  <2>2. p \in Nat /\ cd \in Seq(Instrs) /\ p <= Len(cd)
    BY <2>1 DEF Beyond
  <2> QED BY <2>1, <2>2
<1>2. ASSUME NEW k \in 1 .. Len(fr2) PROVE FrameBeyond(p, Len(cd2), fr2[k])
  <2>1. CASE k \in 1 .. Len(fr) /\ fr2[k] = fr[k]
    <3>1. FrameBeyond(p, Len(cd), fr[k])
      BY <2>1 DEF Continues, Beyond
    <3> QED BY <1>1, <2>1, <3>1 DEF FrameBeyond
  <2> QED BY <2>1 DEF Continues
<1>3. ASSUME NEW i \in p + 1 .. Len(cd2) PROVE cd2[i].op \notin {"trapiffalse", "ret"}
  <2>1. CASE i \in 1 .. Len(cd)
    <3>1. i \in p + 1 .. Len(cd)
      BY <1>1, <2>1
    <3>2. cd[i].op \notin {"trapiffalse", "ret"}
      BY <3>1 DEF Continues, Beyond
    <3> QED BY <2>1, <3>2 DEF Continues
  <2>2. CASE i \notin 1 .. Len(cd)
    <3>1. i \in 1 .. Len(cd2)
      BY <1>1
    <3> QED BY <2>2, <3>1 DEF Continues
  <2> QED BY <2>1, <2>2
<1>4. ASSUME NEW i \in p + 1 .. Len(cd2), Jumps(cd2[i])
      PROVE  Waits(fr2, i) \/ cd2[i].v \in p + 1 .. Len(cd2) + 1
  <2>1. CASE i \in 1 .. Len(cd) /\ cd2[i] = cd[i] /\ ~Waits(fr, i)
    <3>1. i \in p + 1 .. Len(cd) /\ Jumps(cd[i])
      BY <1>1, <1>4, <2>1
    <3>2. cd[i].v \in p + 1 .. Len(cd) + 1
      BY <2>1, <3>1 DEF Continues, Beyond
    <3> QED BY <1>1, <2>1, <3>2
  <2> QED BY <1>4, <2>1 DEF Continues
<1>5. \A i \in 1 .. p : cd2[i] = cd[i]
  <2>1. \A i \in 1 .. p : i \in 1 .. Len(cd) /\ i <= p
    BY <1>1
  <2> QED BY <2>1 DEF Continues
<1>6. \E S : fr2 \in Seq(S)
  BY DEF Continues
<1>7. p <= Len(cd2)
  BY <1>1
<1> QED BY <1>1, <1>2, <1>3, <1>4, <1>5, <1>6, <1>7 DEF Beyond

\* The body so far, behind its checked predicate.
Bodied == \E p : Beyond(p, code, ctl) /\ Checked(p, code)

\* A continued body stays behind its checked predicate.
LEMMA BodyContinued ==
  ASSUME NEW p, Checked(p, code), NEW fr, NEW cd2, NEW fr2, Continues(p, code, fr, cd2, fr2),
         code' = cd2, ctl' = fr2
  PROVE  Bodied'
<1>1. Beyond(p, cd2, fr2) /\ p \in Nat /\ \A i \in 1 .. p : cd2[i] = code[i]
  BY Continued
<1>2. Checked(p, cd2)
  BY <1>1, CheckedKept
<1> QED BY <1>1, <1>2 DEF Bodied

\* What is known of the body.
LEMMA BeyondTypes ==
  ASSUME NEW p, Beyond(p, code, ctl)
  PROVE  /\ p \in Nat /\ code \in Seq(Instrs) /\ Len(code) \in Nat /\ p <= Len(code)
         /\ Len(ctl) \in Nat /\ \A k \in 1 .. Len(ctl) : FrameBeyond(p, Len(code), ctl[k])
         /\ \A i \in p + 1 .. Len(code) : i \in 1 .. Len(code)
<1>1. /\ p \in Nat /\ code \in Seq(Instrs) /\ p <= Len(code) /\ \E S : ctl \in Seq(S)
      /\ \A k \in 1 .. Len(ctl) : FrameBeyond(p, Len(code), ctl[k])
  BY DEF Beyond
<1>2. Len(code) \in Nat /\ Len(ctl) \in Nat
  BY <1>1
<1> QED BY <1>1, <1>2

\* An instruction that goes on to the next position.
LEMMA StraightBeyond ==
  ASSUME Bodied, NEW o \in Instrs, o.op \notin {"br", "brif", "trapiffalse", "ret"},
         code' = Append(code, o), ctl' = ctl
  PROVE  Bodied'
<1> DEFINE cd2 == Append(code, o)
<1>1. PICK p : Beyond(p, code, ctl) /\ Checked(p, code)
  BY DEF Bodied
<1>2. p \in Nat /\ code \in Seq(Instrs) /\ Len(code) \in Nat /\ p <= Len(code)
  BY <1>1, BeyondTypes
<1>3. /\ cd2 \in Seq(Instrs) /\ Len(cd2) = Len(code) + 1 /\ cd2[Len(code) + 1] = o
      /\ \A i \in 1 .. Len(code) : cd2[i] = code[i]
  BY <1>2, AppendFacts
<1> HIDE DEF cd2
<1>4. ASSUME NEW i \in 1 .. Len(cd2)
      PROVE  \/ i \in 1 .. Len(code) /\ cd2[i] = code[i]
             \/ ~Jumps(cd2[i]) /\ cd2[i].op \notin {"trapiffalse", "ret"} /\ i = Len(code) + 1
  BY <1>2, <1>3 DEF Jumps
<1>5. \E S : ctl \in Seq(S)
  BY <1>1 DEF Beyond
<1>6. \A i \in p + 1 .. Len(cd2) :
        Jumps(cd2[i]) => \/ Waits(ctl, i)
                         \/ i \in 1 .. Len(code) /\ cd2[i] = code[i] /\ ~Waits(ctl, i)
                         \/ cd2[i].v \in p + 1 .. Len(cd2) + 1
  <2>1. \A i \in p + 1 .. Len(cd2) : i \in 1 .. Len(cd2)
    BY <1>2
  <2> QED BY <1>4, <2>1
<1>7. Len(code) <= Len(cd2)
  BY <1>2, <1>3
<1>8. Continues(p, code, ctl, cd2, ctl)
  BY <1>1, <1>3, <1>4, <1>5, <1>6, <1>7 DEF Continues
<1> QED BY <1>1, <1>8, BodyContinued DEF cd2

\* The operations of the body.
LEMMA EmitOpBody ==
  ASSUME Bodied, NEW op \in PlainOps, EmitOp(op)
  PROVE  Bodied'
<1>1. code' = Append(code, Emitted(op)) /\ ctl' = ctl
  BY DEF EmitOp
<1>2. Emitted(op).op \in OpNames \cup {"const", "get"} /\ Emitted(op).v \in Int
  BY WordFacts, DischargeAssumption DEF PlainOps, Op, Emitted, Instr
<1>3. Emitted(op) \in Instrs
  BY <1>2 DEF Emitted, Instr, Instrs, Ops
<1>4. Emitted(op).op \notin {"br", "brif", "trapiffalse", "ret"}
  BY <1>2 DEF OpNames, CmpKinds
<1> QED BY <1>1, <1>3, <1>4, StraightBeyond

\* What stands at a site, whatever it was judged on.
LEMMA SiteInstr ==
  \A verdict : EmitSubtypeCheck(verdict) \in Instrs
               /\ EmitSubtypeCheck(verdict).op \in {"check", "elided"}
  BY DEF EmitSubtypeCheck, Instr, Instrs, Ops

\* A cast in the body: its site, open or not, is no jump.
LEMMA CompileCastBody ==
  ASSUME Bodied, CompileCast
  PROVE  Bodied'
<1> DEFINE o == EmitSubtypeCheck(OfRange(TopInterval(abs), SubLo, SubHi))
<1>1. code' = Append(code, o) /\ ctl' = ctl
  BY DEF CompileCast
<1>2. o \in Instrs /\ o.op \in {"check", "elided"}
  BY SiteInstr
<1> HIDE DEF o
<1> QED BY <1>1, <1>2, StraightBeyond

\* A question in the body is no jump.
LEMMA CompileCastQBody ==
  ASSUME Bodied, CompileCastQ
  PROVE  Bodied'
<1> DEFINE o == Instr("as?", 0)
<1>1. code' = Append(code, o) /\ ctl' = ctl
  BY DEF CompileCastQ
<1>2. o \in Instrs /\ o.op = "as?"
  BY DEF Instr, Instrs, Ops
<1> HIDE DEF o
<1> QED BY <1>1, <1>2, StraightBeyond

\* Whatever is appended, it is at the end.
LEMMA AppendAny ==
  ASSUME NEW S, NEW s \in Seq(S), NEW g
  PROVE  /\ Append(s, g) \in Seq(S \cup {g}) /\ Len(Append(s, g)) = Len(s) + 1
         /\ Append(s, g)[Len(s) + 1] = g
         /\ \A k \in 1 .. Len(s) : Append(s, g)[k] = s[k]
<1> DEFINE T == S \cup {g}
<1>1. S \subseteq T /\ g \in T
  OBVIOUS
<1> HIDE DEF T
<1>2. s \in Seq(T)
  BY <1>1
<1> QED BY <1>1, <1>2, AppendFacts DEF T

\* The innermost construct, taken off or replaced.
LEMMA TopFacts ==
  ASSUME NEW S, ctl \in Seq(S), ctl # <<>>, NEW g
  PROVE  /\ Len(ctl) \in 1 .. Len(ctl) /\ Frame = ctl[Len(ctl)]
         /\ Outer \in Seq(S) /\ Len(Outer) = Len(ctl) - 1
         /\ \A k \in 1 .. Len(ctl) - 1 : Outer[k] = ctl[k]
         /\ (\E T : Append(Outer, g) \in Seq(T)) /\ Len(Append(Outer, g)) = Len(ctl)
         /\ Append(Outer, g)[Len(ctl)] = g
         /\ \A k \in 1 .. Len(ctl) - 1 : Append(Outer, g)[k] = ctl[k]
<1>1. Len(ctl) \in 1 .. Len(ctl) /\ 1 <= Len(ctl) /\ 1 \in Nat /\ Len(ctl) \in Nat
  OBVIOUS
<1>2. Outer = Below(ctl, 1)
  BY DEF Outer, Below
<1>3. /\ Outer \in Seq(S) /\ Len(Outer) = Len(ctl) - 1
      /\ \A k \in 1 .. Len(ctl) - 1 : Outer[k] = ctl[k]
  BY <1>1, <1>2, BelowFacts
<1>4. /\ Append(Outer, g) \in Seq(S \cup {g}) /\ Len(Append(Outer, g)) = Len(Outer) + 1
      /\ Append(Outer, g)[Len(Outer) + 1] = g
      /\ \A k \in 1 .. Len(Outer) : Append(Outer, g)[k] = Outer[k]
  BY <1>3, AppendAny
<1>5. Len(Outer) + 1 = Len(ctl) /\ 1 .. Len(Outer) = 1 .. Len(ctl) - 1
  BY <1>1, <1>3
<1> QED BY <1>1, <1>3, <1>4, <1>5 DEF Frame

\* An instruction waits still when its construct is kept.
LEMMA WaitsKept ==
  ASSUME Len(ctl) \in Nat, NEW fr2, NEW n \in {Len(ctl) - 1, Len(ctl)}, Len(fr2) \in Nat,
         n <= Len(fr2), \A k \in 1 .. n : fr2[k] = ctl[k],
         NEW i, Waits(ctl, i),
         n = Len(ctl) \/ Frame.kind \notin Branching \/ i # Frame.at
  PROVE  Waits(fr2, i)
<1>1. PICK k \in 1 .. Len(ctl) : ctl[k].kind \in Branching /\ ctl[k].at = i
  BY DEF Waits
<1>2. n # Len(ctl) => k # Len(ctl)
  BY <1>1 DEF Frame
<1>3. k \in 1 .. n /\ k \in 1 .. Len(fr2)
  BY <1>1, <1>2
<1> QED BY <1>1, <1>3 DEF Waits

\* A construct opened, or changed, is a construct.
LEMMA ShapedOpened ==
  ASSUME NEW kind \in FrameKinds, NEW at \in Nat, NEW head \in Nat, NEW seed, NEW base, NEW f,
         f = Opened(kind, at, head, seed, base)
  PROVE  Shaped(f) /\ f.kind = kind /\ f.at = at /\ f.head = head
BY DEF Opened, Shaped

\* A header becomes a loop's condition.
LEMMA ShapedCond ==
  ASSUME NEW f, Shaped(f), NEW s, NEW g, g = [f EXCEPT !.kind = "cond", !.seed = s]
  PROVE  Shaped(g) /\ g.kind = "cond" /\ g.head = f.head
<1>1. PICK k, a, h, d, e, b, t, n :
        f = [kind |-> k, at |-> a, head |-> h, seed |-> d, end |-> e, base |-> b, types |-> t,
             entry |-> n]
  BY DEF Shaped
<1>2. g = [kind |-> "cond", at |-> a, head |-> h, seed |-> s, end |-> e, base |-> b,
           types |-> t, entry |-> n]
  BY <1>1
<1>3. h \in Nat /\ a \in Nat /\ f.head = h
  BY <1>1 DEF Shaped
<1> QED BY <1>2, <1>3 DEF Shaped, FrameKinds

AsElse(f, at, u, v) == [f EXCEPT !.kind = "else", !.at = at, !.end = u, !.types = v]

\* A conditional goes on to its other branch.
LEMMA ShapedElse ==
  ASSUME NEW f, Shaped(f), NEW at \in Nat, NEW u, NEW v, NEW g, g = AsElse(f, at, u, v)
  PROVE  Shaped(g) /\ g.kind = "else" /\ g.at = at
<1>1. PICK k, a, h, d, e, b, t, n :
        f = [kind |-> k, at |-> a, head |-> h, seed |-> d, end |-> e, base |-> b, types |-> t,
             entry |-> n]
  BY DEF Shaped
<1>2. g = [kind |-> "else", at |-> at, head |-> h, seed |-> d, end |-> u, base |-> b,
           types |-> v, entry |-> n]
  BY <1>1 DEF AsElse
<1>3. h \in Nat
  BY <1>1 DEF Shaped
<1> QED BY <1>2, <1>3 DEF Shaped, FrameKinds

AsWhile(f, at, s) == [f EXCEPT !.kind = "while", !.at = at, !.seed = s]

\* A loop goes on to its body.
LEMMA ShapedWhile ==
  ASSUME NEW f, Shaped(f), NEW at \in Nat, NEW s, NEW g, g = AsWhile(f, at, s)
  PROVE  Shaped(g) /\ g.kind = "while" /\ g.at = at /\ g.head = f.head
<1>1. PICK k, a, h, d, e, b, t, n :
        f = [kind |-> k, at |-> a, head |-> h, seed |-> d, end |-> e, base |-> b, types |-> t,
             entry |-> n]
  BY DEF Shaped
<1>2. g = [kind |-> "while", at |-> at, head |-> h, seed |-> s, end |-> e, base |-> b,
           types |-> t, entry |-> n]
  BY <1>1 DEF AsWhile
<1>3. h \in Nat /\ f.head = h
  BY <1>1 DEF Shaped
<1> QED BY <1>2, <1>3 DEF Shaped, FrameKinds

\* A header that is closed waits for nothing, before and after.
LEMMA HeaderClosedBeyond ==
  ASSUME NEW p, Beyond(p, code, ctl), NEW st
  PROVE  Beyond(p, code, HeaderClosed(st))
<1> DEFINE g == [Frame EXCEPT !.kind = "cond", !.seed = st]
           fr2 == Append(Outer, g)
<1>1. CASE ~Inside({"header"})
  BY <1>1 DEF HeaderClosed
<1>2. CASE Inside({"header"})
  <2>1. ctl # <<>> /\ Frame.kind = "header" /\ HeaderClosed(st) = fr2
    BY <1>2 DEF HeaderClosed, Inside
  <2>2. PICK S : ctl \in Seq(S)
    BY DEF Beyond
  <2>3. /\ p \in Nat /\ code \in Seq(Instrs) /\ Len(code) \in Nat /\ p <= Len(code)
        /\ Len(ctl) \in Nat /\ \A k \in 1 .. Len(ctl) : FrameBeyond(p, Len(code), ctl[k])
        /\ \A i \in p + 1 .. Len(code) : i \in 1 .. Len(code)
    BY BeyondTypes
  <2>4. FrameBeyond(p, Len(code), Frame)
    BY <2>1, <2>2, <2>3, TopFacts
  <2>5. Shaped(g) /\ g.kind = "cond" /\ g.head = Frame.head
    <3> DEFINE f == Frame
    <3>1. Shaped(f) /\ g = [f EXCEPT !.kind = "cond", !.seed = st]
      BY <2>4 DEF FrameBeyond
    <3> HIDE DEF f, g
    <3>2. Shaped(g) /\ g.kind = "cond" /\ g.head = f.head
      BY <3>1, ShapedCond
    <3> QED BY <3>2 DEF f
  <2> HIDE DEF g
  <2>6. FrameBeyond(p, Len(code), g)
    BY <2>1, <2>4, <2>5 DEF FrameBeyond, Branching, Loops
  <2>7. /\ (\E T : fr2 \in Seq(T)) /\ Len(fr2) = Len(ctl) /\ fr2[Len(ctl)] = g
        /\ \A k \in 1 .. Len(ctl) - 1 : fr2[k] = ctl[k]
    <3>1. ctl # <<>>
      BY <2>1
    <3>2. \E T : Append(Outer, g) \in Seq(T)
      BY <2>2, <3>1, TopFacts
    <3>3. Append(Outer, g)[Len(ctl)] = g
      BY <2>2, <3>1, TopFacts
    <3>4. Len(Append(Outer, g)) = Len(ctl)
      BY <2>2, <3>1, TopFacts
    <3>5. \A k \in 1 .. Len(ctl) - 1 : Append(Outer, g)[k] = ctl[k]
      BY <2>2, <3>1, TopFacts
    <3> QED BY <3>2, <3>3, <3>4, <3>5
  <2> HIDE DEF fr2
  <2>8. ASSUME NEW i, Waits(ctl, i) PROVE Waits(fr2, i)
    <3> DEFINE n == Len(ctl) - 1
    <3>1. Frame.kind \notin Branching
      BY <2>1 DEF Branching
    <3>2. n \in {Len(ctl) - 1, Len(ctl)} /\ n <= Len(fr2) /\ Len(fr2) \in Nat
          /\ \A k \in 1 .. n : fr2[k] = ctl[k]
      BY <2>3, <2>7
    <3> HIDE DEF n
    <3> QED BY <2>3, <2>8, <3>1, <3>2, WaitsKept
  <2>9. ASSUME NEW k \in 1 .. Len(fr2) PROVE FrameBeyond(p, Len(code), fr2[k])
    <3>1. k = Len(ctl) \/ (k \in 1 .. Len(ctl) - 1 /\ k \in 1 .. Len(ctl))
      BY <2>3, <2>7
    <3> QED BY <2>3, <2>6, <2>7, <3>1
  <2>10. \A i \in p + 1 .. Len(code) :
           /\ code[i].op \notin {"trapiffalse", "ret"}
           /\ Jumps(code[i]) => Waits(fr2, i) \/ code[i].v \in p + 1 .. Len(code) + 1
    BY <2>8 DEF Beyond
  <2>11. Beyond(p, code, fr2)
    BY <2>3, <2>7, <2>9, <2>10 DEF Beyond
  <2> QED BY <2>1, <2>11
<1> QED BY <1>1, <1>2

\* A construct is opened.
LEMMA OpenedBody ==
  ASSUME NEW p, Beyond(p, code, ctl), Checked(p, code), NEW st, NEW f, NEW cd2 \in Seq(Instrs),
         Len(code) <= Len(cd2), \A i \in 1 .. Len(code) : cd2[i] = code[i],
         FrameBeyond(p, Len(cd2), f),
         \A i \in Len(code) + 1 .. Len(cd2) :
           /\ cd2[i].op \notin {"trapiffalse", "ret"}
           /\ Jumps(cd2[i]) => \/ f.kind \in Branching /\ f.at = i
                               \/ cd2[i].v \in p + 1 .. Len(cd2) + 1,
         code' = cd2, ctl' = Append(HeaderClosed(st), f)
  PROVE  Bodied'
<1> DEFINE hc == HeaderClosed(st)
           fr2 == Append(hc, f)
<1>1. Beyond(p, code, hc)
  BY HeaderClosedBeyond
<1>2. /\ p \in Nat /\ code \in Seq(Instrs) /\ Len(code) \in Nat /\ p <= Len(code)
  BY BeyondTypes
<1>3. PICK S : hc \in Seq(S)
  BY <1>1 DEF Beyond
<1>0. ctl' = fr2
  OBVIOUS
<1> HIDE DEF hc
<1>4. /\ fr2 \in Seq(S \cup {f}) /\ Len(fr2) = Len(hc) + 1 /\ fr2[Len(hc) + 1] = f
      /\ \A k \in 1 .. Len(hc) : fr2[k] = hc[k]
  BY <1>3, AppendAny
<1>5. Len(hc) \in Nat
  BY <1>3
<1> HIDE DEF fr2
<1>6. \A k \in 1 .. Len(fr2) : \/ k \in 1 .. Len(hc) /\ fr2[k] = hc[k]
                               \/ FrameBeyond(p, Len(cd2), fr2[k])
  <2> TAKE k \in 1 .. Len(fr2)
  <2>1. k \in 1 .. Len(hc) \/ k = Len(hc) + 1
    BY <1>4, <1>5
  <2> QED BY <1>4, <2>1
<1>7. ASSUME NEW i, Waits(hc, i) PROVE Waits(fr2, i)
  <2>1. PICK k \in 1 .. Len(hc) : hc[k].kind \in Branching /\ hc[k].at = i
    BY <1>7 DEF Waits
  <2>2. k \in 1 .. Len(fr2) /\ fr2[k] = hc[k]
    BY <1>4, <1>5, <2>1
  <2> QED BY <2>1, <2>2 DEF Waits
<1>8. ASSUME NEW i, f.kind \in Branching, f.at = i PROVE Waits(fr2, i)
  <2>1. Len(hc) + 1 \in 1 .. Len(fr2)
    BY <1>4, <1>5
  <2> QED BY <1>4, <1>8, <2>1 DEF Waits
<1>9. \A i \in 1 .. Len(cd2) : i \in 1 .. Len(code) \/ i \in Len(code) + 1 .. Len(cd2)
  BY <1>2
<1>10. \A i \in p + 1 .. Len(cd2) :
         Jumps(cd2[i]) => \/ Waits(fr2, i)
                          \/ i \in 1 .. Len(code) /\ cd2[i] = code[i] /\ ~Waits(hc, i)
                          \/ cd2[i].v \in p + 1 .. Len(cd2) + 1
  <2>1. \A i \in p + 1 .. Len(cd2) : i \in 1 .. Len(cd2)
    BY <1>2
  <2> QED BY <1>7, <1>8, <1>9, <2>1
<1>11. \A i \in 1 .. Len(cd2) : i \in 1 .. Len(code) \/ cd2[i].op \notin {"trapiffalse", "ret"}
  BY <1>9
<1>12. Continues(p, code, hc, cd2, fr2)
  BY <1>1, <1>4, <1>6, <1>10, <1>11 DEF Continues
<1> QED BY <1>0, <1>12, BodyContinued

\* A conditional in the body waits for its target.
LEMMA CompileIfBody ==
  ASSUME Bodied, CompileIf
  PROVE  Bodied'
<1> DEFINE o == Instr("brif", 0)
           L == Len(code) + 1
           st == abs'
           f == Opened("then", L, 0, st, ts')
           cd2 == Append(code, o)
<1>1. code' = cd2 /\ ctl' = Append(HeaderClosed(st), f)
  BY DEF CompileIf
<1>2. PICK p : Beyond(p, code, ctl) /\ Checked(p, code)
  BY DEF Bodied
<1>3. p \in Nat /\ code \in Seq(Instrs) /\ Len(code) \in Nat /\ p <= Len(code)
  BY <1>2, BeyondTypes
<1>4. o \in Instrs /\ o.op = "brif"
  BY DEF Instr, Instrs, Ops
<1>5. Shaped(f) /\ f.kind = "then" /\ f.at = L
  <2>1. "then" \in FrameKinds /\ L \in Nat /\ 0 \in Nat
    BY <1>3 DEF FrameKinds
  <2> QED BY <2>1, ShapedOpened
<1> HIDE DEF o, f, st
<1>6. /\ cd2 \in Seq(Instrs) /\ Len(cd2) = L /\ cd2[L] = o
      /\ \A i \in 1 .. Len(code) : cd2[i] = code[i]
  BY <1>3, <1>4, AppendFacts
<1> HIDE DEF cd2
<1>7. FrameBeyond(p, Len(cd2), f)
  <2>1. L \in p + 1 .. Len(cd2)
    BY <1>3, <1>6
  <2> QED BY <1>5, <2>1 DEF FrameBeyond, Loops
<1>8. \A i \in Len(code) + 1 .. Len(cd2) :
        /\ cd2[i].op \notin {"trapiffalse", "ret"}
        /\ Jumps(cd2[i]) => \/ f.kind \in Branching /\ f.at = i
                            \/ cd2[i].v \in p + 1 .. Len(cd2) + 1
  <2>1. \A i \in Len(code) + 1 .. Len(cd2) : i = L
    BY <1>3, <1>6
  <2> QED BY <1>4, <1>5, <1>6, <2>1 DEF Branching
<1>9. Len(code) <= Len(cd2)
  BY <1>3, <1>6
<1> QED BY <1>1, <1>2, <1>6, <1>7, <1>8, <1>9, OpenedBody

\* A loop's entry jumps to its head, just after it.
LEMMA CompileWhileBody ==
  ASSUME Bodied, CompileWhile
  PROVE  Bodied'
<1> DEFINE o == Instr("br", Len(code) + 2)
           L == Len(code) + 1
           f == Opened("header", 0, Len(code) + 2, <<>>, ts)
           cd2 == Append(code, o)
<1>1. code' = cd2 /\ ctl' = Append(HeaderClosed(abs), f)
  BY DEF CompileWhile
<1>2. PICK p : Beyond(p, code, ctl) /\ Checked(p, code)
  BY DEF Bodied
<1>3. p \in Nat /\ code \in Seq(Instrs) /\ Len(code) \in Nat /\ p <= Len(code)
  BY <1>2, BeyondTypes
<1>4. o \in Instrs /\ o.op = "br" /\ o.v = L + 1
  <2>1. Len(code) + 2 \in Int /\ "br" \in Ops
    BY <1>3 DEF Ops
  <2> QED BY <1>3, <2>1 DEF Instr, Instrs
<1>5. Shaped(f) /\ f.kind = "header" /\ f.head = L + 1
  <2>1. "header" \in FrameKinds /\ Len(code) + 2 \in Nat /\ 0 \in Nat
    BY <1>3 DEF FrameKinds
  <2>2. Shaped(f) /\ f.kind = "header" /\ f.head = Len(code) + 2
    BY <2>1, ShapedOpened
  <2> HIDE DEF f
  <2> QED BY <1>3, <2>2
<1> HIDE DEF o, f
<1>6. /\ cd2 \in Seq(Instrs) /\ Len(cd2) = L /\ cd2[L] = o
      /\ \A i \in 1 .. Len(code) : cd2[i] = code[i]
  BY <1>3, <1>4, AppendFacts
<1> HIDE DEF cd2
<1>7. FrameBeyond(p, Len(cd2), f)
  <2>1. L + 1 \in p + 1 .. Len(cd2) + 1
    BY <1>3, <1>6
  <2> QED BY <1>5, <2>1 DEF FrameBeyond, Branching
<1>8. \A i \in Len(code) + 1 .. Len(cd2) :
        /\ cd2[i].op \notin {"trapiffalse", "ret"}
        /\ Jumps(cd2[i]) => \/ f.kind \in Branching /\ f.at = i
                            \/ cd2[i].v \in p + 1 .. Len(cd2) + 1
  <2>1. \A i \in Len(code) + 1 .. Len(cd2) : i = L
    BY <1>3, <1>6
  <2>2. o.v \in p + 1 .. Len(cd2) + 1
    BY <1>3, <1>4, <1>6
  <2> QED BY <1>4, <1>6, <2>1, <2>2
<1>9. Len(code) <= Len(cd2)
  BY <1>3, <1>6
<1> QED BY <1>1, <1>2, <1>6, <1>7, <1>8, <1>9, OpenedBody

\* An endless loop's entry, its literal and its branch.
LEMMA CompileLoopBody ==
  ASSUME Bodied, CompileLoop
  PROVE  Bodied'
<1> DEFINE o == Instr("br", Len(code) + 2)
           q == Instr("const", 1)
           b == Instr("brif", 0)
           L == Len(code) + 1
           f == Opened("while", Len(code) + 3, Len(code) + 2, abs, ts)
           cd2 == code \o <<o, q, b>>
<1>1. code' = cd2 /\ ctl' = Append(HeaderClosed(abs), f)
  BY DEF CompileLoop
<1>2. PICK p : Beyond(p, code, ctl) /\ Checked(p, code)
  BY DEF Bodied
<1>3. p \in Nat /\ code \in Seq(Instrs) /\ Len(code) \in Nat /\ p <= Len(code)
  BY <1>2, BeyondTypes
<1>4. /\ o \in Instrs /\ o.op = "br" /\ o.v = L + 1
      /\ q \in Instrs /\ q.op = "const" /\ b \in Instrs /\ b.op = "brif"
  <2>1. Len(code) + 2 \in Int /\ {"br", "const", "brif"} \subseteq Ops
    BY <1>3 DEF Ops
  <2> QED BY <1>3, <2>1 DEF Instr, Instrs
<1>5. Shaped(f) /\ f.kind = "while" /\ f.at = L + 2 /\ f.head = L + 1
  <2>1. "while" \in FrameKinds /\ Len(code) + 2 \in Nat /\ Len(code) + 3 \in Nat
    BY <1>3 DEF FrameKinds
  <2>2. Shaped(f) /\ f.kind = "while" /\ f.at = Len(code) + 3 /\ f.head = Len(code) + 2
    BY <2>1, ShapedOpened
  <2> HIDE DEF f
  <2> QED BY <1>3, <2>2
<1> HIDE DEF o, f, q, b
<1>6. /\ cd2 \in Seq(Instrs) /\ Len(cd2) = L + 2 /\ cd2[L] = o /\ cd2[L + 1] = q
      /\ cd2[L + 2] = b /\ \A i \in 1 .. Len(code) : cd2[i] = code[i]
  <2> DEFINE e1 == Append(code, o)
             e2 == Append(e1, q)
             e3 == Append(e2, b)
  <2>1. cd2 = e3
    BY <1>3, <1>4
  <2> HIDE DEF cd2
  <2>2. /\ e1 \in Seq(Instrs) /\ Len(e1) = L /\ e1[L] = o
        /\ \A i \in 1 .. Len(code) : e1[i] = code[i]
    BY <1>3, <1>4, AppendFacts
  <2> HIDE DEF e1
  <2>3. /\ e2 \in Seq(Instrs) /\ Len(e2) = L + 1 /\ e2[L + 1] = q
        /\ \A i \in 1 .. L : e2[i] = e1[i]
    BY <1>4, <2>2, AppendFacts
  <2> HIDE DEF e2
  <2>4. /\ e3 \in Seq(Instrs) /\ Len(e3) = L + 2 /\ e3[L + 2] = b
        /\ \A i \in 1 .. L + 1 : e3[i] = e2[i]
    BY <1>3, <1>4, <2>3, AppendFacts
  <2> HIDE DEF e3
  <2>5. /\ L \in 1 .. L /\ L \in 1 .. L + 1 /\ L + 1 \in 1 .. L + 1
        /\ \A i \in 1 .. Len(code) : i \in 1 .. L /\ i \in 1 .. L + 1
    BY <1>3
  <2> HIDE DEF L
  <2> QED BY <2>1, <2>2, <2>3, <2>4, <2>5
<1> HIDE DEF cd2
<1>7. FrameBeyond(p, Len(cd2), f)
  <2>1. L + 2 \in p + 1 .. Len(cd2) /\ L + 1 \in p + 1 .. Len(cd2) + 1
    BY <1>3, <1>6
  <2> QED BY <1>5, <2>1 DEF FrameBeyond
<1>8. \A i \in Len(code) + 1 .. Len(cd2) :
        /\ cd2[i].op \notin {"trapiffalse", "ret"}
        /\ Jumps(cd2[i]) => \/ f.kind \in Branching /\ f.at = i
                            \/ cd2[i].v \in p + 1 .. Len(cd2) + 1
  <2>1. \A i \in Len(code) + 1 .. Len(cd2) : i = L \/ i = L + 1 \/ i = L + 2
    BY <1>3, <1>6
  <2>2. o.v \in p + 1 .. Len(cd2) + 1
    BY <1>3, <1>4, <1>6
  <2> QED BY <1>4, <1>5, <1>6, <2>1, <2>2 DEF Jumps, Branching
<1>9. Len(code) <= Len(cd2)
  BY <1>3, <1>6
<1> QED BY <1>1, <1>2, <1>6, <1>7, <1>8, <1>9, OpenedBody

\* The innermost construct is closed or goes on: what is filled in, and what
\* is new, jumps into the body or waits for the construct's end.
Changes(p, cd2, fr2) ==
  /\ Beyond(p, code, ctl) /\ Checked(p, code) /\ ctl # <<>>
  /\ cd2 \in Seq(Instrs) /\ Len(code) <= Len(cd2) /\ \E T : fr2 \in Seq(T)
  /\ Len(fr2) \in {Len(ctl) - 1, Len(ctl)} /\ \A k \in 1 .. Len(ctl) - 1 : fr2[k] = ctl[k]
  /\ Len(fr2) = Len(ctl) => FrameBeyond(p, Len(cd2), fr2[Len(ctl)])
  /\ \A i \in 1 .. Len(code) :
       /\ cd2[i].op = code[i].op
       /\ Frame.kind \notin Branching \/ i # Frame.at => cd2[i] = code[i]
  /\ Frame.kind \in Branching => cd2[Frame.at].v \in p + 1 .. Len(cd2) + 1
  /\ \A i \in Len(code) + 1 .. Len(cd2) :
       /\ cd2[i].op \notin {"trapiffalse", "ret"}
       /\ \/ cd2[i].v \in p + 1 .. Len(cd2) + 1
          \/ /\ Len(fr2) = Len(ctl) /\ fr2[Len(ctl)].kind \in Branching
             /\ fr2[Len(ctl)].at = i

\* What is known of the innermost construct of the body.
LEMMA FrameOfBody ==
  ASSUME NEW p, Beyond(p, code, ctl), ctl # <<>>
  PROVE  FrameBeyond(p, Len(code), Frame) /\ Len(ctl) \in 1 .. Len(ctl)
<1>1. PICK S : ctl \in Seq(S)
  BY DEF Beyond
<1>2. Len(ctl) \in 1 .. Len(ctl) /\ Frame = ctl[Len(ctl)]
  BY <1>1, TopFacts
<1> QED BY <1>2 DEF Beyond

\* A body changed that way stays behind its checked predicate.
LEMMA ChangedBody ==
  ASSUME NEW p, NEW cd2, NEW fr2, Changes(p, cd2, fr2), code' = cd2, ctl' = fr2
  PROVE  Bodied'
<1>1. Beyond(p, code, ctl) /\ Checked(p, code) /\ ctl # <<>>
  BY DEF Changes
<1>2. /\ p \in Nat /\ code \in Seq(Instrs) /\ Len(code) \in Nat /\ p <= Len(code)
      /\ Len(ctl) \in Nat
  BY <1>1, BeyondTypes
<1>3. FrameBeyond(p, Len(code), Frame) /\ Len(ctl) \in 1 .. Len(ctl)
  BY <1>1, FrameOfBody
<1>4. /\ cd2 \in Seq(Instrs) /\ Len(code) <= Len(cd2) /\ \E T : fr2 \in Seq(T)
      /\ Len(fr2) \in {Len(ctl) - 1, Len(ctl)} /\ \A k \in 1 .. Len(ctl) - 1 : fr2[k] = ctl[k]
      /\ Len(fr2) = Len(ctl) => FrameBeyond(p, Len(cd2), fr2[Len(ctl)])
  BY DEF Changes
<1>5. /\ \A i \in 1 .. Len(code) :
           /\ cd2[i].op = code[i].op
           /\ Frame.kind \notin Branching \/ i # Frame.at => cd2[i] = code[i]
      /\ Frame.kind \in Branching => cd2[Frame.at].v \in p + 1 .. Len(cd2) + 1
      /\ \A i \in Len(code) + 1 .. Len(cd2) :
           /\ cd2[i].op \notin {"trapiffalse", "ret"}
           /\ \/ cd2[i].v \in p + 1 .. Len(cd2) + 1
              \/ /\ Len(fr2) = Len(ctl) /\ fr2[Len(ctl)].kind \in Branching
                 /\ fr2[Len(ctl)].at = i
  BY DEF Changes
<1>6. \A k \in 1 .. Len(fr2) : \/ k \in 1 .. Len(ctl) /\ fr2[k] = ctl[k]
                               \/ FrameBeyond(p, Len(cd2), fr2[k])
  <2> TAKE k \in 1 .. Len(fr2)
  <2>1. \/ k \in 1 .. Len(ctl) - 1 /\ k \in 1 .. Len(ctl)
        \/ k = Len(ctl) /\ Len(fr2) = Len(ctl)
    BY <1>2, <1>4
  <2> QED BY <1>4, <2>1
<1>7. ASSUME NEW i, Waits(ctl, i), Frame.kind \notin Branching \/ i # Frame.at PROVE Waits(fr2, i)
  <2> DEFINE n == Len(ctl) - 1
  <2>1. n \in {Len(ctl) - 1, Len(ctl)} /\ n <= Len(fr2) /\ Len(fr2) \in Nat
        /\ \A k \in 1 .. n : fr2[k] = ctl[k]
    BY <1>2, <1>3, <1>4
  <2> HIDE DEF n
  <2> QED BY <1>2, <1>7, <2>1, WaitsKept
<1>8. \A i \in 1 .. Len(code) : i <= p => cd2[i] = code[i]
  BY <1>2, <1>3, <1>5 DEF FrameBeyond
<1>9. \A i \in 1 .. Len(cd2) : i \in 1 .. Len(code) \/ i \in Len(code) + 1 .. Len(cd2)
  BY <1>2
<1>10. \A i \in 1 .. Len(cd2) : i \in 1 .. Len(code) \/ cd2[i].op \notin {"trapiffalse", "ret"}
  BY <1>5, <1>9
<1>11. ASSUME NEW i \in p + 1 .. Len(cd2)
       PROVE  \/ Waits(fr2, i)
              \/ i \in 1 .. Len(code) /\ cd2[i] = code[i] /\ ~Waits(ctl, i)
              \/ cd2[i].v \in p + 1 .. Len(cd2) + 1
  <2>1. i \in 1 .. Len(cd2)
    BY <1>2
  <2>2. CASE i \in 1 .. Len(code)
    BY <1>5, <1>7, <2>2
  <2>3. CASE i \in Len(code) + 1 .. Len(cd2)
    <3>1. CASE /\ Len(fr2) = Len(ctl) /\ fr2[Len(ctl)].kind \in Branching
               /\ fr2[Len(ctl)].at = i
      <4>1. Len(ctl) \in 1 .. Len(fr2)
        BY <1>3, <3>1
      <4> QED BY <3>1, <4>1 DEF Waits
    <3> QED BY <1>5, <2>3, <3>1
  <2> QED BY <1>9, <2>1, <2>2, <2>3
<1>12. Continues(p, code, ctl, cd2, fr2)
  BY <1>1, <1>4, <1>5, <1>6, <1>8, <1>10, <1>11 DEF Continues
<1> QED BY <1>1, <1>12, BodyContinued

\* The branch lands after the jump that waits for the conditional's end.
LEMMA CompileElseBody ==
  ASSUME Bodied, CompileElse
  PROVE  Bodied'
<1> DEFINE f == Frame
           o == Instr("br", 0)
           L == Len(code) + 1
           g == [f EXCEPT !.kind = "else", !.at = L, !.end = abs, !.types = ts]
           cd1 == Append(code, o)
           v == Len(code) + 2
           cd2 == Filled(cd1, f.at, v)
           fr2 == Append(Outer, g)
<1>1. /\ ctl # <<>> /\ f.kind = "then" /\ code' = cd2 /\ ctl' = fr2
  BY DEF CompileElse, Inside, Filled
<1>2. PICK p : Beyond(p, code, ctl) /\ Checked(p, code)
  BY DEF Bodied
<1>3. p \in Nat /\ code \in Seq(Instrs) /\ Len(code) \in Nat /\ p <= Len(code) /\ Len(ctl) \in Nat
  BY <1>2, BeyondTypes
<1>4. Shaped(f) /\ f.at \in p + 1 .. Len(code) /\ f.kind \in Branching
  BY <1>1, <1>2, FrameOfBody DEF FrameBeyond, Branching
<1>5. Shaped(g) /\ g.kind = "else" /\ g.at = L
  <2>1. L \in Nat /\ g = AsElse(f, L, abs, ts)
    BY <1>3 DEF AsElse
  <2> HIDE DEF f, L, g
  <2> QED BY <1>4, <2>1, ShapedElse
<1>6. o \in Instrs /\ o.op = "br"
  BY DEF Instr, Instrs, Ops
<1> HIDE DEF o, g
<1>7. /\ cd1 \in Seq(Instrs) /\ Len(cd1) = L /\ cd1[L] = o
      /\ \A i \in 1 .. Len(code) : cd1[i] = code[i]
  BY <1>3, <1>6, AppendFacts
<1> HIDE DEF cd1
<1>8. /\ cd2 \in Seq(Instrs) /\ Len(cd2) = L /\ cd2[f.at].v = v
      /\ \A i \in 1 .. L : cd2[i].op = cd1[i].op /\ (i # f.at => cd2[i] = cd1[i])
  <2> DEFINE at == f.at
  <2>1. at \in 1 .. Len(cd1) /\ v \in Int
    BY <1>3, <1>4, <1>7
  <2> HIDE DEF at, v
  <2>2. cd2 = Filled(cd1, at, v)
    BY DEF at
  <2> HIDE DEF cd2
  <2>3. /\ cd2 \in Seq(Instrs) /\ Len(cd2) = Len(cd1) /\ cd2[at].v = v
        /\ \A i \in 1 .. Len(cd1) : cd2[i].op = cd1[i].op /\ (i # at => cd2[i] = cd1[i])
    BY <1>7, <2>1, <2>2, TargetFilled
  <2> QED BY <1>7, <2>3 DEF at
<1>9. PICK S : ctl \in Seq(S)
  BY <1>2 DEF Beyond
<1>10. /\ (\E T : fr2 \in Seq(T)) /\ Len(fr2) = Len(ctl) /\ fr2[Len(ctl)] = g
       /\ \A k \in 1 .. Len(ctl) - 1 : fr2[k] = ctl[k]
  <2>1. ctl # <<>>
    BY <1>1
  <2>2. \E T : Append(Outer, g) \in Seq(T)
    BY <1>9, <2>1, TopFacts
  <2>3. Append(Outer, g)[Len(ctl)] = g
    BY <1>9, <2>1, TopFacts
  <2>4. Len(Append(Outer, g)) = Len(ctl)
    BY <1>9, <2>1, TopFacts
  <2>5. \A k \in 1 .. Len(ctl) - 1 : Append(Outer, g)[k] = ctl[k]
    BY <1>9, <2>1, TopFacts
  <2> QED BY <2>2, <2>3, <2>4, <2>5
<1> HIDE DEF cd2, fr2
<1>11. FrameBeyond(p, Len(cd2), g)
  <2>1. L \in p + 1 .. Len(cd2)
    BY <1>3, <1>8
  <2> QED BY <1>5, <2>1 DEF FrameBeyond, Loops
<1>12. \A i \in 1 .. Len(code) : i \in 1 .. L
  BY <1>3
<1>13. \A i \in 1 .. Len(code) :
         cd2[i].op = code[i].op /\ (f.kind \notin Branching \/ i # f.at => cd2[i] = code[i])
  BY <1>4, <1>7, <1>8, <1>12
<1>14. f.kind \in Branching => cd2[f.at].v \in p + 1 .. Len(cd2) + 1
  BY <1>3, <1>8
<1>15. \A i \in Len(code) + 1 .. Len(cd2) :
         /\ cd2[i].op \notin {"trapiffalse", "ret"}
         /\ fr2[Len(ctl)].kind \in Branching /\ fr2[Len(ctl)].at = i
  <2>1. \A i \in Len(code) + 1 .. Len(cd2) : i = L /\ i \in 1 .. L
    BY <1>3, <1>8
  <2> QED BY <1>5, <1>6, <1>7, <1>8, <1>10, <2>1 DEF Branching
<1>16. Len(code) <= Len(cd2)
  BY <1>3, <1>8
<1>17. Changes(p, cd2, fr2)
  BY <1>1, <1>2, <1>8, <1>10, <1>11, <1>13, <1>14, <1>15, <1>16 DEF Changes
<1> QED BY <1>1, <1>17, ChangedBody

\* The branch out of a loop waits for the loop's end.
LEMMA WhileBodyBody ==
  ASSUME Bodied, WhileBody
  PROVE  Bodied'
<1> DEFINE f == Frame
           o == Instr("brif", 0)
           L == Len(code) + 1
           s == IF Inside({"header"}) THEN abs' ELSE f.seed
           g == AsWhile(f, L, s)
           cd2 == Append(code, o)
           fr2 == Append(Outer, g)
<1>1. /\ ctl # <<>> /\ f.kind \in {"header", "cond"} /\ code' = cd2
  BY DEF WhileBody, Inside
<1>0. ctl' = fr2
  BY DEF WhileBody, AsWhile
<1>2. PICK p : Beyond(p, code, ctl) /\ Checked(p, code)
  BY DEF Bodied
<1>3. p \in Nat /\ code \in Seq(Instrs) /\ Len(code) \in Nat /\ p <= Len(code) /\ Len(ctl) \in Nat
  BY <1>2, BeyondTypes
<1>4. Shaped(f) /\ f.head \in p + 1 .. Len(code) + 1 /\ f.kind \notin Branching
  BY <1>1, <1>2, FrameOfBody DEF FrameBeyond, Branching, Loops
<1>5. Shaped(g) /\ g.kind = "while" /\ g.at = L /\ g.head = f.head
  <2>1. L \in Nat /\ g = AsWhile(f, L, s)
    BY <1>3
  <2> HIDE DEF f, L, g, s
  <2> QED BY <1>4, <2>1, ShapedWhile
<1>6. o \in Instrs /\ o.op = "brif"
  BY DEF Instr, Instrs, Ops
<1> HIDE DEF o, g
<1>7. /\ cd2 \in Seq(Instrs) /\ Len(cd2) = L /\ cd2[L] = o
      /\ \A i \in 1 .. Len(code) : cd2[i] = code[i]
  BY <1>3, <1>6, AppendFacts
<1>9. PICK S : ctl \in Seq(S)
  BY <1>2 DEF Beyond
<1>10. /\ (\E T : fr2 \in Seq(T)) /\ Len(fr2) = Len(ctl) /\ fr2[Len(ctl)] = g
       /\ \A k \in 1 .. Len(ctl) - 1 : fr2[k] = ctl[k]
  <2>1. ctl # <<>>
    BY <1>1
  <2>2. \E T : Append(Outer, g) \in Seq(T)
    BY <1>9, <2>1, TopFacts
  <2>3. Append(Outer, g)[Len(ctl)] = g
    BY <1>9, <2>1, TopFacts
  <2>4. Len(Append(Outer, g)) = Len(ctl)
    BY <1>9, <2>1, TopFacts
  <2>5. \A k \in 1 .. Len(ctl) - 1 : Append(Outer, g)[k] = ctl[k]
    BY <1>9, <2>1, TopFacts
  <2> QED BY <2>2, <2>3, <2>4, <2>5
<1> HIDE DEF cd2, fr2
<1>11. FrameBeyond(p, Len(cd2), g)
  <2>1. L \in p + 1 .. Len(cd2) /\ g.head \in p + 1 .. Len(cd2) + 1
    BY <1>3, <1>4, <1>5, <1>7
  <2> QED BY <1>5, <2>1 DEF FrameBeyond
<1>12. \A i \in Len(code) + 1 .. Len(cd2) :
         /\ cd2[i].op \notin {"trapiffalse", "ret"}
         /\ fr2[Len(ctl)].kind \in Branching /\ fr2[Len(ctl)].at = i
  <2>1. \A i \in Len(code) + 1 .. Len(cd2) : i = L
    BY <1>3, <1>7
  <2> QED BY <1>5, <1>6, <1>7, <1>10, <2>1 DEF Branching
<1>13. Len(code) <= Len(cd2)
  BY <1>3, <1>7
<1>14. Changes(p, cd2, fr2)
  BY <1>1, <1>2, <1>4, <1>7, <1>10, <1>11, <1>12, <1>13 DEF Changes
<1> QED BY <1>0, <1>1, <1>14, ChangedBody

\* The innermost construct is closed.
LEMMA OuterFacts ==
  ASSUME NEW p, Beyond(p, code, ctl), ctl # <<>>
  PROVE  /\ (\E T : Outer \in Seq(T)) /\ Len(Outer) = Len(ctl) - 1
         /\ \A k \in 1 .. Len(ctl) - 1 : Outer[k] = ctl[k]
<1>1. PICK S : ctl \in Seq(S)
  BY DEF Beyond
<1> QED BY <1>1, TopFacts

\* The jump over the other branch lands after it.
LEMMA EndIfBody ==
  ASSUME Bodied, EndIf
  PROVE  Bodied'
<1> DEFINE f == Frame
           L == Len(code) + 1
           at == f.at
           cd2 == Filled(code, at, L)
<1>1. /\ ctl # <<>> /\ f.kind = "else" /\ code' = cd2 /\ ctl' = Outer
  BY DEF EndIf, Inside, Filled
<1>2. PICK p : Beyond(p, code, ctl) /\ Checked(p, code)
  BY DEF Bodied
<1>3. p \in Nat /\ code \in Seq(Instrs) /\ Len(code) \in Nat /\ p <= Len(code) /\ Len(ctl) \in Nat
  BY <1>2, BeyondTypes
<1>4. at \in p + 1 .. Len(code) /\ f.kind \in Branching
  BY <1>1, <1>2, FrameOfBody DEF FrameBeyond, Branching
<1>5. /\ cd2 \in Seq(Instrs) /\ Len(cd2) = Len(code) /\ cd2[at].v = L
      /\ \A i \in 1 .. Len(code) : cd2[i].op = code[i].op /\ (i # at => cd2[i] = code[i])
  <2>1. at \in 1 .. Len(code) /\ L \in Int /\ cd2 = Filled(code, at, L)
    BY <1>3, <1>4
  <2> HIDE DEF at, L, cd2
  <2> QED BY <1>3, <2>1, TargetFilled
<1>6. /\ (\E T : Outer \in Seq(T)) /\ Len(Outer) = Len(ctl) - 1
      /\ \A k \in 1 .. Len(ctl) - 1 : Outer[k] = ctl[k]
  BY <1>1, <1>2, OuterFacts
<1> HIDE DEF cd2
<1>7. cd2[f.at].v \in p + 1 .. Len(cd2) + 1
  BY <1>3, <1>5
<1>8. Len(code) + 1 .. Len(cd2) = {} /\ Len(code) <= Len(cd2) /\ Len(Outer) # Len(ctl)
  BY <1>3, <1>5, <1>6
<1>9. \A i \in 1 .. Len(code) :
        cd2[i].op = code[i].op /\ (f.kind \notin Branching \/ i # f.at => cd2[i] = code[i])
  BY <1>4, <1>5
<1>10. Changes(p, cd2, Outer)
  BY <1>1, <1>2, <1>5, <1>6, <1>7, <1>8, <1>9 DEF Changes
<1> QED BY <1>1, <1>10, ChangedBody

\* The back edge goes to the loop's head, the branch out of it past it.
LEMMA EndWhileBody ==
  ASSUME Bodied, EndWhile
  PROVE  Bodied'
<1> DEFINE f == Frame
           L == Len(code) + 1
           at == f.at
           o == Instr("br", f.head)
           v == Len(code) + 2
           cd1 == Append(code, o)
           cd2 == Filled(cd1, at, v)
<1>1. /\ ctl # <<>> /\ f.kind = "while" /\ code' = cd2 /\ ctl' = Outer
  BY DEF EndWhile, Inside, Filled
<1>2. PICK p : Beyond(p, code, ctl) /\ Checked(p, code)
  BY DEF Bodied
<1>3. p \in Nat /\ code \in Seq(Instrs) /\ Len(code) \in Nat /\ p <= Len(code) /\ Len(ctl) \in Nat
  BY <1>2, BeyondTypes
<1>4. /\ at \in p + 1 .. Len(code) /\ f.kind \in Branching /\ f.head \in p + 1 .. Len(code) + 1
  BY <1>1, <1>2, FrameOfBody DEF FrameBeyond, Branching, Loops
<1>5. o \in Instrs /\ o.op = "br" /\ o.v = f.head
  <2>1. f.head \in Int /\ "br" \in Ops
    BY <1>3, <1>4 DEF Ops
  <2> QED BY <2>1 DEF Instr, Instrs
<1> HIDE DEF o
<1>6. /\ cd1 \in Seq(Instrs) /\ Len(cd1) = L /\ cd1[L] = o
      /\ \A i \in 1 .. Len(code) : cd1[i] = code[i]
  BY <1>3, <1>5, AppendFacts
<1> HIDE DEF cd1
<1>7. /\ cd2 \in Seq(Instrs) /\ Len(cd2) = L /\ cd2[at].v = v
      /\ \A i \in 1 .. L : cd2[i].op = cd1[i].op /\ (i # at => cd2[i] = cd1[i])
  <2>1. at \in 1 .. Len(cd1) /\ v \in Int /\ cd2 = Filled(cd1, at, v)
    BY <1>3, <1>4, <1>6
  <2> HIDE DEF at, v, cd2
  <2>2. /\ cd2 \in Seq(Instrs) /\ Len(cd2) = Len(cd1) /\ cd2[at].v = v
        /\ \A i \in 1 .. Len(cd1) : cd2[i].op = cd1[i].op /\ (i # at => cd2[i] = cd1[i])
    BY <1>6, <2>1, TargetFilled
  <2> QED BY <1>6, <2>2
<1>8. /\ (\E T : Outer \in Seq(T)) /\ Len(Outer) = Len(ctl) - 1
      /\ \A k \in 1 .. Len(ctl) - 1 : Outer[k] = ctl[k]
  BY <1>1, <1>2, OuterFacts
<1> HIDE DEF cd2
<1>9. cd2[f.at].v \in p + 1 .. Len(cd2) + 1
  BY <1>3, <1>7
<1>10. \A i \in Len(code) + 1 .. Len(cd2) :
         cd2[i].op \notin {"trapiffalse", "ret"} /\ cd2[i].v \in p + 1 .. Len(cd2) + 1
  <2>1. \A i \in Len(code) + 1 .. Len(cd2) : i = L /\ i \in 1 .. L /\ i # at
    BY <1>3, <1>4, <1>7
  <2>2. o.v \in p + 1 .. Len(cd2) + 1
    BY <1>3, <1>4, <1>5, <1>7
  <2> QED BY <1>5, <1>6, <1>7, <2>1, <2>2
<1>11. \A i \in 1 .. Len(code) : i \in 1 .. L
  BY <1>3
<1>12. \A i \in 1 .. Len(code) :
         cd2[i].op = code[i].op /\ (f.kind \notin Branching \/ i # f.at => cd2[i] = code[i])
  BY <1>4, <1>6, <1>7, <1>11
<1>13. Len(code) <= Len(cd2) /\ Len(Outer) # Len(ctl)
  BY <1>3, <1>7, <1>8
<1>14. Changes(p, cd2, Outer)
  BY <1>1, <1>2, <1>7, <1>8, <1>9, <1>10, <1>12, <1>13 DEF Changes
<1> QED BY <1>1, <1>14, ChangedBody

-----------------------------------------------------------------------------
\* The whole word: it ends with its return, and nothing after the predicate
\* jumps back into it.
Finished(p, cd) ==
  /\ p \in Nat /\ cd \in Seq(Instrs) /\ p < Len(cd) /\ cd[Len(cd)].op = "ret"
  /\ \A i \in p + 1 .. Len(cd) :
       cd[i].op # "trapiffalse" /\ (Jumps(cd[i]) => cd[i].v \in p + 1 .. Len(cd))
Whole == \E p : Finished(p, code) /\ Checked(p, code)

\* The machine is in the predicate, with a stack of its position, or past it.
AtPrefix(p) ==
  /\ Finished(p, code) /\ pc \in 1 .. Len(code)
  /\ pc <= p => \E ann : Prefix(ann, args, code, p) /\ cstack \in ann[pc]
Machine == args \in Inputs /\ \E p : AtPrefix(p)

Needing == \A in \in Inputs : \E ann : Traced(ann, in, abs, ts, code, ctl)

\* The inductive invariant of the predicate.
NeedsInv ==
  /\ snap = ArgSlots
  /\ \/ phase \in {"rejected", "trapped", "returned"}
     \/ phase = "needs" /\ Needing
     \/ phase = "body" /\ Bodied
     \/ phase = "start" /\ Whole
     \/ phase = "run" /\ Machine

\* The epilogue completes the word.
LEMMA EpilogueWhole ==
  ASSUME Bodied, Epilogue
  PROVE  Whole'
<1> DEFINE o == EmitSubtypeCheck(OfRange(TopInterval(abs), SubLo, SubHi))
           e == Instr("ret", 0)
           cd1 == Append(code, o)
           cd2 == Append(cd1, e)
           L == Len(code) + 1
<1>1. ctl = <<>> /\ code' = code \o <<o, e>>
  BY DEF Epilogue
<1>2. PICK p : Beyond(p, code, ctl) /\ Checked(p, code)
  BY DEF Bodied
<1>3. p \in Nat /\ code \in Seq(Instrs) /\ Len(code) \in Nat /\ p <= Len(code)
  BY <1>2, BeyondTypes
<1>4. o \in Instrs /\ o.op \in {"check", "elided"} /\ e \in Instrs /\ e.op = "ret"
  BY SiteInstr DEF Instr, Instrs, Ops
<1> HIDE DEF o, e
<1>5. code' = cd2
  BY <1>1, <1>3, <1>4, AppendTwice
<1>6. /\ cd1 \in Seq(Instrs) /\ Len(cd1) = L /\ cd1[L] = o
      /\ \A i \in 1 .. Len(code) : cd1[i] = code[i]
  BY <1>3, <1>4, AppendFacts
<1> HIDE DEF cd1
<1>7. /\ cd2 \in Seq(Instrs) /\ Len(cd2) = L + 1 /\ cd2[L + 1] = e
      /\ \A i \in 1 .. L : cd2[i] = cd1[i]
  BY <1>4, <1>6, AppendFacts
<1> HIDE DEF cd2
<1>8. /\ L \in 1 .. L /\ \A i \in 1 .. Len(code) : i \in 1 .. L
      /\ \A i \in p + 1 .. Len(cd2) : i \in p + 1 .. Len(code) \/ i = L \/ i = L + 1
      /\ \A i \in p + 1 .. Len(code) : i \in 1 .. Len(code)
      /\ \A i \in 1 .. p : i \in 1 .. Len(code)
  BY <1>3, <1>7
<1>9. ASSUME NEW i \in p + 1 .. Len(cd2)
      PROVE  cd2[i].op # "trapiffalse" /\ (Jumps(cd2[i]) => cd2[i].v \in p + 1 .. Len(cd2))
  <2>1. CASE i \in p + 1 .. Len(code)
    <3>1. cd2[i] = code[i]
      BY <1>6, <1>7, <1>8, <2>1
    <3>2. ~Waits(ctl, i)
      BY <1>1 DEF Waits
    <3>3. code[i].op # "trapiffalse" /\ (Jumps(code[i]) => code[i].v \in p + 1 .. Len(code) + 1)
      BY <1>2, <2>1, <3>2 DEF Beyond
    <3>4. \A v : v \in p + 1 .. Len(code) + 1 => v \in p + 1 .. Len(cd2)
      BY <1>3, <1>7
    <3> QED BY <3>1, <3>3, <3>4
  <2>2. CASE i = L
    BY <1>4, <1>6, <1>7, <1>8, <2>2 DEF Jumps
  <2>3. CASE i = L + 1
    BY <1>4, <1>7, <2>3 DEF Jumps
  <2> QED BY <1>8, <2>1, <2>2, <2>3
<1>10. Finished(p, cd2)
  <2>1. p < Len(cd2) /\ cd2[Len(cd2)].op = "ret"
    BY <1>3, <1>4, <1>7
  <2> QED BY <1>3, <1>7, <1>9, <2>1 DEF Finished
<1>11. Checked(p, cd2)
  <2>1. \A i \in 1 .. p : cd2[i] = code[i]
    BY <1>6, <1>7, <1>8
  <2> QED BY <1>2, <1>3, <2>1, CheckedKept
<1> QED BY <1>5, <1>10, <1>11 DEF Whole

\* The machine starts with the inputs, at the predicate or at the body.
LEMMA StartMachine ==
  ASSUME Whole, Start
  PROVE  Machine'
<1>1. PICK p : Finished(p, code) /\ Checked(p, code)
  BY DEF Whole
<1>2. PICK in \in Inputs : args' = in /\ cstack' = in
  BY DEF Start, Inputs
<1>3. pc' = 1 /\ code' = code
  BY DEF Start
<1>4. p \in Nat /\ code \in Seq(Instrs) /\ 1 \in 1 .. Len(code)
  BY <1>1 DEF Finished
<1>5. ASSUME 1 <= p PROVE \E ann : Prefix(ann, in, code, p) /\ in \in ann[1]
  <2>1. PICK ann : Prefix(ann, in, code, p)
    BY <1>1, <1>4, <1>5 DEF Checked
  <2> QED BY <2>1 DEF Prefix
<1>6. AtPrefix(p)'
  BY <1>1, <1>2, <1>3, <1>4, <1>5 DEF AtPrefix
<1> QED BY <1>2, <1>6 DEF Machine

\* A machine step in the predicate, at its trap, and past it.
LEMMA ExecMachine ==
  ASSUME Machine, Exec
  PROVE  phase' \in {"trapped", "returned"} \/ (phase' = "run" /\ Machine')
<1> DEFINE o == code[pc]
           j == Target(o, pc, cstack)
<1>1. PICK p : AtPrefix(p)
  BY DEF Machine
<1>2. /\ p \in Nat /\ code \in Seq(Instrs) /\ Len(code) \in Nat /\ p < Len(code)
      /\ code[Len(code)].op = "ret" /\ pc \in 1 .. Len(code) /\ args \in Inputs
      /\ \A i \in p + 1 .. Len(code) :
           code[i].op # "trapiffalse" /\ (Jumps(code[i]) => code[i].v \in p + 1 .. Len(code))
  BY <1>1 DEF AtPrefix, Finished, Machine
<1>3. code' = code /\ args' = args
  BY DEF Exec
<1>4. CASE Traps(o, cstack)
  BY <1>4 DEF Exec
<1>5. CASE ~Traps(o, cstack) /\ o.op = "ret"
  BY <1>5 DEF Exec
<1>6. CASE ~Traps(o, cstack) /\ o.op # "ret"
  <2>1. phase' = "run" /\ cstack' \in Results(o, args, cstack) /\ pc' = j
    BY <1>6 DEF Exec
  <2>2. /\ j \in 1 .. Len(code)
        /\ j <= p => \E ann : Prefix(ann, args, code, p) /\ cstack' \in ann[j]
    <3>1. CASE pc < p
      <4>1. PICK ann : Prefix(ann, args, code, p) /\ cstack \in ann[pc]
        BY <1>1, <1>2, <3>1 DEF AtPrefix
      <4>2. pc \in 1 .. p - 1
        BY <1>2, <3>1
      <4>3. Leads(ann, args, o, pc) /\ Len(ann) = p
        BY <4>1, <4>2 DEF Prefix
      <4>4. j \in 1 .. p /\ cstack' \in ann[j]
        BY <2>1, <4>1, <4>3 DEF Leads
      <4> QED BY <1>2, <4>1, <4>4
    <3>2. CASE pc = p
      <4>1. o.op = "trapiffalse"
        BY <1>1, <1>2, <3>2 DEF AtPrefix, Prefix
      <4>2. j = p + 1
        BY <3>2, <4>1 DEF Target
      <4> HIDE DEF j
      <4> QED BY <1>2, <4>2
    <3>3. CASE pc > p
      <4>1. pc \in p + 1 .. Len(code) /\ pc # Len(code)
        BY <1>2, <1>6, <3>3
      <4>2. j = pc + 1 \/ (Jumps(o) /\ j = o.v)
        BY DEF Target, Jumps
      <4>3. Jumps(o) => o.v \in p + 1 .. Len(code)
        BY <1>2, <4>1
      <4> HIDE DEF j, o
      <4> QED BY <1>2, <4>1, <4>2, <4>3
    <3> QED BY <1>2, <3>1, <3>2, <3>3
  <2>3. AtPrefix(p)'
    <3>1. Finished(p, code)
      BY <1>1 DEF AtPrefix
    <3> HIDE DEF j
    <3> QED BY <1>3, <2>1, <2>2, <3>1 DEF AtPrefix
  <2> QED BY <1>2, <1>3, <2>1, <2>3 DEF Machine
<1> QED BY <1>4, <1>5, <1>6

\* What the invariant says of the predicate's trap.
LEMMA NeedsJudged ==
  ASSUME NeedsInv
  PROVE  NeedsKeepsInputs
<1> SUFFICES ASSUME phase = "run", code[pc].op = "trapiffalse" PROVE Below(cstack, 1) = args
  BY DEF NeedsKeepsInputs, Running
<1>1. PICK p : AtPrefix(p)
  BY DEF NeedsInv, Machine
<1>2. p \in Nat /\ pc \in 1 .. Len(code) /\ code \in Seq(Instrs) /\ Len(code) \in Nat
      /\ \A i \in p + 1 .. Len(code) : code[i].op # "trapiffalse"
  BY <1>1 DEF AtPrefix, Finished
<1>3. pc <= p
  <2>1. ~(pc \in p + 1 .. Len(code))
    BY <1>2
  <2> QED BY <1>2, <2>1
<1>4. PICK ann : Prefix(ann, args, code, p) /\ cstack \in ann[pc]
  BY <1>1, <1>3 DEF AtPrefix
<1>5. pc = p
  <2>1. ~(pc \in 1 .. p - 1)
    BY <1>4 DEF Prefix
  <2> QED BY <1>2, <1>3, <2>1
<1> QED BY <1>4, <1>5 DEF Prefix

\* The predicate begins with the inputs, and so does the body.
LEMMA InitNeeds == Init => NeedsInv
<1> SUFFICES ASSUME Init PROVE NeedsInv
  OBVIOUS
<1>1. /\ abs = ArgSlots /\ ts = InTypes /\ code = <<>> /\ ctl = <<>> /\ snap = ArgSlots
      /\ phase \in {"body", "needs"}
  BY DEF Init
<1>2. NIn \in Nat /\ NIn = Len(InTypes) /\ Len(ArgSlots) = NIn
  BY InputsCovered, DischargeAssumption DEF NIn
<1>3. ASSUME NEW in \in Inputs PROVE Traced(<<{in}>>, in, ArgSlots, InTypes, <<>>, <<>>)
  <2>1. in \in IntStacks /\ Len(in) = NIn
    <3>1. Word \subseteq Int
      BY WordFacts
    <3>2. in \in [1 .. NIn -> Int]
      BY <3>1 DEF Inputs
    <3>3. in \in Seq(Int) /\ Len(in) = NIn
      BY <1>2, <3>2
    <3> QED BY <3>3 DEF IntStacks
  <2>2. in \in Told(ArgSlots, in)
    <3>1. ASSUME NEW i \in 1 .. NIn PROVE Tells(ArgSlots[i], in, in[i])
      <4>1. ArgSlots[i].org + 1 = i
        BY <1>2 DEF ArgSlots
      <4> QED BY <4>1 DEF Tells
    <3> QED BY <1>2, <2>1, <3>1 DEF Told
  <2> DEFINE A == {in}
             ann == <<A>>
  <2>3. A \in SUBSET IntStacks /\ in \in A /\ A \subseteq Told(ArgSlots, in)
    BY <2>1, <2>2
  <2> HIDE DEF A
  <2>4. ann \in Seq(SUBSET IntStacks) /\ Len(ann) = 1 /\ ann[1] = A
    BY <2>3
  <2> HIDE DEF ann
  <2>5. <<>> \in Seq(Instrs) /\ <<>> \in Seq(Frames) /\ Len(<<>>) = 0
    OBVIOUS
  <2>6. Traced(ann, in, ArgSlots, InTypes, <<>>, <<>>)
    BY <2>3, <2>4, <2>5, InputsCovered DEF Traced
  <2> QED BY <2>6 DEF ann, A
<1>4. CASE phase = "needs"
  BY <1>1, <1>3, <1>4 DEF NeedsInv, Needing
<1>5. CASE phase = "body"
  <2>1. <<>> \in Seq({}) /\ <<>> \in Seq(Instrs) /\ Len(<<>>) = 0
    OBVIOUS
  <2>2. Beyond(0, <<>>, <<>>)
    BY <2>1 DEF Beyond
  <2>3. Checked(0, <<>>)
    BY DEF Checked
  <2> QED BY <1>1, <1>5, <2>2, <2>3 DEF NeedsInv, Bodied
<1> QED BY <1>1, <1>4, <1>5

\* No loop is opened in a predicate.
LEMMA CompileTraced ==
  ASSUME NEW in \in Inputs, NEW ann, Traced(ann, in, abs, ts, code, ctl), Fits, Fits',
         phase = "needs", Compile, ~EndNeeds
  PROVE  phase' = "needs" /\ \E bnn : Traced(bnn, in, abs', ts', code', ctl')
<1>1. ~Inside({"header", "cond"}) /\ ~Inside({"while"})
  BY TracedFrame DEF Inside
<1>2. ~CompileWhile /\ ~WhileBody /\ ~CompileLoop /\ ~EndWhile /\ ~Epilogue
  BY <1>1 DEF CompileWhile, WhileBody, CompileLoop, EndWhile, Epilogue
<1>3. CASE \E op \in PlainOps : EmitOp(op)
  <2>1. PICK op \in PlainOps : EmitOp(op)
    BY <1>3
  <2>2. phase' = "needs"
    BY <2>1 DEF EmitOp
  <2> QED BY <2>1, <2>2, EmitOpTraced
<1>4. CASE CompileCast
  <2>1. phase' = "needs"
    BY <1>4 DEF CompileCast
  <2> QED BY <1>4, <2>1, CompileCastTraced
<1>5. CASE CompileCastQ
  <2>1. phase' = "needs"
    BY <1>5 DEF CompileCastQ
  <2> QED BY <1>5, <2>1, CompileCastQTraced
<1>6. CASE CompileIf
  <2>1. phase' = "needs"
    BY <1>6 DEF CompileIf
  <2> QED BY <1>6, <2>1, CompileIfTraced
<1>7. CASE CompileElse
  <2>1. phase' = "needs"
    BY <1>7 DEF CompileElse
  <2> QED BY <1>7, <2>1, CompileElseTraced
<1>8. CASE EndIf
  <2>1. phase' = "needs"
    BY <1>8 DEF EndIf
  <2> QED BY <1>8, <2>1, EndIfTraced
<1> QED BY <1>2, <1>3, <1>4, <1>5, <1>6, <1>7, <1>8 DEF Compile

\* Whatever is emitted in the body stays behind the predicate.
LEMMA CompileBodied ==
  ASSUME Bodied, phase = "body", Compile
  PROVE  (phase' = "body" /\ Bodied') \/ (phase' = "start" /\ Whole')
<1>1. CASE \E op \in PlainOps : EmitOp(op)
  <2>1. PICK op \in PlainOps : EmitOp(op)
    BY <1>1
  <2>2. phase' = "body"
    BY <2>1 DEF EmitOp
  <2> QED BY <2>1, <2>2, EmitOpBody
<1>2. CASE CompileCast
  <2>1. phase' = "body"
    BY <1>2 DEF CompileCast
  <2> QED BY <1>2, <2>1, CompileCastBody
<1>3. CASE CompileCastQ
  <2>1. phase' = "body"
    BY <1>3 DEF CompileCastQ
  <2> QED BY <1>3, <2>1, CompileCastQBody
<1>4. CASE CompileIf
  <2>1. phase' = "body"
    BY <1>4 DEF CompileIf
  <2> QED BY <1>4, <2>1, CompileIfBody
<1>5. CASE CompileElse
  <2>1. phase' = "body"
    BY <1>5 DEF CompileElse
  <2> QED BY <1>5, <2>1, CompileElseBody
<1>6. CASE EndIf
  <2>1. phase' = "body"
    BY <1>6 DEF EndIf
  <2> QED BY <1>6, <2>1, EndIfBody
<1>7. CASE CompileWhile
  <2>1. phase' = "body"
    BY <1>7 DEF CompileWhile
  <2> QED BY <1>7, <2>1, CompileWhileBody
<1>8. CASE WhileBody
  <2>1. phase' = "body"
    BY <1>8 DEF WhileBody
  <2> QED BY <1>8, <2>1, WhileBodyBody
<1>9. CASE CompileLoop
  <2>1. phase' = "body"
    BY <1>9 DEF CompileLoop
  <2> QED BY <1>9, <2>1, CompileLoopBody
<1>10. CASE EndWhile
  <2>1. phase' = "body"
    BY <1>10 DEF EndWhile
  <2> QED BY <1>10, <2>1, EndWhileBody
<1>11. CASE EndNeeds
  BY <1>11 DEF EndNeeds
<1>12. CASE Epilogue
  <2>1. phase' = "start"
    BY <1>12 DEF Epilogue
  <2> QED BY <1>12, <2>1, EpilogueWhole
<1> QED BY <1>1, <1>2, <1>3, <1>4, <1>5, <1>6, <1>7, <1>8, <1>9, <1>10, <1>11, <1>12 DEF Compile

\* Every step keeps the invariant.
LEMMA NextNeeds ==
  ASSUME NeedsInv, Fits, Fits', [Next]_vars
  PROVE  NeedsInv'
<1>1. snap = ArgSlots
  BY DEF NeedsInv
<1>2. CASE Compile
  <2>1. snap' = ArgSlots /\ Compiling
    BY <1>1, <1>2 DEF Compile, EmitOp, CompileCast, CompileCastQ, CompileIf, CompileElse, EndIf,
         CompileWhile, WhileBody, CompileLoop, EndWhile, EndNeeds, Epilogue, MayEmit, MayBranch,
         Inside, Compiling
  <2>2. CASE phase = "needs" /\ EndNeeds
    <3>1. Needing
      BY <2>2 DEF NeedsInv
    <3>2. phase' = "rejected" \/ phase' = "body"
      BY <2>2 DEF EndNeeds
    <3>3. ASSUME phase' = "body" PROVE Bodied'
      BY <1>1, <2>2, <3>1, <3>3, EndNeedsChecked DEF Needing, Bodied
    <3> QED BY <2>1, <3>2, <3>3 DEF NeedsInv
  <2>3. CASE phase = "needs" /\ ~EndNeeds
    <3>1. ASSUME NEW in \in Inputs
          PROVE  phase' = "needs" /\ \E bnn : Traced(bnn, in, abs', ts', code', ctl')
      <4>1. PICK ann : Traced(ann, in, abs, ts, code, ctl)
        BY <2>3 DEF NeedsInv, Needing
      <4> QED BY <1>2, <2>3, <4>1, CompileTraced
    <3>2. phase' = "needs"
      BY <3>1, SomeInput
    <3>3. Needing'
      BY <3>1 DEF Needing
    <3> QED BY <2>1, <3>2, <3>3 DEF NeedsInv
  <2>4. CASE phase = "body"
    <3>1. Bodied
      BY <2>4 DEF NeedsInv
    <3>2. (phase' = "body" /\ Bodied') \/ (phase' = "start" /\ Whole')
      BY <1>2, <2>4, <3>1, CompileBodied
    <3> QED BY <2>1, <3>2 DEF NeedsInv
  <2> QED BY <2>1, <2>2, <2>3, <2>4 DEF Compiling
<1>3. CASE Start
  <2>1. phase = "start" /\ phase' = "run" /\ snap' = snap
    BY <1>3 DEF Start
  <2>2. Machine'
    BY <1>3, <2>1, StartMachine DEF NeedsInv
  <2> QED BY <1>1, <2>1, <2>2 DEF NeedsInv
<1>4. CASE Exec
  <2>1. phase = "run" /\ snap' = snap
    BY <1>4 DEF Exec
  <2>2. phase' \in {"trapped", "returned"} \/ (phase' = "run" /\ Machine')
    BY <1>4, <2>1, ExecMachine DEF NeedsInv
  <2> QED BY <1>1, <2>1, <2>2 DEF NeedsInv
<1>5. CASE UNCHANGED vars
  BY <1>5 DEF vars, NeedsInv, Needing, Bodied, Whole, Machine, AtPrefix
<1> QED BY <1>2, <1>3, <1>4, <1>5 DEF Next

\* E3312: whatever word is compiled, an accepted predicate leaves its subjects
\* as they were when its trap is reached, for every word that never needs
\* more than MaxSlots slots.
THEOREM NeedsAlwaysKeepsInputs == Spec /\ []Fits => []NeedsKeepsInputs
<1>1. Init => NeedsInv
  BY InitNeeds
<1>2. NeedsInv /\ Fits /\ Fits' /\ [Next]_vars => NeedsInv'
  BY NextNeeds
<1>3. NeedsInv => NeedsKeepsInputs
  BY NeedsJudged
<1> QED BY <1>1, <1>2, <1>3, PTL DEF Spec
=============================================================================
