------------------------------ MODULE Intervals ------------------------------
(***************************************************************************)
(* The interval lattice of the in-tree discharger                          *)
(* (crates/verifier/src/interval.rs): abstract integers, the three-valued  *)
(* booleans of an obligation's head and the transfer of each arithmetic    *)
(* and comparison operator.  The concrete machine is a two's-complement    *)
(* word that wraps; its largest value is the constant IntMax (2^63 - 1 in  *)
(* the code), so that small instances overflow early.                      *)
(***************************************************************************)
EXTENDS Integers

CONSTANT IntMax

ASSUME IntMaxAssumption == IntMax \in Nat \ {0}

IntMin == -IntMax - 1
Word == IntMin .. IntMax

\* The value a wrapping machine operation leaves for the mathematical value n.
Wrap(n) == ((n - IntMin) % (2 * IntMax + 2)) + IntMin

\* lo and hi mean something only in a "range"; both are 0 otherwise.
Interval == [k : {"bottom", "range", "top"}, lo : Word, hi : Word]
Bottom == [k |-> "bottom", lo |-> 0, hi |-> 0]
Top == [k |-> "top", lo |-> 0, hi |-> 0]
Range(lo, hi) == [k |-> "range", lo |-> lo, hi |-> hi]
Const(v) == Range(v, v)

\* A well-formed abstract value: a range is never empty.
Proper(a) == a \in Interval /\ (a.k = "range" => a.lo <= a.hi)

\* Definitive membership of a concrete value.
Contains(a, v) == a.k = "top" \/ (a.k = "range" /\ a.lo <= v /\ v <= a.hi)

LeastOf(x, y) == IF x <= y THEN x ELSE y
GreatestOf(x, y) == IF x <= y THEN y ELSE x

Join(a, b) ==
  IF a.k = "bottom" THEN b
  ELSE IF b.k = "bottom" THEN a
  ELSE IF a.k = "top" \/ b.k = "top" THEN Top
  ELSE Range(LeastOf(a.lo, b.lo), GreatestOf(a.hi, b.hi))

Intersect(a, b) ==
  IF a.k = "bottom" \/ b.k = "bottom" THEN Bottom
  ELSE IF a.k = "top" THEN b
  ELSE IF b.k = "top" THEN a
  ELSE LET lo == GreatestOf(a.lo, b.lo)
           hi == LeastOf(a.hi, b.hi)
       IN IF lo > hi THEN Bottom ELSE Range(lo, hi)

SubsetOf(a, b) ==
  \/ a.k = "bottom"
  \/ b.k = "top"
  \/ a.k = "range" /\ b.k = "range" /\ b.lo <= a.lo /\ a.hi <= b.hi

\* checked_add, checked_sub, checked_mul: bounds outside the word give Top.
CheckedRange(lo, hi) == IF lo \in Word /\ hi \in Word THEN Range(lo, hi) ELSE Top

Lift(a, b, r) ==
  IF a.k = "bottom" \/ b.k = "bottom" THEN Bottom
  ELSE IF a.k = "top" \/ b.k = "top" THEN Top
  ELSE r

Add(a, b) == Lift(a, b, CheckedRange(a.lo + b.lo, a.hi + b.hi))

Sub(a, b) == Lift(a, b, CheckedRange(a.lo - b.hi, a.hi - b.lo))

\* The four corners; one corner outside the word makes the result Top.
Mul(a, b) ==
  LET w == a.lo * b.lo
      x == a.lo * b.hi
      y == a.hi * b.lo
      z == a.hi * b.hi
  IN Lift(a, b, CheckedRange(LeastOf(LeastOf(w, x), LeastOf(y, z)),
                             GreatestOf(GreatestOf(w, x), GreatestOf(y, z))))

\* Mutant of CastNarrow: the upper bound taken as excluded.
CastNarrowOpen(a, lo, hi) == Intersect(a, Range(lo, hi - 1))

CastNarrow(a, lo, hi) == Intersect(a, Range(lo, hi))

Tri == {"DefTrue", "DefFalse", "Top"}

EvalInRange(a, lo, hi) ==
  IF a.k # "range" THEN "Top"
  ELSE IF a.lo >= lo /\ a.hi <= hi THEN "DefTrue"
  ELSE IF a.hi < lo \/ a.lo > hi THEN "DefFalse"
  ELSE "Top"

TriFromBoolIv(a) ==
  IF a = Range(0, 0) THEN "DefFalse" ELSE IF a = Range(1, 1) THEN "DefTrue" ELSE "Top"

BoolIv(t) ==
  IF t = "DefTrue" THEN Const(1) ELSE IF t = "DefFalse" THEN Const(0) ELSE Range(0, 1)

TriNot(t) ==
  IF t = "DefTrue" THEN "DefFalse" ELSE IF t = "DefFalse" THEN "DefTrue" ELSE "Top"

TriAnd(s, t) ==
  IF s = "DefTrue" THEN t
  ELSE IF t = "DefTrue" THEN s
  ELSE IF "DefFalse" \in {s, t} THEN "DefFalse"
  ELSE "Top"

TriOr(s, t) ==
  IF s = "DefFalse" THEN t
  ELSE IF t = "DefFalse" THEN s
  ELSE IF "DefTrue" \in {s, t} THEN "DefTrue"
  ELSE "Top"

Decide(yes, no) == IF yes THEN "DefTrue" ELSE IF no THEN "DefFalse" ELSE "Top"

CmpKinds == {"lt", "le", "gt", "ge", "eq", "ne"}

TriCmp(a, b, kind) ==
  LET same == a.lo = a.hi /\ b.lo = b.hi /\ a.lo = b.lo
      apart == a.hi < b.lo \/ a.lo > b.hi
  IN IF a.k # "range" \/ b.k # "range" THEN "Top"
     ELSE CASE kind = "lt" -> Decide(a.hi < b.lo, a.lo >= b.hi)
            [] kind = "le" -> Decide(a.hi <= b.lo, a.lo > b.hi)
            [] kind = "gt" -> Decide(a.lo > b.hi, a.hi <= b.lo)
            [] kind = "ge" -> Decide(a.lo >= b.hi, a.hi < b.lo)
            [] kind = "eq" -> Decide(same, apart)
            [] kind = "ne" -> Decide(apart, same)

\* What the machine computes for a comparison.
Holds(kind, x, y) ==
  CASE kind = "lt" -> x < y
    [] kind = "le" -> x <= y
    [] kind = "gt" -> x > y
    [] kind = "ge" -> x >= y
    [] kind = "eq" -> x = y
    [] kind = "ne" -> x # y
==============================================================================
