------------------------------ MODULE Discharge ------------------------------
(***************************************************************************)
(* Check elision under --checks=undischarged.  The lowering of a word      *)
(* (semantics/src/typecheck/irgen) steps an abstract interpreter           *)
(* (verifier/src/interp.rs, Linear) in lockstep with the operations it     *)
(* emits; a subtype-range site whose abstract value lies in the target     *)
(* range is discharged and its runtime trap left out.                      *)
(*                                                                         *)
(* The word is built token by token: every behaviour is one word of at     *)
(* most MaxTokens tokens, compiled by the same steps as the code, and then *)
(* run on a wrapping machine.  An elided trap leaves a marker in the code  *)
(* that the machine ignores, so that a property can ask whether the trap   *)
(* that was left out would have fired.                                     *)
(***************************************************************************)
EXTENDS Intervals, Sequences, FiniteSets

CONSTANTS InTypes,    \* the word's inputs, a sequence of "int" and "sub"
          SubLo, SubHi, \* the one subtype's range
          Consts,     \* the literals of the words built
          Names,      \* the other operations of the words built
          Control,    \* the constructs of the words built
          MaxTokens,  \* bound on the operations of a word
          MaxControl, \* bound on its control constructs
          MaxSlots    \* the abstract stack's capacity (MAX_SLOTS)

Constructs == {"if", "while", "loop", "as?", "needs"}
OpNames == CmpKinds \cup
  {"dup", "drop", "swap", "add", "sub", "mul", "and", "or", "not", "havoc"}

ASSUME DischargeAssumption ==
  /\ InTypes \in Seq({"int", "sub"})
  /\ SubLo \in Word /\ SubHi \in Word /\ SubLo <= SubHi
  /\ Consts \subseteq Word /\ Names \subseteq OpNames
  /\ Control \subseteq Constructs
  /\ MaxTokens \in Nat /\ MaxControl \in Nat /\ MaxSlots \in Nat \ {0}

VARIABLES phase,  \* "needs", "body", "start", "run", "returned", "trapped", "rejected"
          abs,    \* the abstract state of the block being emitted
          ts,     \* the typechecker's stack of types
          ctl,    \* the open control constructs, innermost last
          code,   \* the emitted operations
          exact,  \* ghost: what was judged in loops holds of every turn, no `as?' has narrowed
          snap,   \* the subject slots when the needs predicate began
          pc, cstack, args   \* the machine

vars == <<phase, abs, ts, ctl, code, exact, snap, pc, cstack, args>>

NIn == Len(InTypes)

-----------------------------------------------------------------------------
\* Abstract states: a slot is an interval with its origin.  Arg(i) is i.
OrgTop == -2
OrgComputed == -1
TopSlot == [iv |-> Top, org |-> OrgTop]
Computed(iv) == [iv |-> iv, org |-> OrgComputed]

\* The i-th slot from the top; an empty abstract stack reads as Top.
Peek(st, i) == IF i <= Len(st) THEN st[Len(st) + 1 - i] ELSE TopSlot
Truncate(st, n) == SubSeq(st, 1, LeastOf(n, Len(st)))
Pop(st, n) == Truncate(st, GreatestOf(Len(st) - n, 0))
\* A full abstract stack loses its top before the push.
Push(st, slot) == Append(Truncate(st, MaxSlots - 1), slot)
Push2(st, s, t) == Push(Push(st, s), t)

TopInterval(st) == IF st = <<>> THEN Bottom ELSE st[Len(st)].iv

\* The transfer function of one operation on the abstract stack.  The locals
\* that hold the inputs are written once, before the body, so LocalGet(i) is
\* the slot of Arg(i).
Transfer(st, o) ==
  LET a == Peek(st, 2)
      b == Peek(st, 1)
      Binop(iv) == Push(Pop(st, 2), Computed(iv))
      p == TriFromBoolIv(a.iv)
      q == TriFromBoolIv(b.iv)
  IN CASE o.op = "const" -> Push(st, Computed(Const(o.v)))
       [] o.op = "get" -> Push(st, [iv |-> Top, org |-> o.v])
       [] o.op = "dup" -> Push2(Pop(st, 1), b, b)
       [] o.op = "drop" -> Pop(st, 1)
       [] o.op = "swap" -> Push2(Pop(st, 2), b, a)
       [] o.op = "add" -> Binop(Add(a.iv, b.iv))
       [] o.op = "sub" -> Binop(Sub(a.iv, b.iv))
       [] o.op = "mul" -> Binop(Mul(a.iv, b.iv))
       [] o.op \in CmpKinds -> Binop(BoolIv(TriCmp(a.iv, b.iv, o.op)))
       [] o.op = "and" -> Binop(BoolIv(TriAnd(p, q)))
       [] o.op = "or" -> Binop(BoolIv(TriOr(p, q)))
       [] o.op = "not" -> Push(Pop(st, 1), Computed(BoolIv(TriNot(q))))
       \* Call and Load with a flat memory: one operand in, Top out.
       [] o.op = "havoc" -> Push(Pop(st, 1), Computed(Top))
       [] o.op = "cast" -> Push(Pop(st, 1), Computed(CastNarrow(b.iv, SubLo, SubHi)))
       [] o.op = "popcond" -> Pop(st, 1)

HullSlot(x, y) == [iv |-> Join(x.iv, y.iv), org |-> IF x.org = y.org THEN x.org ELSE OrgComputed]

\* A control-flow join: slot by slot, truncated to the join's depth.
HullState(s, t, n) ==
  [i \in 1 .. LeastOf(n, LeastOf(Len(s), Len(t))) |-> HullSlot(s[i], t[i])]

\* The back edge: a header slot stays only if the body's end is inside it.
WidenSlot(old, new) ==
  [iv |-> IF SubsetOf(new.iv, old.iv) THEN old.iv ELSE Top,
   org |-> IF old.org \in {OrgTop, new.org} THEN old.org ELSE OrgComputed]

WidenState(header, end, n) ==
  [i \in 1 .. LeastOf(n, LeastOf(Len(header), Len(end))) |-> WidenSlot(header[i], end[i])]

\* Every value a state allows is allowed by another.
Within(s, t) == Len(s) = Len(t) /\ \A i \in DOMAIN s : SubsetOf(s[i].iv, t[i].iv)

\* Mutant of OfRange: what is not proved counts as refuted.
OfRangeNotProved(iv, lo, hi) ==
  LET t == EvalInRange(iv, lo, hi)
  IN [open |-> t # "DefTrue", provably_failing |-> t # "DefTrue"]

\* The verdict of a site on an abstract value.
OfRange(iv, lo, hi) ==
  LET t == EvalInRange(iv, lo, hi)
  IN [open |-> t # "DefTrue", provably_failing |-> t = "DefFalse"]

-----------------------------------------------------------------------------
\* Typing.
Numeric == {"int", "sub"}
TypeAt(i) == ts[Len(ts) + 1 - i]
Deep(n) == Len(ts) >= n
Rest(n) == SubSeq(ts, 1, Len(ts) - n)

\* The stack of types after o; the empty set of results when o does not apply.
Typed(o) ==
  CASE o.op = "const" -> {Append(ts, o.ty)}
    [] o.op = "get" -> {Append(ts, InTypes[o.v + 1])}
    [] o.op = "dup" /\ Deep(1) -> {Append(ts, TypeAt(1))}
    [] o.op = "drop" /\ Deep(1) -> {Rest(1)}
    [] o.op = "swap" /\ Deep(2) -> {Rest(2) \o <<TypeAt(1), TypeAt(2)>>}
    [] o.op \in {"add", "sub", "mul"} /\ Deep(2) /\ {TypeAt(1), TypeAt(2)} \subseteq Numeric ->
         {Append(Rest(2), "int")}
    [] o.op \in CmpKinds /\ Deep(2) /\ {TypeAt(1), TypeAt(2)} \subseteq Numeric ->
         {Append(Rest(2), "bool")}
    [] o.op \in {"and", "or"} /\ Deep(2) /\ TypeAt(1) = "bool" /\ TypeAt(2) = "bool" -> {Rest(1)}
    [] o.op = "not" /\ Deep(1) /\ TypeAt(1) = "bool" -> {ts}
    [] o.op = "havoc" /\ Deep(1) /\ TypeAt(1) \in Numeric -> {Append(Rest(1), "int")}
    [] OTHER -> {}

Op(name, v) == [op |-> name, v |-> v, ty |-> "int"]

PlainOps ==
  {Op("const", c) : c \in Consts} \cup {[op |-> "const", v |-> c, ty |-> "bool"] : c \in {0, 1}}
  \cup {Op("get", i) : i \in 0 .. NIn - 1}
  \cup {Op(k, 0) : k \in Names}

Instr(name, v) == [op |-> name, v |-> v]
Emitted(o) == Instr(o.op, o.v)
\* What stands at a site: the trap if the site is open, a marker otherwise.
EmitSubtypeCheck(verdict) ==
  Instr(IF verdict.open THEN "check" ELSE "elided", IF verdict.provably_failing THEN 1 ELSE 0)
Compiling == phase \in {"needs", "body"}
Count(names) == Cardinality({i \in DOMAIN code : code[i].op \in names})
MayEmit == Compiling /\ Len(code) - Count({"br", "brif", "trapiffalse"}) < MaxTokens
MayBranch == Compiling /\ Count({"brif"}) + Len(ctl) < MaxControl

-----------------------------------------------------------------------------
\* The prologue stores the inputs in locals, emits the checks of the inputs
\* of subtype type (abstract value Top, so never discharged) and pushes them.
ArgSlots == [i \in 1 .. NIn |-> [iv |-> Top, org |-> i - 1]]

Init ==
  /\ phase \in {"body"} \cup (Control \cap {"needs"})
  /\ abs = ArgSlots
  /\ ts = InTypes
  /\ ctl = <<>> /\ code = <<>> /\ exact = TRUE
  /\ snap = ArgSlots
  /\ pc = 0 /\ cstack = <<>> /\ args = <<>>

\* emit_op: the abstract state steps with every operation emitted.
EmitOp(o) ==
  /\ MayEmit
  /\ \E t \in Typed(o) : ts' = t
  /\ abs' = Transfer(abs, o)
  /\ code' = Append(code, Emitted(o))
  /\ UNCHANGED <<phase, ctl, exact, snap, pc, cstack, args>>

\* Mutant of CompileCast: the cast narrows the value first.
CompileCastNarrowed ==
  /\ MayEmit /\ Deep(1) /\ TypeAt(1) \in Numeric
  /\ ts' = Append(Rest(1), "sub")
  /\ abs' = Transfer(abs, Op("cast", 0))
  /\ code' = Append(code, EmitSubtypeCheck(OfRange(TopInterval(abs'), SubLo, SubHi)))
  /\ UNCHANGED <<phase, ctl, exact, snap, pc, cstack, args>>

\* as T: the obligation is judged on the value before the cast narrows it.
CompileCast ==
  /\ MayEmit /\ Deep(1) /\ TypeAt(1) \in Numeric
  /\ ts' = Append(Rest(1), "sub")
  /\ code' = Append(code, EmitSubtypeCheck(OfRange(TopInterval(abs), SubLo, SubHi)))
  /\ abs' = Transfer(abs, Op("cast", 0))
  /\ UNCHANGED <<phase, ctl, exact, snap, pc, cstack, args>>

\* as? T: no trap; the value and a flag computed from the narrowed value.
CompileCastQ ==
  /\ MayEmit /\ "as?" \in Control /\ Deep(1) /\ TypeAt(1) \in Numeric
  /\ ts' = Rest(1) \o <<"sub", "bool">>
  /\ code' = Append(code, Instr("as?", 0))
  /\ LET st == Transfer(abs, Op("cast", 0))
         v == TopInterval(st)
     IN abs' = Push(st, Computed(BoolIv(TriAnd(TriCmp(v, Const(SubLo), "ge"),
                                               TriCmp(v, Const(SubHi), "le")))))
  /\ exact' = (exact /\ SubsetOf(TopInterval(abs), Range(SubLo, SubHi)))
  /\ UNCHANGED <<phase, ctl, snap, pc, cstack, args>>

Frame == ctl[Len(ctl)]
Outer == SubSeq(ctl, 1, Len(ctl) - 1)
Inside(kinds) == Compiling /\ ctl # <<>> /\ Frame.kind \in kinds

\* A construct opened here.  `entry', the state a loop's head is analysed
\* from, is a ghost; the code keeps only the header's folded state, `seed'.
Opened(kind, at, head, seed, base) ==
  [kind |-> kind, at |-> at, head |-> head, seed |-> seed, end |-> <<>>, base |-> base,
   types |-> <<>>, entry |-> abs]

\* A branch emitted in a loop's header block ends that block: its folded
\* state is the one the back edge will widen.
HeaderClosed(st) ==
  IF Inside({"header"}) THEN Append(Outer, [Frame EXCEPT !.kind = "cond", !.seed = st]) ELSE ctl

\* compile_if: both branches start from the state before the branch, without
\* the condition.  The branch's target is filled in when it is known.
CompileIf ==
  /\ MayBranch /\ "if" \in Control /\ Deep(1) /\ TypeAt(1) = "bool"
  /\ ts' = Rest(1)
  /\ abs' = Truncate(abs, Len(ts'))
  /\ ctl' = Append(HeaderClosed(abs'), Opened("then", Len(code) + 1, 0, abs', ts'))
  /\ code' = Append(code, Instr("brif", 0))
  /\ UNCHANGED <<phase, exact, snap, pc, cstack, args>>

CompileElse ==
  /\ Inside({"then"})
  /\ code' = [Append(code, Instr("br", 0)) EXCEPT ![Frame.at].v = Len(code) + 2]
  /\ ctl' = Append(Outer, [Frame EXCEPT !.kind = "else", !.at = Len(code) + 1,
                                        !.end = abs, !.types = ts])
  /\ abs' = Frame.seed
  /\ ts' = Frame.base
  /\ UNCHANGED <<phase, exact, snap, pc, cstack, args>>

\* Branches that end with different types are refused.
EndIf ==
  /\ Inside({"else"}) /\ ts = Frame.types
  /\ code' = [code EXCEPT ![Frame.at].v = Len(code) + 1]
  /\ abs' = HullState(Frame.end, abs, Len(ts))
  /\ ctl' = Outer
  /\ UNCHANGED <<phase, ts, exact, snap, pc, cstack, args>>

\* compile_while: the condition, then the body, are analysed once from the
\* state before the loop; the back edge widens the header block's state, and
\* only what follows the loop is seeded from it again.  A needs predicate
\* may not diverge.
CompileWhile ==
  /\ MayBranch /\ "while" \in Control /\ phase = "body"
  /\ code' = Append(code, Instr("br", Len(code) + 2))
  /\ ctl' = Append(HeaderClosed(abs), Opened("header", 0, Len(code) + 2, <<>>, ts))
  /\ UNCHANGED <<phase, abs, ts, exact, snap, pc, cstack, args>>

WhileBody ==
  /\ Inside({"header", "cond"})
  /\ ts = Append(Frame.base, "bool")
  /\ code' = Append(code, Instr("brif", 0))
  /\ abs' = Truncate(abs, Len(Frame.base))
  /\ ts' = Frame.base
  /\ ctl' = Append(Outer, [Frame EXCEPT !.kind = "while", !.at = Len(code) + 1,
                                        !.seed = IF Inside({"header"}) THEN abs' ELSE @])
  /\ exact' = (exact /\ (Inside({"cond"}) => Within(abs', Frame.seed)))
  /\ UNCHANGED <<phase, snap, pc, cstack, args>>

\* compile_loop: a check block that branches on the literal true.
CompileLoop ==
  /\ MayBranch /\ "loop" \in Control /\ phase = "body"
  /\ code' = code \o <<Instr("br", Len(code) + 2), Instr("const", 1), Instr("brif", 0)>>
  /\ ctl' = Append(HeaderClosed(abs), Opened("while", Len(code) + 3, Len(code) + 2, abs, ts))
  /\ UNCHANGED <<phase, abs, ts, exact, snap, pc, cstack, args>>

\* The back edge of either loop.
EndWhile ==
  /\ Inside({"while"}) /\ ts = Frame.base
  /\ code' = [Append(code, Instr("br", Frame.head)) EXCEPT ![Frame.at].v = Len(code) + 2]
  /\ abs' = WidenState(Frame.seed, abs, Len(ts))
  /\ ctl' = Outer
  /\ exact' = (exact /\ Within(abs, Frame.entry))
  /\ UNCHANGED <<phase, ts, snap, pc, cstack, args>>

\* Mutant of PredicateOriginsPreserved: intervals only, a swap goes unseen.
IntervalsPreserved == \A i \in 1 .. NIn : abs[i].iv = snap[i].iv

PredicateOriginsPreserved == Truncate(abs, NIn) = snap

\* The end of the needs predicate: E3312 unless the subject slots are the
\* slots it began with; the trap of the predicate itself is never elided.
EndNeeds ==
  /\ phase = "needs" /\ ctl = <<>>
  /\ ts = Append(InTypes, "bool")
  /\ IF PredicateOriginsPreserved
     THEN /\ phase' = "body"
          /\ code' = Append(code, Instr("trapiffalse", 0))
     ELSE phase' = "rejected" /\ code' = code
  /\ abs' = Pop(abs, 1)
  /\ ts' = InTypes
  /\ UNCHANGED <<ctl, exact, snap, pc, cstack, args>>

\* The epilogue: one output of the subtype, its site judged on the stack top.
Epilogue ==
  /\ phase = "body" /\ ctl = <<>> /\ ts = <<"sub">>
  /\ code' = code \o <<EmitSubtypeCheck(OfRange(TopInterval(abs), SubLo, SubHi)), Instr("ret", 0)>>
  /\ phase' = "start"
  /\ UNCHANGED <<abs, ts, ctl, exact, snap, pc, cstack, args>>

-----------------------------------------------------------------------------
\* The machine.
InRange(v) == SubLo <= v /\ v <= SubHi
Flag(b) == IF b THEN 1 ELSE 0
At(c, i) == c[Len(c) + 1 - i]
Below(c, n) == SubSeq(c, 1, Len(c) - n)

\* Inputs outside a subtype's range trap in the prologue, before the body.
Start ==
  /\ phase = "start"
  /\ \E in \in [1 .. NIn -> Word] :
       /\ \A i \in 1 .. NIn : InTypes[i] = "sub" => InRange(in[i])
       /\ args' = in /\ cstack' = in
  /\ phase' = "run" /\ pc' = 1
  /\ UNCHANGED <<abs, ts, ctl, code, exact, snap>>

\* The stacks an operation may leave of stack c, with the inputs `in'.
Results(o, in, c) ==
  CASE o.op = "const" -> {Append(c, o.v)}
    [] o.op = "get" -> {Append(c, in[o.v + 1])}
    [] o.op = "dup" -> {Append(c, At(c, 1))}
    [] o.op = "drop" -> {Below(c, 1)}
    [] o.op = "swap" -> {Below(c, 2) \o <<At(c, 1), At(c, 2)>>}
    [] o.op = "add" -> {Append(Below(c, 2), Wrap(At(c, 2) + At(c, 1)))}
    [] o.op = "sub" -> {Append(Below(c, 2), Wrap(At(c, 2) - At(c, 1)))}
    [] o.op = "mul" -> {Append(Below(c, 2), Wrap(At(c, 2) * At(c, 1)))}
    [] o.op \in CmpKinds -> {Append(Below(c, 2), Flag(Holds(o.op, At(c, 2), At(c, 1))))}
    [] o.op = "and" -> {Append(Below(c, 2), At(c, 2) * At(c, 1))}
    [] o.op = "or" -> {Append(Below(c, 2), GreatestOf(At(c, 2), At(c, 1)))}
    [] o.op = "not" -> {Append(Below(c, 1), 1 - At(c, 1))}
    [] o.op = "havoc" -> {Append(Below(c, 1), v) : v \in Word}
    [] o.op = "as?" -> {Append(c, Flag(InRange(At(c, 1))))}
    [] o.op \in {"check", "elided", "br"} -> {c}
    [] o.op \in {"brif", "trapiffalse"} -> {Below(c, 1)}
    [] o.op = "ret" -> {c}

Traps(o, c) ==
  \/ o.op = "check" /\ ~InRange(At(c, 1))
  \/ o.op = "trapiffalse" /\ At(c, 1) = 0

\* Where the machine goes from position i.
Target(o, i, c) ==
  CASE o.op = "br" -> o.v
    [] o.op = "brif" /\ At(c, 1) = 0 -> o.v
    [] OTHER -> i + 1

Exec ==
  /\ phase = "run"
  /\ LET o == code[pc]
     IN IF Traps(o, cstack) THEN phase' = "trapped" /\ UNCHANGED <<pc, cstack>>
        ELSE /\ phase' = IF o.op = "ret" THEN "returned" ELSE "run"
             /\ cstack' \in Results(o, args, cstack)
             /\ pc' = Target(o, pc, cstack)
  /\ UNCHANGED <<abs, ts, ctl, code, exact, snap, args>>

Compile ==
  \/ \E o \in PlainOps : EmitOp(o)
  \/ CompileCast \/ CompileCastQ
  \/ CompileIf \/ CompileElse \/ EndIf
  \/ CompileWhile \/ WhileBody \/ CompileLoop \/ EndWhile
  \/ EndNeeds \/ Epilogue

Next == Compile \/ Start \/ Exec

Spec == Init /\ [][Next]_vars

-----------------------------------------------------------------------------
Running(op) == phase = "run" /\ code[pc].op = op

\* A trap that was left out would not have fired: the value at an elided site
\* is in the subtype's range on every run, whatever wraps on the way, in
\* branches and in loops whose body ends inside the state their head was
\* analysed from.  That the back edge widens nothing is not enough: it is
\* compared with the header block's state after the condition's operations.
ElisionSound == Running("elided") /\ exact => InRange(At(cstack, 1))

\* A site recorded provably_failing fails every time it is reached.
FailingSound == Running("check") /\ code[pc].v = 1 /\ exact => ~InRange(At(cstack, 1))

\* The abstract stack the epilogue's verdict rests on describes the machine's
\* stack when the word returns.
AbstractCovers ==
  Running("ret") /\ exact =>
    Len(abs) = Len(cstack) /\ \A i \in DOMAIN abs : Contains(abs[i].iv, cstack[i])

\* E3312: a needs predicate that is accepted leaves its subjects as they were.
NeedsKeepsInputs == Running("trapiffalse") => Below(cstack, 1) = args

\* What interval.rs and the differential test say of every word: no false
\* discharge, loops and questions included.
NoFalseDischarge == Running("elided") => InRange(At(cstack, 1))
==============================================================================
