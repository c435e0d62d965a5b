---------------------------- MODULE ReplSession ----------------------------
(***************************************************************************)
(* The REPL session of crates/wasm-repl: an accumulating module, a         *)
(* persistent stack and heap, phrases run as transactions over an undo     *)
(* journal, and fuel-exhausted phrases that are rolled back on the surface *)
(* yet kept to be resumed by step.                                         *)
(*                                                                         *)
(* Source text is counted in definitions, the data stack by its depth, the *)
(* output by the bytes written.  A phrase is any sequence of operations:   *)
(* each one costs a unit of fuel, as in Engine::drive.                     *)
(***************************************************************************)
EXTENDS RegionHeap

CONSTANTS
  WordCap,     \* MODULE_WORD_CAP (64)
  SourceCap,   \* SOURCE_CAP, in definitions
  FuelBudget,  \* SessionOpts.fuel
  StepBudgets, \* the fuels step is called with
  Ops,         \* the operations phrases are made of
  MaxDefs,     \* definitions in one submission
  MaxCommits,  \* committed submissions between two resets
  MaxJournal,  \* effects journalled by one phrase, steps included
  MaxDepth,    \* depth of the data stack
  MaxOut       \* output bytes between two resets

ASSUME SessionAssumption ==
  /\ WordCap \in Nat /\ SourceCap \in Nat /\ FuelBudget \in Nat /\ StepBudgets \subseteq Nat
  /\ MaxDefs \in Nat /\ MaxCommits \in Nat /\ MaxJournal \in Nat /\ MaxDepth \in Nat
  /\ MaxOut \in Nat

VARIABLES
  source, moduleForm,  \* the session buffer
  words, artifact,     \* the last good Compiled: its word count and its age
  heap, stack,         \* the session surface
  run,                 \* the ExecState of the phrase that runs
  suspended,           \* the ExecState kept by a fuel exhaustion
  outTotal, status, lastTrace,
  sub,                 \* the last submission with content
  emitted              \* history: the bytes the program has written

vars == <<source, moduleForm, words, artifact, heap, stack, run, suspended,
          outTotal, status, lastTrace, sub, emitted>>

NoRun == [live |-> FALSE]
NoSub == [defs |-> 0, whole |-> FALSE, phrase |-> FALSE]

Submissions ==
  [defs : 0 .. MaxDefs, whole : BOOLEAN, phrase : BOOLEAN] \ {NoSub}

\* ReplSession::new and reset reach the same state.
Fresh ==
  [source |-> 0, moduleForm |-> FALSE, words |-> 0, artifact |-> 0,
   heap |-> EmptyHeap, stack |-> 0]

Init ==
  /\ source = Fresh.source /\ moduleForm = Fresh.moduleForm
  /\ words = Fresh.words /\ artifact = Fresh.artifact
  /\ heap = Fresh.heap /\ stack = Fresh.stack
  /\ run = NoRun /\ suspended = NoRun
  /\ outTotal = 0 /\ emitted = 0
  /\ status = "none" /\ lastTrace = FALSE /\ sub = NoSub

Reset ==
  /\ ~run.live
  /\ source' = Fresh.source /\ moduleForm' = Fresh.moduleForm
  /\ words' = Fresh.words /\ artifact' = Fresh.artifact
  /\ heap' = Fresh.heap /\ stack' = Fresh.stack
  /\ suspended' = NoRun /\ UNCHANGED run
  /\ outTotal' = 0 /\ emitted' = 0
  /\ status' = "none" /\ lastTrace' = FALSE /\ sub' = NoSub

-----------------------------------------------------------------------------
(* Transaction 1: the compile, all or nothing.                             *)

Surface == <<source, moduleForm, words, artifact, heap, stack>>
Output  == <<outTotal, emitted>>

\* Mutant of SuspensionAfterSubmit: a submission leaves the suspension.
SuspensionKept == suspended

\* Any submission with content drops the suspended phrase.
SuspensionAfterSubmit == NoRun

\* A submission of comments or of nothing re-renders and keeps everything.
SubmitNothing ==
  /\ ~run.live
  /\ status' = "ok"
  /\ UNCHANGED <<Surface, Output, run, suspended, lastTrace, sub>>

SourceAfter(s) == IF s.whole THEN s.defs ELSE source + s.defs
CurrentWords(s) == IF s.whole THEN 0 ELSE words

OverSource(s) == source + s.defs > SourceCap
OverWords(s)  == s.defs > 0 /\ CurrentWords(s) + s.defs > WordCap

\* E3920 counts the synthetic word of the phrase too.
WordsBuilt(s) == SourceAfter(s) + (IF s.phrase THEN 1 ELSE 0)

\* The verdicts a compile can give: it may reject any text, and must reject
\* a module of too many words.
Verdicts(s) ==
  IF OverSource(s) THEN {"E9154"}
  ELSE IF OverWords(s) THEN {"E9157"}
  ELSE IF WordsBuilt(s) > WordCap THEN {"compile_error"}
  ELSE {"compile_error", "built"}

SubmitRefused(s) ==
  /\ ~run.live
  /\ status' \in Verdicts(s) \ {"built"}
  /\ suspended' = SuspensionAfterSubmit /\ sub' = s
  /\ UNCHANGED <<Surface, Output, run, lastTrace>>

Commit(s) ==
  /\ ~run.live /\ artifact < MaxCommits
  /\ "built" \in Verdicts(s)
  /\ suspended' = SuspensionAfterSubmit /\ sub' = s
  /\ source' = SourceAfter(s) /\ moduleForm' = (s.whole \/ moduleForm)
  /\ words' = WordsBuilt(s) /\ artifact' = artifact + 1

SubmitDefinitions(s) ==
  /\ ~s.phrase /\ Commit(s)
  /\ status' = "ok" /\ lastTrace' = FALSE
  /\ UNCHANGED <<heap, stack, run, Output>>

-----------------------------------------------------------------------------
(* Transaction 2: the phrase.                                              *)

\* intern_compiled: each string literal of the module is placed anew in the
\* arena, outside the journal; one that does not fit is skipped.
InternCompiled(h, literals) ==
  IF literals = 1 /\ Fits(h, 1) THEN Claim(h, 1) ELSE h

\* in_session takes the surface; `before' and `entry' are history.
StartPhrase(s, literals) ==
  /\ s.phrase /\ Commit(s)
  /\ LET h == InternCompiled(heap, literals)
     IN  run' = [live |-> TRUE, heap |-> h, stack |-> stack, journal |-> << >>,
                 entryStack |-> stack, out |-> 0, fuel |-> FuelBudget,
                 built |-> artifact + 1, before |-> heap, entry |-> h]
  /\ heap' = EmptyHeap /\ stack' = 0
  /\ UNCHANGED <<Output, status, lastTrace>>

\* One operation of the phrase: its stack effect, its heap and its effect.
Do(name, pops, pushes, h, effects) ==
  /\ run.live /\ run.fuel > 0 /\ name \in Ops
  /\ run.stack >= pops /\ run.stack - pops + pushes <= MaxDepth
  /\ Len(run.journal) + Len(effects) <= MaxJournal
  /\ run' = [run EXCEPT !.fuel = @ - 1, !.stack = @ - pops + pushes,
                        !.heap = h, !.journal = @ \o effects]
  /\ UNCHANGED <<Surface, suspended, Output, status, lastTrace, sub>>

Literal == Do("literal", 0, 1, run.heap, << >>)

CreateOp(n) ==
  /\ run.live /\ CreateFits(run.heap, n)
  /\ Do("create", 1, 1, RegionCreate(run.heap, n),
        <<[kind |-> "create", slot |-> SlotFor(run.heap),
           old |-> Len(run.heap.mem)]>>)

AllocOp(s, n) ==
  /\ run.live /\ Live(run.heap, s)
  /\ run.heap.regions[s].off + n <= run.heap.regions[s].size
  /\ Do("alloc", 2, 1, RegionAlloc(run.heap, s, n),
        <<[kind |-> "cursor", slot |-> s, old |-> run.heap.regions[s].off]>>)

ResetOp(s) ==
  /\ run.live /\ Live(run.heap, s)
  /\ Do("reset", 1, 0, RegionReset(run.heap, s),
        <<[kind |-> "cursor", slot |-> s, old |-> run.heap.regions[s].off]>>)

DestroyOp(s) ==
  /\ run.live /\ Live(run.heap, s)
  /\ Do("destroy", 1, 0, RegionDestroy(run.heap, s),
        <<[kind |-> "destroy", slot |-> s, saved |-> run.heap.regions[s]]>>)

StoreOp(a, v) ==
  /\ run.live /\ a \in Accessible(run.heap)
  /\ Do("store", 2, 0, Store(run.heap, a, v),
        <<[kind |-> "store", addr |-> a, old |-> run.heap.mem[a]]>>)

\* ScopedEnter claims a two-word descriptor, a resource place one word.
ClaimOp(name, n) ==
  /\ run.live /\ Fits(run.heap, n)
  /\ Do(name, 0, 1, Claim(run.heap, n),
        <<[kind |-> "claim", addr |-> Len(run.heap.mem) + 1,
           old |-> Len(run.heap.mem)]>>)

Emit ==
  /\ run.live /\ run.fuel > 0 /\ "emit" \in Ops
  /\ run.stack > 0 /\ emitted < MaxOut
  /\ run' = [run EXCEPT !.fuel = @ - 1, !.stack = @ - 1, !.out = @ + 1]
  /\ emitted' = emitted + 1
  /\ UNCHANGED <<Surface, suspended, outTotal, status, lastTrace, sub>>

-----------------------------------------------------------------------------
(* settle.                                                                 *)

\* The output is taken from the state before anything else is done with it.
Settle(result, h, d) ==
  /\ heap' = h /\ stack' = d
  /\ run' = NoRun /\ status' = result /\ lastTrace' = TRUE
  /\ outTotal' = outTotal + run.out
  /\ UNCHANGED <<source, moduleForm, words, artifact, sub, emitted>>

Rollback(h, result) == Settle(result, Undo(h, run.journal), run.entryStack)

\* A phrase that completes, or that calls exit, commits what it did.
Done(result) ==
  /\ run.live /\ run.fuel > 0
  /\ Settle(result, run.heap, run.stack)
  /\ UNCHANGED suspended

Fault(result) ==
  /\ run.live /\ run.fuel > 0
  /\ Rollback(run.heap, result)
  /\ UNCHANGED suspended

\* A create that fails in reserve has already moved `next'.
CreateFails(n) ==
  /\ run.live /\ run.fuel > 0 /\ "create" \in Ops /\ run.stack >= 1
  /\ ~CreateFits(run.heap, n)
  /\ Rollback(BumpNext(run.heap), "trapped")
  /\ UNCHANGED suspended

\* Mutant of AtExhaustion: the copy keeps the output already handed over.
AtExhaustionWithOut(r) == r

\* The copy kept by a fuel exhaustion: all of the state but its output.
AtExhaustion(r) == [r EXCEPT !.out = 0]

Exhaust ==
  /\ run.live /\ run.fuel = 0
  /\ suspended' = AtExhaustion(run)
  /\ Rollback(run.heap, "fuel")

StepPhrase(ops) ==
  /\ ~run.live /\ suspended.live
  /\ run' = [suspended EXCEPT !.fuel = ops]
  /\ suspended' = NoRun
  /\ UNCHANGED <<Surface, Output, status, lastTrace, sub>>

StepNothing ==
  /\ ~run.live /\ ~suspended.live
  /\ status' = "E9155"
  /\ UNCHANGED <<Surface, Output, run, suspended, lastTrace, sub>>

Submit ==
  \/ SubmitNothing
  \/ \E s \in Submissions : SubmitRefused(s)
  \/ \E s \in Submissions : SubmitDefinitions(s)
  \/ \E s \in Submissions, literals \in 0 .. 1 : StartPhrase(s, literals)

PhraseOp ==
  \/ Literal
  \/ \E n \in 1 .. HeapCap : CreateOp(n)
  \/ \E s \in SlotIds, n \in 1 .. HeapCap : AllocOp(s, n)
  \/ \E s \in SlotIds : ResetOp(s)
  \/ \E s \in SlotIds : DestroyOp(s)
  \/ \E a \in 1 .. HeapCap, v \in 0 .. 1 : StoreOp(a, v)
  \/ ClaimOp("scoped_enter", 2)
  \/ ClaimOp("place", 1)
  \/ Emit

Outcome ==
  \/ \E r \in {"ok", "exited"} : Done(r)
  \/ \E r \in {"trapped", "device_error", "internal"} : Fault(r)
  \/ \E n \in 1 .. HeapCap : CreateFails(n)
  \/ Exhaust

Next ==
  \/ Submit \/ PhraseOp \/ Outcome
  \/ \E ops \in StepBudgets : StepPhrase(ops)
  \/ StepNothing
  \/ Reset

Spec == Init /\ [][Next]_vars

-----------------------------------------------------------------------------
(* Properties.                                                             *)

Statuses == {"none", "ok", "exited", "trapped", "device_error", "internal",
             "fuel", "compile_error", "E9154", "E9155", "E9157"}

HeapOK(h) ==
  /\ h.mem \in Seq(0 .. 1) /\ Len(h.mem) <= HeapCap
  /\ h.next \in 0 .. Slots

\* Type invariant of transactional_submit, step and reset: the buffer, the
\* built module and every heap stay within their caps.
ReplTypeOK ==
  /\ source \in 0 .. WordCap /\ words \in source .. WordCap
  /\ artifact \in 0 .. MaxCommits /\ stack \in 0 .. MaxDepth
  /\ status \in Statuses /\ HeapOK(heap)
  /\ run.live => HeapOK(run.heap) /\ run.stack \in 0 .. MaxDepth
  /\ suspended.live => HeapOK(suspended.heap) /\ Len(suspended.journal) <= MaxJournal

\* The slot scan of region_create never ran past the dead slots.
SlotsSufficed(h) == h.next = 0

Rolled == {"trapped", "device_error", "internal", "fuel"}

\* rollback (session.rs): a phrase that ends in a fault, after any number of
\* suspensions and resumptions, leaves the stack and the heap as they were
\* at its checkpoint, whatever it created, destroyed, reset or overwrote.
RollbackExact ==
  [][ (run.live /\ ~run'.live /\ status' \in Rolled /\ SlotsSufficed(heap'))
        => heap' = run.entry /\ stack' = run.entryStack ]_vars

\* Every heap of the session: its surface, the running and the kept one.
Heaps ==
  {heap} \cup (IF run.live THEN {run.heap} ELSE {})
         \cup (IF suspended.live THEN {suspended.heap} ELSE {})

TailUnreachableIn(h) == \A r \in h.live : r.end <= Len(h.mem) + 1

RangesDisjoint(h) ==
  \A r, t \in h.live : r # t => r.end <= t.start \/ t.end <= r.start

RegionsAreLive(h) ==
  \A s \in SlotIds : Live(h, s) =>
     /\ RegionRange(h.regions[s]) \in h.live
     /\ h.regions[s].off <= h.regions[s].size

\* range and reclaim (heap.rs): live ranges are disjoint and inside the
\* arena, and each live region is one of them, also after a rollback has
\* taken storage back and later phrases have reused it.
HeapSound ==
  \A h \in Heaps : SlotsSufficed(h) =>
     TailUnreachableIn(h) /\ RangesDisjoint(h) /\ RegionsAreLive(h)

\* settle and step (session.rs): the phrase kept for step always belongs to
\* the current artifact, and undoing its journal gives the very surface the
\* session shows, so that a fault after a resumption restores that surface.
SuspensionMatchesSurface ==
  (suspended.live /\ ~run.live) =>
     /\ suspended.built = artifact
     /\ Undo(suspended.heap, suspended.journal) = heap
     /\ suspended.entryStack = stack

\* settle (session.rs): output is kept whatever the outcome and counted once
\* over suspension and resumption.
OutputOnce == emitted = outTotal + (IF run.live THEN run.out ELSE 0)

\* heap.rs, comment of reclaim: reversal of the journal has already dropped
\* every live range of the span that is given back.
TailUnreachable == \A h \in Heaps : TailUnreachableIn(h)

\* session.rs, module comment: a faulting phrase leaves the session's heap as
\* it was before the phrase was submitted.
FaultLeavesNoTrace ==
  [][ (run.live /\ ~run'.live /\ status' \in Rolled /\ SlotsSufficed(heap'))
        => heap' = run.before ]_vars

\* session.rs, comment of E9157: a submission is refused at the definition
\* that would exceed the word cap.
WordCapRefusal == status = "E9157" => WordsBuilt(sub) > WordCap

\* session.rs, comment of last_trace: there is no trace when the last
\* submission had no phrase.
TraceOfLastSubmission == (lastTrace /\ ~run.live) => sub.phrase
=============================================================================
