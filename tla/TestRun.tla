------------------------------ MODULE TestRun ------------------------------
(***************************************************************************)
(* `tyu test --all-platforms`: one child process per platform pack, which  *)
(* runs its fixtures one after the other (crates/tyu/src/test_cmd.rs), the *)
(* guest under a timeout with pipe readers (runner.rs), the judgement of   *)
(* its framed output (harness-core), and, for a guest that hung or did not *)
(* complete, a second QEMU that is asked for its registers over the GDB    *)
(* remote protocol (debug_escalate.rs, rsp-client).                        *)
(*                                                                         *)
(* The guest, QEMU's stub and the clock are the environment: the guest     *)
(* writes any records and stops at any point or never, an answer may be    *)
(* later than any timeout, and a child may be killed.                      *)
(***************************************************************************)
EXTENDS Naturals, SequencesExt

CONSTANTS Platforms,  \* sequence of packs: [qemu, tools, fixtures]
          Expects,    \* assertions every fixture declares
          High,       \* declared bound of the data stack, in slots
          MaxKills,   \* bound on the children killed by the system
          None

\* A fixture is "none" or the poison class it declares; a pack without an
\* eligible fixture does not reach the loop over them.
FixtureKinds == {"none", "fail", "nocomp", "trap"}

ASSUME TestAssumption ==
    /\ Platforms \in Seq([qemu : BOOLEAN, tools : BOOLEAN, fixtures : Seq(FixtureKinds)])
    /\ \A i \in DOMAIN Platforms : Platforms[i].fixtures # <<>>
    /\ Expects \in Nat \ {0} /\ High \in Nat \ {0} /\ MaxKills \in Nat
    /\ None \notin {"ok", "err", "loc", "generic", "overflow", "hang", "escalate"}

VARIABLES opts,      \* [ci, qualify]: environment and flag
          plat,      \* the pack the parent's loop has reached
          pc, fix,   \* where its child is, and the fixture it runs
          guest,     \* the process under test: [state, code, out]
          buf,       \* what the reader threads have collected
          timedOut,  \* RunOutcome.timed_out
          debug,     \* the debugging QEMU and the connection to it
          failed, skipped,        \* any_failure of the child, pack skipped
          status, report,         \* the child's exit status and report file
          aggregate,              \* any_failure of the parent
          kills, passed, genuine  \* history: see PassIsGenuine

child == <<fix, guest, buf, timedOut, debug, failed, skipped, passed, genuine>>
parent == <<opts, plat, status, report, aggregate, kills>>
vars == <<pc, child, parent>>

Pack == Platforms[plat]
Fixture == Pack.fixtures[fix]

(* What the framed output amounts to (OutputSummary). *)
Silent == [failures |-> FALSE, completed |-> FALSE, diags |-> FALSE, asserts |-> 0, high |-> 0]
NoGuest == [state |-> "none", code |-> None, out |-> Silent]
NoDebug == [state |-> "none", mode |-> None, phase |-> None, target |-> None, at |-> None,
            to |-> <<>>, from |-> <<>>, n |-> 0, got |-> {}, result |-> None]

Init ==
    /\ opts \in [ci : BOOLEAN, qualify : BOOLEAN]
    /\ plat = 1 /\ pc = "off" /\ fix = 1 /\ guest = NoGuest /\ buf = Silent
    /\ timedOut = FALSE /\ debug = NoDebug /\ failed = FALSE /\ skipped = FALSE
    /\ status = None /\ report = None /\ aggregate = FALSE
    /\ kills = 0 /\ passed = {} /\ genuine = {}
----------------------------------------------------------------------------
(* The guest: F, S, D, P and H records, then it exits, or hangs. *)
Records(out) ==
    {[out EXCEPT !.failures = TRUE], [out EXCEPT !.completed = TRUE],
     [out EXCEPT !.diags = TRUE]}
    \cup {[out EXCEPT !.asserts = n] : n \in out.asserts .. Expects}
    \cup {[out EXCEPT !.high = h] : h \in (IF out.high = 0 THEN 1 .. High + 1 ELSE {})}
GuestEmit ==
    /\ guest.state = "running"
    /\ \E o \in Records(guest.out) \ {guest.out} : guest' = [guest EXCEPT !.out = o]
    /\ UNCHANGED <<pc, fix, buf, timedOut, debug, failed, skipped, passed, genuine, parent>>
GuestExit ==
    /\ guest.state = "running"
    /\ \E c \in {"pass", "trap", "other"} :
          guest' = [guest EXCEPT !.state = "exited", !.code = c]
    /\ UNCHANGED <<pc, fix, buf, timedOut, debug, failed, skipped, passed, genuine, parent>>

(* A reader thread empties its pipe. *)
ReadPipe ==
    /\ buf # guest.out
    /\ buf' = guest.out
    /\ UNCHANGED <<pc, fix, guest, timedOut, debug, failed, skipped, passed, genuine, parent>>
----------------------------------------------------------------------------
(* spawn_and_wait: poll, kill at the deadline, then join both readers,     *)
(* which ends when the pipes are closed and read.  A guest that exits      *)
(* between the last poll and the deadline counts as timed out.             *)
Spawn ==
    /\ pc = "spawn"
    /\ guest' = [NoGuest EXCEPT !.state = "running"] /\ buf' = Silent /\ timedOut' = FALSE
    /\ pc' = "poll"
    /\ UNCHANGED <<fix, debug, failed, skipped, passed, genuine, parent>>

PollExit ==
    /\ pc = "poll" /\ guest.state = "exited"
    /\ guest' = [guest EXCEPT !.state = "reaped"] /\ pc' = "join"
    /\ UNCHANGED <<fix, buf, timedOut, debug, failed, skipped, passed, genuine, parent>>

PollTimeoutNoKill ==
    /\ pc = "poll" /\ timedOut' = TRUE /\ pc' = "join"
    /\ UNCHANGED <<fix, guest, buf, debug, failed, skipped, passed, genuine, parent>>

PollTimeout ==
    /\ pc = "poll" /\ timedOut' = TRUE /\ pc' = "join"
    /\ guest' = [guest EXCEPT !.state = "reaped", !.code = None]
    /\ UNCHANGED <<fix, buf, debug, failed, skipped, passed, genuine, parent>>

PipeAny == guest.state # "running"
PipeRead == guest.state # "running" /\ buf = guest.out
JoinReaders ==
    /\ pc = "join" /\ PipeRead
    /\ pc' = "judge"
    /\ UNCHANGED <<child, parent>>
----------------------------------------------------------------------------
(* run_single_suite after the run.  "ask" stands for an outcome that       *)
(* consults the debugger first: every hang, and on QEMU an incomplete run  *)
(* without a D record.                                                     *)
Outcome ==
    CASE timedOut -> "HANG"
      [] ~buf.completed -> "NO_COMPLETION"
      [] buf.failures -> "FAIL_MARKER"
      [] guest.code # "pass" -> "EXIT_MISMATCH"
      [] buf.asserts < Expects -> "UNDERRAN"
      [] buf.high = 0 /\ ~buf.diags -> "NO_STACK_WITNESS"
      [] buf.high > High -> "UNSOUND_BOUND"
      [] OTHER -> "ok"

AsksDebugger ==
    \/ Outcome = "HANG" /\ Pack.qemu
    \/ Outcome = "NO_COMPLETION" /\ Pack.qemu /\ ~buf.diags

(* poison_verdict. A failed escalation replaces the message the poison     *)
(* classes are looked for in; the declared trap code shows in the exit     *)
(* code, a D record or what the escalation read at __lang_trap_loc.        *)
Verdict ==
    LET o == IF Outcome = "NO_COMPLETION" /\ debug.result = "err" THEN "ESCALATION" ELSE Outcome IN
    CASE Fixture = "none" -> o = "ok"
      [] Fixture = "fail" -> o = "FAIL_MARKER"
      [] Fixture = "nocomp" -> o \in {"NO_COMPLETION", "HANG"}
      [] Fixture = "trap" -> /\ o = "NO_COMPLETION"
                             /\ \/ guest.code = "trap" \/ buf.diags
                                \/ debug.result = "ok" /\ debug.at = "loc"

(* History: what the guest really did, against what the fixture declares. *)
DidWhatItDeclares ==
    CASE Fixture = "none" -> /\ guest.code = "pass" /\ guest.out.completed /\ ~guest.out.failures
                             /\ guest.out.asserts >= Expects /\ guest.out.high <= High
      [] Fixture = "fail" -> guest.out.failures
      [] Fixture = "nocomp" -> ~guest.out.completed \/ guest.code = None
      [] Fixture = "trap" -> /\ ~guest.out.completed
                             /\ guest.code = "trap" \/ guest.out.diags \/ debug.at = "loc"

Judge ==
    /\ pc = "judge"
    /\ pc' = IF AsksDebugger THEN "debug" ELSE "verdict"
    /\ UNCHANGED <<child, parent>>

(* The fixture loop of run: the next fixture, or the report. *)
NextFixture ==
    /\ pc = "verdict"
    /\ failed' = (failed \/ ~Verdict)
    /\ passed' = IF Verdict THEN passed \cup {<<plat, fix>>} ELSE passed
    /\ genuine' = IF DidWhatItDeclares THEN genuine \cup {<<plat, fix>>} ELSE genuine
    /\ IF fix < Len(Pack.fixtures) THEN pc' = "spawn" /\ fix' = fix + 1
       ELSE pc' = "report" /\ UNCHANGED fix
    /\ debug' = [NoDebug EXCEPT !.state = debug.state]
    /\ guest' = [NoGuest EXCEPT !.state = guest.state]
    /\ buf' = Silent /\ timedOut' = FALSE
    /\ UNCHANGED <<skipped, parent>>
----------------------------------------------------------------------------
(* escalate starts QEMU frozen, classify_hang running; without the trap    *)
(* symbols, or when QEMU does not start, both end at once.                 *)
SpawnDebug ==
    /\ pc = "debug"
    /\ LET mode == IF timedOut THEN "hang" ELSE "escalate" IN
       \/ /\ debug' = [NoDebug EXCEPT !.state = "live", !.mode = mode, !.phase = "connect",
                          !.target = IF mode = "hang" THEN "running" ELSE "stopped"]
          /\ pc' = "rsp"
       \/ debug' = [NoDebug EXCEPT !.mode = mode, !.result = "err"] /\ pc' = "verdict"
    /\ UNCHANGED <<fix, guest, buf, timedOut, failed, skipped, passed, genuine, parent>>

Ask(d, phase, cmd) == debug' = [d EXCEPT !.phase = phase, !.to = Append(@, cmd)]
AskReg(d, phase) ==
    Ask([d EXCEPT !.n = @ + 1], phase, <<"p", d.n + 1>>)

(* connect_rsp_client, and the first request of either mode (one request   *)
(* stands for the breakpoints at the two or three trap entries).           *)
Connect ==
    /\ pc = "rsp" /\ debug.phase = "connect" /\ debug.state = "live"
    /\ IF debug.mode = "escalate" THEN Ask(debug, "break", <<"Z", 0>>) ELSE AskReg(debug, "sample")
    /\ UNCHANGED <<pc, fix, guest, buf, timedOut, failed, skipped, passed, genuine, parent>>

(* read_registers by name: pc and ds pointer, then by trap entry. *)
RegsRead(at) == CASE at = "loc" -> 6 [] at = "overflow" -> 2 [] OTHER -> 3

End(d, result) == debug' = [d EXCEPT !.result = result] /\ pc' = "cleanup"

(* recv_packet, and what the pending call does with the packet. *)
OnPacket(d, pkt) ==
    \/ /\ d.phase = "break" /\ pkt[1] = "OK" /\ Ask(d, "continue", <<"c", 0>>) /\ UNCHANGED pc
    \/ /\ d.phase = "continue" /\ AskReg(d, "regs") /\ UNCHANGED pc
    \/ /\ d.phase = "regs" /\ pkt[1] = "v"
       /\ LET e == [d EXCEPT !.got = @ \cup {<<d.n, pkt[2]>>}] IN
          IF d.n < RegsRead(d.at) THEN AskReg(e, "regs") /\ UNCHANGED pc ELSE End(e, "ok")
    \/ /\ d.phase \in {"sample", "resample"} /\ pkt[1] = "v"
       /\ End([d EXCEPT !.got = @ \cup {<<d.n, pkt[2]>>}], "ok")
    \/ /\ d.phase = "sample" /\ pkt[1] # "v" /\ Ask(d, "interrupt", <<"int", 0>>) /\ UNCHANGED pc
    \/ /\ d.phase = "interrupt" /\ pkt[1] = "T" /\ AskReg(d, "resample") /\ UNCHANGED pc
    \/ /\ d.phase = "interrupt" /\ pkt[1] \notin {"T", "W"} /\ debug' = d /\ UNCHANGED pc
    \/ /\ \/ d.phase = "break" /\ pkt[1] # "OK"
          \/ d.phase \in {"regs", "resample"} /\ pkt[1] # "v"
          \/ d.phase = "interrupt" /\ pkt[1] = "W"
       /\ End(d, "err")

Receive ==
    /\ pc = "rsp" /\ debug.from # <<>>
    /\ OnPacket([debug EXCEPT !.from = Tail(@)], Head(debug.from))
    /\ UNCHANGED <<fix, guest, buf, timedOut, failed, skipped, passed, genuine, parent>>

(* The read timeout, a closed connection, or the connect deadline: only    *)
(* the first sample of a hang has a second chance.                         *)
GiveUpLeaky(d) ==
    IF d.phase = "sample" THEN Ask(d, "interrupt", <<"int", 0>>) /\ UNCHANGED pc
    ELSE debug' = [d EXCEPT !.result = "err"] /\ pc' = "verdict"

GiveUpNextReg(d) ==
    IF d.phase = "sample" THEN Ask(d, "interrupt", <<"int", 0>>) /\ UNCHANGED pc
    ELSE IF d.phase = "regs" /\ d.n < RegsRead(d.at) THEN AskReg(d, "regs") /\ UNCHANGED pc
    ELSE End(d, "err")

GiveUp(d) ==
    IF d.phase = "sample" THEN Ask(d, "interrupt", <<"int", 0>>) /\ UNCHANGED pc
    ELSE End(d, "err")

RspTimeout ==
    /\ pc = "rsp" /\ debug.from = <<>>
    /\ GiveUp(debug)
    /\ UNCHANGED <<fix, guest, buf, timedOut, failed, skipped, passed, genuine, parent>>

(* kill and wait, on every path. *)
Cleanup ==
    /\ pc = "cleanup"
    /\ debug' = [debug EXCEPT !.state = "none", !.to = <<>>, !.from = <<>>]
    /\ pc' = "verdict"
    /\ UNCHANGED <<fix, guest, buf, timedOut, failed, skipped, passed, genuine, parent>>
----------------------------------------------------------------------------
(* QEMU's stub answers requests in order, when it likes.  A register read  *)
(* that meets a running target is answered, or stops it.                   *)
Replies(d, cmd) ==
    CASE cmd[1] = "Z" -> {[d EXCEPT !.from = Append(@, <<r, 0>>)] : r \in {"OK", "E01"}}
      [] cmd[1] = "c" -> {[d EXCEPT !.target = "running"]}
      [] cmd[1] = "p" ->
           {[d EXCEPT !.from = Append(@, cmd2)] : cmd2 \in {<<"v", cmd[2]>>, <<"E01", 0>>}}
           \cup (IF d.target = "running"
                 THEN {[d EXCEPT !.target = "stopped", !.from = Append(@, <<"T", 0>>)]} ELSE {})
      [] cmd[1] = "int" ->
           {[d EXCEPT !.target = "stopped", !.from = Append(@, <<"T", 0>>)]}
           \cup (IF d.target = "stopped" THEN {d} ELSE {})

StubAnswers ==
    /\ pc = "rsp" /\ debug.state = "live" /\ debug.target # "gone" /\ debug.to # <<>>
    /\ debug' \in Replies([debug EXCEPT !.to = Tail(@)], Head(debug.to))
    /\ UNCHANGED <<pc, fix, guest, buf, timedOut, failed, skipped, passed, genuine, parent>>

(* A running target meets a breakpoint, or ends and QEMU with it. *)
TargetStops ==
    /\ pc = "rsp" /\ debug.state = "live" /\ debug.target = "running"
    /\ \/ /\ debug.mode = "escalate"
          /\ \E a \in {"loc", "generic", "overflow"} :
                debug' = [debug EXCEPT !.target = "stopped", !.at = a,
                             !.from = Append(@, <<"T", 0>>)]
       \/ debug' = [debug EXCEPT !.target = "gone", !.state = "exited",
                       !.from = IF debug.phase = "connect" THEN @ ELSE Append(@, <<"W", 0>>)]
    /\ UNCHANGED <<pc, fix, guest, buf, timedOut, failed, skipped, passed, genuine, parent>>
----------------------------------------------------------------------------
(* The child's frame around its fixtures: tool check, report, exit. *)
CheckTools ==
    /\ pc = "tools"
    /\ IF Pack.tools THEN pc' = "spawn" /\ UNCHANGED <<skipped, status>>
       ELSE IF opts.ci THEN pc' = "exit" /\ status' = "error" /\ UNCHANGED skipped
       ELSE pc' = "report" /\ skipped' = TRUE /\ UNCHANGED status
    /\ UNCHANGED <<fix, guest, buf, timedOut, debug, failed, passed, genuine,
                   opts, plat, report, aggregate, kills>>

(* SelectionAccumulator::finish: a skipped pack covers none of its axes. *)
Finished == IF failed \/ skipped THEN "fail" ELSE "pass"

WriteReport ==
    /\ pc = "report"
    /\ report' = Finished
    /\ status' = IF failed \/ (opts.qualify /\ Finished = "fail") THEN "error" ELSE "ok"
    /\ pc' = "exit"
    /\ UNCHANGED <<child, opts, plat, aggregate, kills>>

(* The system kills the child; a report it was writing is torn.  A QEMU    *)
(* of the killed child is not followed any further.                        *)
Killed ==
    /\ pc \notin {"off", "exit", "done"} /\ kills < MaxKills
    /\ kills' = kills + 1 /\ status' = "killed" /\ pc' = "exit"
    /\ report' \in {report} \cup (IF pc = "report" THEN {"torn"} ELSE {})
    /\ guest' = NoGuest /\ buf' = Silent /\ debug' = NoDebug /\ timedOut' = FALSE
    /\ UNCHANGED <<fix, failed, skipped, passed, genuine, opts, plat, aggregate>>
----------------------------------------------------------------------------
(* run_all_platforms_isolated. *)
StartChild ==
    /\ pc = "off" /\ plat <= Len(Platforms)
    /\ pc' = "tools" /\ fix' = 1 /\ failed' = FALSE /\ skipped' = FALSE
    /\ status' = None /\ report' = None
    /\ UNCHANGED <<guest, buf, timedOut, debug, passed, genuine, opts, plat, aggregate, kills>>

ChildFailedByReport == report \notin {"pass", "fail"} \/ (opts.qualify /\ report = "fail")
ChildFailed == \/ status # "ok"
               \/ report \notin {"pass", "fail"}  \* read_child_report
               \/ opts.qualify /\ report = "fail"

ReadChild ==
    /\ pc = "exit"
    /\ aggregate' = (aggregate \/ ChildFailed)
    /\ plat' = plat + 1 /\ report' = None /\ pc' = "off"
    /\ UNCHANGED <<child, opts, status, kills>>

ParentEnds ==
    /\ pc = "off" /\ plat > Len(Platforms)
    /\ pc' = "done"
    /\ UNCHANGED <<child, parent>>

Done == pc = "done" /\ UNCHANGED vars

Tool == \/ StartChild \/ CheckTools \/ Spawn \/ PollExit \/ PollTimeout \/ JoinReaders \/ Judge
        \/ SpawnDebug \/ Connect \/ Receive \/ RspTimeout \/ Cleanup \/ NextFixture
        \/ WriteReport \/ ReadChild \/ ParentEnds
Environment == GuestEmit \/ GuestExit \/ StubAnswers \/ TargetStops \/ Killed
Next == Tool \/ ReadPipe \/ Environment \/ Done

(* The tool's own threads are scheduled and its clocks run; nothing is     *)
(* asked of guest, stub or system.                                         *)
Spec == Init /\ [][Next]_vars /\ WF_vars(Tool) /\ WF_vars(ReadPipe)
----------------------------------------------------------------------------
(* A fixture counts as passed only if its guest really did what the        *)
(* fixture declares, whatever the order of output, exit, deadline and      *)
(* pipe readers (spawn_and_wait, run_single_suite, poison_verdict).        *)
PassIsGenuine == passed \subseteq genuine

(* A diagnosis is made of registers that answer their own reads, taken     *)
(* from a target halted at a trap: no late answer of an earlier request    *)
(* is taken for a later one (escalate, sample_running_pc, rsp-client).     *)
RegistersMatch == debug.result = "ok" =>
    /\ \A g \in debug.got : g[1] = g[2]
    /\ debug.mode = "escalate" => debug.at # None

(* Between fixtures and at the end no guest and no debugging QEMU is       *)
(* left, running or unreaped, whichever step failed (escalate,             *)
(* classify_hang_on_port, spawn_and_wait), those of a killed child apart.  *)
NoOrphan == pc \in {"off", "tools", "spawn", "report", "done"} =>
    guest.state \in {"none", "reaped"} /\ debug.state = "none"

(* --all-platforms succeeds only if every fixture of every pack did what   *)
(* it declares; without --qualify a pack whose tools are missing may have  *)
(* been skipped (run_all_platforms_isolated: fail closed).                 *)
AggregateSound == pc = "done" /\ ~aggregate =>
    \A p \in DOMAIN Platforms :
        \/ \A f \in DOMAIN Platforms[p].fixtures : <<p, f>> \in genuine
        \/ ~Platforms[p].tools /\ ~opts.qualify

(* Whatever the guests do, and with a stub that never answers, the run     *)
(* ends.                                                                   *)
RunEnds == <>(pc = "done")
=============================================================================
