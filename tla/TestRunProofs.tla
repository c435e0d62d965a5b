--------------------------- MODULE TestRunProofs ---------------------------
(***************************************************************************)
(* Soundness of `tyu test --all-platforms` for every set of packs and      *)
(* fixtures, every behaviour of guests and stub, and children killed at    *)
(* any point.                                                              *)
(***************************************************************************)
EXTENDS TestRun, SequenceTheorems, TLAPS

Cmds == {"Z", "c", "p", "int"} \X Nat
Answers == {"OK", "E01", "v", "T", "W"} \X Nat
Outs == [failures : BOOLEAN, completed : BOOLEAN, diags : BOOLEAN, asserts : Nat, high : Nat]
Guests == [state : {"none", "running", "exited", "reaped"},
           code : {None, "pass", "trap", "other"}, out : Outs]
Phases == {"connect", "break", "continue", "regs", "sample", "interrupt", "resample"}
Debugs == [state : {"none", "live", "exited"}, mode : {None, "hang", "escalate"},
           phase : Phases \cup {None}, target : {None, "running", "stopped", "gone"},
           at : {None, "loc", "generic", "overflow"}, to : Seq(Cmds), from : Seq(Answers),
           n : Nat, got : SUBSET (Nat \X Nat), result : {None, "ok", "err"}]

\* The types of the variables.
TestTypes ==
  /\ opts \in [ci : BOOLEAN, qualify : BOOLEAN] /\ plat \in Nat \ {0} /\ fix \in Nat \ {0}
  /\ guest \in Guests /\ buf \in Outs /\ timedOut \in BOOLEAN /\ debug \in Debugs
  /\ failed \in BOOLEAN /\ skipped \in BOOLEAN /\ aggregate \in BOOLEAN

\* Values the actions build have their types.
LEMMA ValueTypes == Silent \in Outs /\ NoGuest \in Guests /\ NoDebug \in Debugs
<1>1. Silent \in Outs
  BY DEF Silent, Outs
<1>2. NoGuest \in Guests
  BY <1>1 DEF NoGuest, Guests
<1>3. NoDebug \in Debugs
  <2>1. <<>> \in Seq(Cmds) /\ <<>> \in Seq(Answers)
    OBVIOUS
  <2> QED BY <2>1 DEF NoDebug, Debugs
<1> QED BY <1>1, <1>2, <1>3

\* The packets that are sent and received.
LEMMA PktTypes ==
  ASSUME NEW n \in Nat
  PROVE  /\ \A t \in {"Z", "c", "p", "int"} : <<t, n>> \in Cmds
         /\ \A t \in {"OK", "E01", "v", "T", "W"} : <<t, n>> \in Answers
BY DEF Cmds, Answers

\* A request is appended to the outgoing ones.
LEMMA AskType ==
  ASSUME NEW d \in Debugs, NEW phase \in Phases, NEW cmd \in Cmds
  PROVE  [d EXCEPT !.phase = phase, !.to = Append(@, cmd)] \in Debugs
<1>1. Append(d.to, cmd) \in Seq(Cmds)
  BY DEF Debugs
<1> QED BY <1>1 DEF Debugs

\* A register is asked for.
LEMMA AskRegType ==
  ASSUME NEW d \in Debugs, NEW phase \in Phases, AskReg(d, phase)
  PROVE  debug' \in Debugs
<1> DEFINE e == [d EXCEPT !.n = @ + 1]
<1>1. e \in Debugs /\ d.n + 1 \in Nat
  BY DEF Debugs
<1>3. <<"p", d.n + 1>> \in Cmds
  BY <1>1, PktTypes
<1> HIDE DEF e
<1>2. debug' = [e EXCEPT !.phase = phase, !.to = Append(@, <<"p", d.n + 1>>)]
  BY DEF AskReg, Ask, e
<1> QED BY <1>1, <1>2, <1>3, AskType

\* What the tool does with a packet.
LEMMA PacketType ==
  ASSUME NEW d \in Debugs, NEW pkt \in Answers, OnPacket(d, pkt)
  PROVE  debug' \in Debugs
<1>2. ASSUME NEW phase \in Phases, NEW c \in {"Z", "c", "int"}, Ask(d, phase, <<c, 0>>)
      PROVE  debug' \in Debugs
  <2>1. <<c, 0>> \in Cmds
    BY PktTypes
  <2> QED BY <1>2, <2>1, AskType DEF Ask
<1> DEFINE e == [d EXCEPT !.got = @ \cup {<<d.n, pkt[2]>>}]
<1>3. e \in Debugs
  <2>1. pkt[2] \in Nat /\ d.n \in Nat /\ d.got \in SUBSET (Nat \X Nat)
    BY DEF Answers, Debugs
  <2>2. d.got \cup {<<d.n, pkt[2]>>} \in SUBSET (Nat \X Nat)
    BY <2>1
  <2> QED BY <2>2 DEF Debugs
<1>4. ASSUME NEW x \in Debugs, NEW r \in {"ok", "err"}, End(x, r) PROVE debug' \in Debugs
  BY <1>4 DEF End, Debugs
<1> HIDE DEF e
<1>5. \/ \E phase \in Phases, c \in {"Z", "c", "int"} : Ask(d, phase, <<c, 0>>)
      \/ \E phase \in Phases : AskReg(d, phase) \/ AskReg(e, phase)
      \/ \E r \in {"ok", "err"} : End(d, r) \/ End(e, r)
      \/ debug' = d
  <2>1. "break" \in Phases /\ "continue" \in Phases /\ "regs" \in Phases
        /\ "interrupt" \in Phases /\ "resample" \in Phases
    BY DEF Phases
  <2> QED BY <2>1 DEF OnPacket, e
<1> QED BY <1>2, <1>3, <1>4, <1>5, AskRegType

\* What the stub answers.
LEMMA ReplyType ==
  ASSUME NEW d \in Debugs, NEW cmd \in Cmds, NEW e \in Replies(d, cmd)
  PROVE  e \in Debugs
<1>1. ASSUME NEW pkt \in Answers, NEW t \in {"running", "stopped"}
      PROVE  /\ [d EXCEPT !.from = Append(@, pkt)] \in Debugs
             /\ [d EXCEPT !.target = t, !.from = Append(@, pkt)] \in Debugs
             /\ [d EXCEPT !.target = t] \in Debugs
  <2>1. Append(d.from, pkt) \in Seq(Answers)
    BY DEF Debugs
  <2> QED BY <1>1, <2>1 DEF Debugs
<1>2. cmd[2] \in Nat /\ cmd[1] \in {"Z", "c", "p", "int"}
  BY DEF Cmds
<1>3. /\ <<"OK", 0>> \in Answers /\ <<"E01", 0>> \in Answers /\ <<"T", 0>> \in Answers
      /\ <<"v", cmd[2]>> \in Answers
  BY <1>2, PktTypes
<1>4. CASE cmd[1] = "Z"
  BY <1>1, <1>3, <1>4 DEF Replies
<1>5. CASE cmd[1] = "c"
  BY <1>1, <1>3, <1>5 DEF Replies
<1>6. CASE cmd[1] = "p"
  BY <1>1, <1>3, <1>6 DEF Replies
<1>7. CASE cmd[1] = "int"
  BY <1>1, <1>3, <1>7 DEF Replies
<1> QED BY <1>2, <1>4, <1>5, <1>6, <1>7

\* Types, step by step.
LEMMA TypesInit == Init => TestTypes
<1> SUFFICES ASSUME Init PROVE TestTypes
  OBVIOUS
<1>1. /\ opts \in [ci : BOOLEAN, qualify : BOOLEAN] /\ plat = 1 /\ fix = 1
      /\ guest = NoGuest /\ buf = Silent /\ debug = NoDebug /\ timedOut = FALSE
      /\ failed = FALSE /\ skipped = FALSE /\ aggregate = FALSE
  BY Zenon DEF Init
<1>2. guest \in Guests /\ buf \in Outs /\ debug \in Debugs
  BY <1>1, ValueTypes
<1>3. /\ timedOut \in BOOLEAN /\ failed \in BOOLEAN /\ skipped \in BOOLEAN
      /\ aggregate \in BOOLEAN
  BY <1>1, Zenon
<1>4. plat \in Nat \ {0} /\ fix \in Nat \ {0}
  BY <1>1
<1> QED BY <1>1, <1>2, <1>3, <1>4, Zenon DEF TestTypes

\* Output that grows by a record is output.
\* Output that grows by a record is output.
LEMMA RecordsType == ASSUME NEW o \in Outs, NEW x \in Records(o) PROVE x \in Outs
<1>1. o.asserts .. Expects \subseteq Nat /\ 1 .. High + 1 \subseteq Nat
  BY TestAssumption DEF Outs
<1> QED BY <1>1 DEF Records, Outs

\* Every step keeps the types.
\* Every step keeps the types.
LEMMA TypesStep == TestTypes /\ [Next]_vars => TestTypes'
<1> SUFFICES ASSUME TestTypes, [Next]_vars PROVE TestTypes'
  OBVIOUS
<1> USE ValueTypes
<1>1. CASE GuestEmit
  <2>1. PICK o \in Records(guest.out) : guest' = [guest EXCEPT !.out = o]
    BY <1>1 DEF GuestEmit
  <2>2. o \in Outs
    BY RecordsType DEF TestTypes, Guests
  <2>3. guest' \in Guests
    BY <2>1, <2>2 DEF TestTypes, Guests
  <2> QED BY <1>1, <2>3 DEF GuestEmit, TestTypes, parent
<1>2. CASE GuestExit
  <2>1. guest' \in Guests
    BY <1>2 DEF GuestExit, TestTypes, Guests
  <2> QED BY <1>2, <2>1 DEF GuestExit, TestTypes, parent
<1>3. CASE ReadPipe
  BY <1>3 DEF ReadPipe, TestTypes, parent, Guests
<1>4. CASE Spawn
  <2>1. guest' \in Guests
    BY <1>4 DEF Spawn, Guests
  <2> QED BY <1>4, <2>1 DEF Spawn, TestTypes, parent
<1>5. CASE PollExit
  <2>1. guest' \in Guests
    BY <1>5 DEF PollExit, TestTypes, Guests
  <2> QED BY <1>5, <2>1 DEF PollExit, TestTypes, parent
<1>6. CASE PollTimeout
  <2>1. guest' \in Guests
    BY <1>6 DEF PollTimeout, TestTypes, Guests
  <2> QED BY <1>6, <2>1 DEF PollTimeout, TestTypes, parent
<1>7. CASE JoinReaders \/ Judge
  BY <1>7 DEF JoinReaders, Judge, TestTypes, child, parent
<1>8. CASE NextFixture
  <2>1. guest' \in Guests
    BY <1>8 DEF NextFixture, TestTypes, Guests
  <2>2. debug' \in Debugs
    BY <1>8 DEF NextFixture, TestTypes, Debugs
  <2>3. failed' \in BOOLEAN
    BY <1>8, Zenon DEF NextFixture
  <2>4. fix' \in Nat \ {0}
    BY <1>8 DEF NextFixture, TestTypes
  <2> QED BY <1>8, <2>1, <2>2, <2>3, <2>4 DEF NextFixture, TestTypes, parent
<1>9. CASE SpawnDebug
  <2>1. debug' \in Debugs
    BY <1>9, ZenonT(40) DEF SpawnDebug, Debugs, Phases
  <2> QED BY <1>9, <2>1 DEF SpawnDebug, TestTypes, parent
<1>10. CASE Connect
  <2>1. "break" \in Phases /\ "sample" \in Phases /\ <<"Z", 0>> \in Cmds /\ debug \in Debugs
    BY PktTypes DEF Phases, TestTypes
  <2>2. debug' \in Debugs
    <3>1. CASE AskReg(debug, "sample")
      BY <2>1, <3>1, AskRegType
    <3>2. CASE Ask(debug, "break", <<"Z", 0>>)
      BY <2>1, <3>2, AskType DEF Ask
    <3> QED BY <1>10, <3>1, <3>2 DEF Connect
  <2> QED BY <1>10, <2>2 DEF Connect, TestTypes, parent
<1>11. CASE Receive
  <2>1. debug.from \in Seq(Answers) /\ debug.from # <<>>
    BY <1>11 DEF Receive, TestTypes, Debugs
  <2>2. Head(debug.from) \in Answers /\ Tail(debug.from) \in Seq(Answers)
    BY <2>1
  <2>3. [debug EXCEPT !.from = Tail(@)] \in Debugs
    BY <2>2 DEF TestTypes, Debugs
  <2>4. debug' \in Debugs
    BY <1>11, <2>2, <2>3, PacketType DEF Receive
  <2> QED BY <1>11, <2>4 DEF Receive, TestTypes, parent
<1>12. CASE RspTimeout
  <2>1. "interrupt" \in Phases /\ <<"int", 0>> \in Cmds /\ debug \in Debugs
    BY PktTypes DEF Phases, TestTypes
  <2>2. debug' \in Debugs
    <3>1. CASE Ask(debug, "interrupt", <<"int", 0>>)
      BY <2>1, <3>1, AskType DEF Ask
    <3>2. CASE End(debug, "err")
      BY <2>1, <3>2 DEF End, Debugs
    <3> QED BY <1>12, <3>1, <3>2 DEF RspTimeout, GiveUp
  <2> QED BY <1>12, <2>2 DEF RspTimeout, TestTypes, parent
<1>13. CASE Cleanup
  <2>1. debug' \in Debugs
    <3>1. <<>> \in Seq(Cmds) /\ <<>> \in Seq(Answers) /\ debug \in Debugs
      BY DEF TestTypes
    <3>2. debug' = [debug EXCEPT !.state = "none", !.to = <<>>, !.from = <<>>]
      BY <1>13 DEF Cleanup
    <3> QED BY <3>1, <3>2 DEF Debugs
  <2> QED BY <1>13, <2>1 DEF Cleanup, TestTypes, parent
<1>14. CASE StubAnswers
  <2>1. debug.to \in Seq(Cmds) /\ debug.to # <<>>
    BY <1>14 DEF StubAnswers, TestTypes, Debugs
  <2>2. Head(debug.to) \in Cmds /\ Tail(debug.to) \in Seq(Cmds)
    BY <2>1
  <2>3. [debug EXCEPT !.to = Tail(@)] \in Debugs
    BY <2>2 DEF TestTypes, Debugs
  <2>4. debug' \in Debugs
    BY <1>14, <2>2, <2>3, ReplyType DEF StubAnswers
  <2> QED BY <1>14, <2>4 DEF StubAnswers, TestTypes, parent
<1>15. CASE TargetStops
  <2>1. /\ debug.from \in Seq(Answers) /\ Append(debug.from, <<"T", 0>>) \in Seq(Answers)
        /\ Append(debug.from, <<"W", 0>>) \in Seq(Answers)
    <3>1. <<"T", 0>> \in Answers /\ <<"W", 0>> \in Answers /\ debug.from \in Seq(Answers)
      BY PktTypes DEF TestTypes, Debugs
    <3> QED BY <3>1, AppendProperties
  <2>2. debug' \in Debugs
    <3>1. ASSUME NEW a \in {"loc", "generic", "overflow"},
                 debug' = [debug EXCEPT !.target = "stopped", !.at = a,
                             !.from = Append(@, <<"T", 0>>)]
          PROVE  debug' \in Debugs
      BY <2>1, <3>1 DEF TestTypes, Debugs
    <3>2. ASSUME NEW f \in Seq(Answers),
                 debug' = [debug EXCEPT !.target = "gone", !.state = "exited", !.from = f]
          PROVE  debug' \in Debugs
      BY <3>2 DEF TestTypes, Debugs
    <3> QED BY <1>15, <2>1, <3>1, <3>2 DEF TargetStops
  <2> QED BY <1>15, <2>2 DEF TargetStops, TestTypes, parent
<1>16. CASE CheckTools
  BY <1>16 DEF CheckTools, TestTypes
<1>17. CASE WriteReport
  BY <1>17 DEF WriteReport, TestTypes, child
<1>18. CASE Killed
  BY <1>18 DEF Killed, TestTypes
<1>19. CASE StartChild
  <2>1. /\ fix' = 1 /\ failed' = FALSE /\ skipped' = FALSE
        /\ UNCHANGED <<opts, plat, guest, buf, timedOut, debug, aggregate>>
    BY <1>19, Zenon DEF StartChild
  <2>2. fix' \in Nat \ {0}
    BY <2>1
  <2>3. failed' \in BOOLEAN /\ skipped' \in BOOLEAN
    BY <2>1, Zenon
  <2> QED BY <2>1, <2>2, <2>3, Zenon DEF TestTypes
<1>20. CASE ReadChild
  <2>1. aggregate' \in BOOLEAN
    BY <1>20, Zenon DEF ReadChild
  <2> QED BY <1>20, <2>1 DEF ReadChild, TestTypes, child
<1>21. CASE ParentEnds \/ Done \/ UNCHANGED vars
  BY <1>21 DEF ParentEnds, Done, vars, child, parent, TestTypes
<1> QED
  BY <1>1, <1>2, <1>3, <1>4, <1>5, <1>6, <1>7, <1>8, <1>9, <1>10, <1>11, <1>12, <1>13, <1>14,
     <1>15, <1>16, <1>17, <1>18, <1>19, <1>20, <1>21
  DEF Next, Tool, Environment

\* Every variable has its type in every reachable state.
THEOREM TestTypesHold == Spec => []TestTypes
BY TypesInit, TypesStep, PTL DEF Spec
-----------------------------------------------------------------------------
\* A fixture is under way; its run has ended.
Loop == {"tools", "spawn", "poll", "join", "judge", "debug", "rsp", "cleanup", "verdict"}
After == {"judge", "debug", "rsp", "cleanup", "verdict"}

\* The loop over the packs and the loop over the fixtures of a pack.
PlaceInv ==
  /\ pc \in Loop \cup {"off", "report", "exit", "done"}
  /\ pc \in Loop => plat \in 1 .. Len(Platforms) /\ fix \in 1 .. Len(Pack.fixtures)
  /\ pc \in {"report", "exit"} => plat \in 1 .. Len(Platforms)
  /\ pc = "off" => plat \in 1 .. Len(Platforms) + 1
  /\ pc = "done" => plat = Len(Platforms) + 1

\* Only spawn_and_wait has a guest that runs or is not reaped, only the
\* escalation a debugging QEMU; after the join all output was read, and a
\* guest killed at the deadline has no exit code.
ProcessInv ==
  /\ pc # "poll" => guest.state \notin {"running", "exited"}
  /\ pc \notin {"rsp", "cleanup"} => debug.state = "none"
  /\ pc = "poll" => ~timedOut
  /\ pc \in After => buf = guest.out
  /\ pc \in After \cup {"join"} => (timedOut => guest.code = None)

\* The packs of the command line.
\* The packs of the command line.
LEMMA PlaceFacts ==
  ASSUME NEW p \in 1 .. Len(Platforms)
  PROVE  /\ Platforms[p].fixtures \in Seq(FixtureKinds) /\ Len(Platforms[p].fixtures) \in Nat \ {0}
         /\ Platforms[p].tools \in BOOLEAN
         /\ Len(Platforms) \in Nat /\ DOMAIN Platforms = 1 .. Len(Platforms)
<1> DEFINE T == [qemu : BOOLEAN, tools : BOOLEAN, fixtures : Seq(FixtureKinds)]
<1>1. Platforms \in Seq(T)
  BY TestAssumption
<1> HIDE DEF T
<1>2. Len(Platforms) \in Nat /\ DOMAIN Platforms = 1 .. Len(Platforms) /\ Platforms[p] \in T
  BY <1>1
<1>3. Platforms[p].fixtures \in Seq(FixtureKinds) /\ Platforms[p].tools \in BOOLEAN
  BY <1>2 DEF T
<1>4. Platforms[p].fixtures # <<>>
  BY <1>2, TestAssumption
<1> QED BY <1>2, <1>3, <1>4

\* The runner stays within the packs and fixtures.
\* The runner stays within the packs and fixtures.
LEMMA PlaceStep ==
  ASSUME TestTypes, PlaceInv, [Next]_vars
  PROVE  PlaceInv'
<1>0. Len(Platforms) \in Nat
  BY TestAssumption, LenProperties
<1> USE <1>0 DEF PlaceInv, Loop, Pack
<1>1. CASE pc' = pc /\ plat' = plat /\ fix' = fix
  BY <1>1
<1>2. CASE pc \in Loop /\ pc' \in Loop /\ plat' = plat /\ fix' = fix
  BY <1>2
<1>3. CASE pc \in Loop \cup {"report"} /\ pc' \in {"report", "exit"} /\ plat' = plat
  BY <1>3
<1>4. CASE StartChild
  <2>1. pc' = "tools" /\ plat' = plat /\ fix' = 1 /\ plat \in 1 .. Len(Platforms)
    BY <1>4 DEF StartChild
  <2> QED BY <2>1, PlaceFacts
<1>5. CASE ReadChild
  BY <1>5 DEF ReadChild, TestTypes
<1>6. CASE ParentEnds
  BY <1>6 DEF ParentEnds, TestTypes, child, parent
<1>7. CASE NextFixture
  <2>1. pc = "verdict" /\ plat' = plat
    BY <1>7 DEF NextFixture, parent
  <2>2. \/ pc' = "spawn" /\ fix' = fix + 1 /\ fix < Len(Pack.fixtures)
        \/ pc' = "report"
    BY <1>7 DEF NextFixture
  <2> QED BY <2>1, <2>2, PlaceFacts
<1>8. CASE GuestEmit \/ GuestExit \/ ReadPipe \/ StubAnswers \/ TargetStops \/ Connect \/ Done
          \/ UNCHANGED vars
  <2>1. pc' = pc /\ plat' = plat /\ fix' = fix
    BY <1>8
    DEF GuestEmit, GuestExit, ReadPipe, StubAnswers, TargetStops, Connect, Done, vars, child, parent
  <2> QED BY <1>1, <2>1
<1>9. CASE Spawn \/ PollExit \/ PollTimeout \/ JoinReaders \/ Judge \/ SpawnDebug \/ Cleanup
  <2>1. pc \in Loop /\ pc' \in Loop /\ plat' = plat /\ fix' = fix
    BY <1>9
    DEF Spawn, PollExit, PollTimeout, JoinReaders, Judge, SpawnDebug, Cleanup, child, parent
  <2> QED BY <1>2, <2>1
<1>10. CASE Receive \/ RspTimeout
  <2>1. pc \in Loop /\ pc' \in Loop /\ plat' = plat /\ fix' = fix
    BY <1>10 DEF Receive, OnPacket, RspTimeout, GiveUp, End, parent
  <2> QED BY <1>2, <2>1
<1>11. CASE CheckTools
  <2>1. pc = "tools" /\ pc' \in {"spawn", "report", "exit"} /\ plat' = plat /\ fix' = fix
    BY <1>11 DEF CheckTools
  <2> QED BY <1>2, <1>3, <2>1
<1>12. CASE WriteReport
  <2>1. pc = "report" /\ pc' = "exit" /\ plat' = plat
    BY <1>12 DEF WriteReport
  <2> QED BY <1>3, <2>1
<1>13. CASE Killed
  <2>1. pc \notin {"off", "done"} /\ pc' = "exit" /\ plat' = plat
    BY <1>13 DEF Killed
  <2> QED BY <2>1
<1> QED
  BY <1>4, <1>5, <1>6, <1>7, <1>8, <1>9, <1>10, <1>11, <1>12, <1>13 DEF Next, Tool, Environment

\* Child, guest and debugger are only there while the runner waits for them.
\* Child, guest and debugger are only there while the runner waits for them.
LEMMA ProcessStep ==
  ASSUME TestTypes, ProcessInv, [Next]_vars
  PROVE  ProcessInv'
<1> USE DEF ProcessInv, After
<1>1. CASE GuestEmit \/ GuestExit
  <2>1. guest.state = "running" /\ UNCHANGED <<pc, debug, timedOut>> /\ pc = "poll"
    BY <1>1 DEF GuestEmit, GuestExit
  <2> QED BY <2>1
<1>2. CASE ReadPipe
  BY <1>2 DEF ReadPipe
<1>3. CASE Spawn
  BY <1>3 DEF Spawn
<1>4. CASE PollExit
  <2>1. /\ pc = "poll" /\ pc' = "join" /\ UNCHANGED <<debug, timedOut>>
        /\ guest' = [guest EXCEPT !.state = "reaped"]
    BY <1>4 DEF PollExit
  <2>2. guest'.state = "reaped"
    BY <2>1 DEF TestTypes, Guests
  <2> QED BY <2>1, <2>2
<1>5. CASE PollTimeout
  <2>1. /\ pc = "poll" /\ pc' = "join" /\ UNCHANGED debug
        /\ guest' = [guest EXCEPT !.state = "reaped", !.code = None]
    BY <1>5 DEF PollTimeout
  <2>2. guest'.state = "reaped" /\ guest'.code = None
    BY <2>1 DEF TestTypes, Guests
  <2> QED BY <2>1, <2>2
<1>6. CASE JoinReaders \/ Judge
  BY <1>6 DEF JoinReaders, Judge, PipeRead, child
<1>7. CASE NextFixture
  <2>1. /\ pc = "verdict" /\ pc' \in {"spawn", "report"}
        /\ debug' = [NoDebug EXCEPT !.state = debug.state]
        /\ guest' = [NoGuest EXCEPT !.state = guest.state]
    BY <1>7 DEF NextFixture
  <2>2. debug'.state = debug.state /\ guest'.state = guest.state
    BY <2>1 DEF NoDebug, NoGuest
  <2> QED BY <2>1, <2>2
<1>8. CASE SpawnDebug
  <2>1. pc = "debug" /\ UNCHANGED <<guest, buf, timedOut>>
    BY <1>8 DEF SpawnDebug
  <2>2. pc' = "rsp" \/ (pc' = "verdict" /\ debug'.state = "none")
    <3> DEFINE m == IF timedOut THEN "hang" ELSE "escalate"
    <3>1. \/ pc' = "rsp"
          \/ pc' = "verdict" /\ debug' = [NoDebug EXCEPT !.mode = m, !.result = "err"]
      BY <1>8, Zenon DEF SpawnDebug
    <3> HIDE DEF m
    <3>2. [NoDebug EXCEPT !.mode = m, !.result = "err"].state = NoDebug.state
      BY ValueTypes DEF Debugs
    <3>3. NoDebug.state = "none"
      BY DEF NoDebug
    <3>4. ASSUME debug' = [NoDebug EXCEPT !.mode = m, !.result = "err"]
          PROVE  debug'.state = "none"
      BY <3>2, <3>3, <3>4, Zenon
    <3> QED BY <3>1, <3>4
  <2> QED BY <2>1, <2>2
<1>9. CASE Connect \/ StubAnswers \/ TargetStops
  <2>1. pc = "rsp" /\ pc' = pc /\ UNCHANGED <<guest, buf, timedOut>>
    BY <1>9 DEF Connect, StubAnswers, TargetStops
  <2> QED BY <2>1
<1>10. CASE Receive \/ RspTimeout
  <2>1. pc = "rsp" /\ pc' \in {"rsp", "cleanup"} /\ UNCHANGED <<guest, buf, timedOut>>
    BY <1>10 DEF Receive, OnPacket, RspTimeout, GiveUp, End
  <2> QED BY <2>1
<1>11. CASE Cleanup
  <2>1. /\ pc = "cleanup" /\ pc' = "verdict" /\ UNCHANGED <<guest, buf, timedOut>>
        /\ debug' = [debug EXCEPT !.state = "none", !.to = <<>>, !.from = <<>>]
    BY <1>11 DEF Cleanup
  <2>2. debug'.state = "none"
    BY <2>1 DEF TestTypes, Debugs
  <2> QED BY <2>1, <2>2
<1>12. CASE CheckTools
  BY <1>12 DEF CheckTools
<1>13. CASE WriteReport \/ ReadChild \/ ParentEnds \/ StartChild
  BY <1>13 DEF WriteReport, ReadChild, ParentEnds, StartChild, child
<1>14. CASE Killed
  BY <1>14 DEF Killed, NoGuest, NoDebug
<1>15. CASE Done \/ UNCHANGED vars
  BY <1>15 DEF Done, vars, child
<1> QED
  BY <1>1, <1>2, <1>3, <1>4, <1>5, <1>6, <1>7, <1>8, <1>9, <1>10, <1>11, <1>12, <1>13, <1>14,
     <1>15
  DEF Next, Tool, Environment

\* Nothing has been started.
\* Nothing has been started.
LEMMA PlaceInit == Init => PlaceInv /\ ProcessInv
<1> SUFFICES ASSUME Init PROVE PlaceInv /\ ProcessInv
  OBVIOUS
<1>1. pc = "off" /\ plat = 1 /\ guest = NoGuest /\ debug = NoDebug
  BY DEF Init
<1>2. Len(Platforms) \in Nat
  BY TestAssumption, LenProperties
<1> QED BY <1>1, <1>2 DEF PlaceInv, ProcessInv, Loop, After, NoGuest, NoDebug

\* Where the loops are and which processes exist.
RunInv == TestTypes /\ PlaceInv /\ ProcessInv

\* The processes are where the runner believes them to be.
\* The processes are where the runner believes them to be.
THEOREM RunInvariant == Spec => []RunInv
<1>1. Init => RunInv
  BY TypesInit, PlaceInit DEF RunInv
<1>2. RunInv /\ [Next]_vars => RunInv'
  BY TypesStep, PlaceStep, ProcessStep DEF RunInv
<1> QED BY <1>1, <1>2, PTL DEF Spec

\* Between fixtures and at the end no guest and no debugging QEMU is left,
\* whichever step failed or timed out.
THEOREM NothingIsOrphaned == Spec => []NoOrphan
<1>1. RunInv => NoOrphan
  <2> SUFFICES ASSUME RunInv, pc \in {"off", "tools", "spawn", "report", "done"}
               PROVE  guest.state \in {"none", "reaped"} /\ debug.state = "none"
    BY DEF NoOrphan
  <2> QED BY DEF RunInv, ProcessInv, TestTypes, Guests
<1> QED BY <1>1, RunInvariant, PTL
-----------------------------------------------------------------------------
\* A favourable verdict is given only to a guest that did what its fixture
\* declares.
LEMMA VerdictGenuine ==
  ASSUME RunInv, pc = "verdict", Verdict
  PROVE  DidWhatItDeclares
<1> DEFINE o == IF Outcome = "NO_COMPLETION" /\ debug.result = "err" THEN "ESCALATION" ELSE Outcome
<1>1. Fixture \in FixtureKinds
  <2>1. plat \in 1 .. Len(Platforms) /\ fix \in 1 .. Len(Pack.fixtures)
    BY DEF RunInv, PlaceInv, Loop
  <2>2. Pack.fixtures \in Seq(FixtureKinds)
    BY <2>1, PlaceFacts DEF Pack
  <2> QED BY <2>1, <2>2, ElementOfSeq DEF Fixture
<1>2. /\ buf = guest.out /\ (timedOut => guest.code = None)
      /\ buf \in Outs /\ Expects \in Nat /\ High \in Nat
  BY TestAssumption DEF RunInv, ProcessInv, After, TestTypes
<1>3. /\ Outcome = "HANG" => timedOut
      /\ Outcome = "NO_COMPLETION" => ~buf.completed
      /\ Outcome = "FAIL_MARKER" => buf.failures
      /\ Outcome = "ok" => /\ ~timedOut /\ buf.completed /\ ~buf.failures /\ guest.code = "pass"
                           /\ ~(buf.asserts < Expects) /\ ~(buf.high > High)
  BY DEF Outcome
<1>4. CASE Fixture = "none"
  <2>1. o = "ok"
    BY <1>4 DEF Verdict
  <2>2. Outcome = "ok"
    BY <2>1
  <2>3. buf.asserts >= Expects /\ buf.high <= High
    BY <1>2, <1>3, <2>2 DEF Outs
  <2> QED BY <1>2, <1>3, <1>4, <2>2, <2>3 DEF DidWhatItDeclares
<1>5. CASE Fixture = "fail"
  <2>1. o = "FAIL_MARKER"
    BY <1>5 DEF Verdict
  <2>2. Outcome = "FAIL_MARKER"
    BY <2>1
  <2> QED BY <1>2, <1>3, <1>5, <2>2 DEF DidWhatItDeclares
<1>6. CASE Fixture = "nocomp"
  <2>1. o \in {"NO_COMPLETION", "HANG"}
    BY <1>6 DEF Verdict
  <2>2. Outcome \in {"NO_COMPLETION", "HANG"}
    BY <2>1
  <2> QED BY <1>2, <1>3, <1>6, <2>2 DEF DidWhatItDeclares
<1>7. CASE Fixture = "trap"
  <2>1. /\ o = "NO_COMPLETION"
        /\ guest.code = "trap" \/ buf.diags \/ (debug.result = "ok" /\ debug.at = "loc")
    BY <1>7 DEF Verdict
  <2>2. Outcome = "NO_COMPLETION"
    BY <2>1
  <2> QED BY <1>2, <1>3, <1>7, <2>1, <2>2 DEF DidWhatItDeclares
<1> QED BY <1>1, <1>4, <1>5, <1>6, <1>7 DEF FixtureKinds

\* Only the end of a fixture adds to what passed and to what is genuine.
LEMMA HistoryStep ==
  ASSUME [Next]_vars
  PROVE  NextFixture \/ UNCHANGED <<passed, genuine>>
BY DEF Next, Tool, Environment, StartChild, CheckTools, Spawn, PollExit, PollTimeout, JoinReaders,
       Judge, SpawnDebug, Connect, Receive, RspTimeout, Cleanup, WriteReport, ReadChild, ParentEnds,
       ReadPipe, GuestEmit, GuestExit, StubAnswers, TargetStops, Killed, Done, vars, child

\* A fixture passes only if its guest did what the fixture declares.
THEOREM PassesAreGenuine == Spec => []PassIsGenuine
<1>1. Init => PassIsGenuine
  BY DEF Init, PassIsGenuine
<1>2. RunInv /\ PassIsGenuine /\ [Next]_vars => PassIsGenuine'
  <2> SUFFICES ASSUME RunInv, PassIsGenuine, [Next]_vars PROVE PassIsGenuine'
    OBVIOUS
  <2>1. CASE NextFixture
    <3>1. Verdict => DidWhatItDeclares
      BY <2>1, VerdictGenuine DEF NextFixture
    <3> QED BY <2>1, <3>1 DEF NextFixture, PassIsGenuine
  <2>2. CASE UNCHANGED <<passed, genuine>>
    BY <2>2 DEF PassIsGenuine
  <2> QED BY <2>1, <2>2, HistoryStep
<1> QED BY <1>1, <1>2, RunInvariant, PTL DEF Spec
-----------------------------------------------------------------------------
\* The fixtures of pack p that come before the n-th did what they declare.
GenuineBefore(p, n) ==
  \A f \in 1 .. Len(Platforms[p].fixtures) : f < n => <<p, f>> \in genuine

\* A pack whose child may leave any_failure of the parent untouched.
GoodPack(p) ==
  \/ GenuineBefore(p, Len(Platforms[p].fixtures) + 1)
  \/ ~Platforms[p].tools /\ ~opts.qualify

\* What failed and skipped say at the end of a child.
ChildSound ==
  /\ skipped => ~Pack.tools
  /\ ~failed /\ ~skipped => GenuineBefore(plat, Len(Pack.fixtures) + 1)

AggregateInv ==
  /\ ~aggregate => \A p \in 1 .. Len(Platforms) : p < plat => GoodPack(p)
  /\ pc \in Loop => ~skipped /\ (~failed => GenuineBefore(plat, fix))
  /\ pc = "report" => ChildSound
  /\ pc = "exit" /\ status = "ok" => ChildSound /\ ~failed /\ report = Finished

\* What the steps inside a fixture leave alone.
Ledger == <<opts, plat, fix, failed, skipped, genuine, aggregate, status, report>>

\* A step inside a fixture leaves the ledger alone.
\* A step inside a fixture leaves the ledger alone.
LEMMA InsideKeeps ==
  ASSUME AggregateInv, UNCHANGED Ledger, pc' = pc \/ pc \in Loop, pc' = pc \/ pc' \in Loop
  PROVE  AggregateInv'
<1>1. pc' \in Loop => pc \in Loop
  OBVIOUS
<1>2. pc' \in {"report", "exit"} => pc' = pc
  BY DEF Loop
<1> QED
  BY <1>1, <1>2
  DEF AggregateInv, Ledger, GoodPack, GenuineBefore, ChildSound, Finished, Pack

\* Every step keeps the ledger of passes and failures sound.
\* Every step keeps the ledger of passes and failures sound.
LEMMA AggregateStep ==
  ASSUME RunInv, AggregateInv, [Next]_vars
  PROVE  AggregateInv'
<1>1. CASE GuestEmit \/ GuestExit \/ ReadPipe \/ StubAnswers \/ TargetStops \/ Connect \/ Done
          \/ UNCHANGED vars
  <2>1. pc' = pc /\ UNCHANGED Ledger
    BY <1>1
    DEF GuestEmit, GuestExit, ReadPipe, StubAnswers, TargetStops, Connect, Done, vars, child,
        parent, Ledger
  <2> QED BY <2>1, InsideKeeps
<1>2. CASE Spawn \/ PollExit \/ PollTimeout \/ JoinReaders \/ Judge \/ SpawnDebug \/ Cleanup
  <2>1. pc \in Loop /\ pc' \in Loop /\ UNCHANGED Ledger
    BY <1>2
    DEF Spawn, PollExit, PollTimeout, JoinReaders, Judge, SpawnDebug, Cleanup, child, parent,
        Loop, Ledger
  <2> QED BY <2>1, InsideKeeps
<1>3. CASE Receive \/ RspTimeout
  <2>1. pc \in Loop /\ pc' \in Loop /\ UNCHANGED Ledger
    BY <1>3 DEF Receive, OnPacket, RspTimeout, GiveUp, End, parent, Loop, Ledger
  <2> QED BY <2>1, InsideKeeps
<1>4. CASE NextFixture
  <2>1. /\ pc = "verdict" /\ UNCHANGED <<opts, plat, status, report, aggregate, skipped>>
        /\ failed' = (failed \/ ~Verdict)
        /\ genuine' = IF DidWhatItDeclares THEN genuine \cup {<<plat, fix>>} ELSE genuine
    BY <1>4 DEF NextFixture, parent
  <2>2. \/ pc' = "spawn" /\ fix' = fix + 1 /\ fix < Len(Pack.fixtures)
        \/ pc' = "report" /\ ~(fix < Len(Pack.fixtures))
    BY <1>4 DEF NextFixture
  <2>3. plat \in 1 .. Len(Platforms) /\ fix \in 1 .. Len(Pack.fixtures) /\ Len(Pack.fixtures) \in Nat
    BY <2>1, PlaceFacts DEF RunInv, PlaceInv, Loop, Pack
  <2>4. genuine \subseteq genuine'
    BY <2>1
  <2>5. ASSUME ~failed', NEW f \in 1 .. Len(Platforms[plat].fixtures), f < fix + 1
        PROVE  <<plat, f>> \in genuine'
    <3>1. ~failed /\ Verdict
      BY <2>1, <2>5
    <3>2. <<plat, fix>> \in genuine'
      BY <2>1, <3>1, VerdictGenuine
    <3>3. CASE f = fix
      BY <3>2, <3>3
    <3>4. CASE f < fix
      BY <2>1, <2>4, <3>1, <3>4 DEF AggregateInv, GenuineBefore, Loop
    <3> QED BY <2>3, <2>5, <3>3, <3>4
  <2>6. ~aggregate' => \A p \in 1 .. Len(Platforms) : p < plat' => GoodPack(p)'
    BY <2>1, <2>4 DEF AggregateInv, GoodPack, GenuineBefore
  <2>7. CASE pc' = "spawn" /\ fix' = fix + 1
    <3>1. ~skipped'
      BY <2>1 DEF AggregateInv, Loop
    <3>2. ~failed' => GenuineBefore(plat, fix)'
      BY <2>1, <2>5, <2>7 DEF GenuineBefore
    <3> QED BY <2>6, <2>7, <3>1, <3>2 DEF AggregateInv
  <2>8. CASE pc' = "report" /\ ~(fix < Len(Pack.fixtures))
    <3>1. fix = Len(Pack.fixtures)
      BY <2>3, <2>8
    <3>2. ChildSound'
      <4>1. ~skipped
        BY <2>1 DEF AggregateInv, Loop
      <4> QED BY <2>1, <2>5, <3>1, <4>1 DEF ChildSound, Pack, GenuineBefore
    <3> QED BY <2>6, <2>8, <3>2 DEF AggregateInv, Loop
  <2> QED BY <2>2, <2>7, <2>8
<1>5. CASE CheckTools
  <2>1. pc = "tools" /\ UNCHANGED <<opts, plat, fix, failed, genuine, aggregate, report>>
    BY <1>5 DEF CheckTools
  <2>2. \/ pc' = "spawn" /\ UNCHANGED <<skipped, status>>
        \/ pc' = "exit" /\ status' = "error"
        \/ pc' = "report" /\ skipped' = TRUE /\ ~Pack.tools
    BY <1>5 DEF CheckTools
  <2>3. ~aggregate' => \A p \in 1 .. Len(Platforms) : p < plat' => GoodPack(p)'
    BY <2>1 DEF AggregateInv, GoodPack, GenuineBefore
  <2>4. CASE pc' = "spawn" /\ UNCHANGED <<skipped, status>>
    BY <2>1, <2>4, InsideKeeps DEF Ledger, Loop
  <2>5. CASE pc' = "exit" /\ status' = "error"
    BY <2>3, <2>5 DEF AggregateInv, Loop
  <2>6. CASE pc' = "report" /\ skipped' = TRUE /\ ~Pack.tools
    BY <2>1, <2>3, <2>6 DEF AggregateInv, Loop, ChildSound, Pack
  <2> QED BY <2>2, <2>4, <2>5, <2>6
<1>6. CASE WriteReport
  <2>1. /\ pc = "report" /\ pc' = "exit" /\ report' = Finished
        /\ UNCHANGED <<opts, plat, fix, failed, skipped, genuine, aggregate>>
        /\ status' = "ok" => ~failed
    BY <1>6 DEF WriteReport, child
  <2>2. ChildSound' /\ Finished' = Finished
    BY <2>1 DEF AggregateInv, ChildSound, Finished, Pack, GenuineBefore
  <2>3. ~aggregate' => \A p \in 1 .. Len(Platforms) : p < plat' => GoodPack(p)'
    BY <2>1 DEF AggregateInv, GoodPack, GenuineBefore
  <2> QED BY <2>1, <2>2, <2>3 DEF AggregateInv, Loop
<1>7. CASE Killed
  <2>1. pc' = "exit" /\ status' = "killed" /\ UNCHANGED <<opts, plat, genuine, aggregate>>
    BY <1>7 DEF Killed
  <2>2. ~aggregate' => \A p \in 1 .. Len(Platforms) : p < plat' => GoodPack(p)'
    BY <2>1 DEF AggregateInv, GoodPack, GenuineBefore
  <2> QED BY <2>1, <2>2 DEF AggregateInv, Loop
<1>8. CASE StartChild
  <2>1. /\ pc' = "tools" /\ fix' = 1 /\ ~skipped'
        /\ UNCHANGED <<opts, plat, genuine, aggregate>>
    BY <1>8 DEF StartChild
  <2>2. ~aggregate' => \A p \in 1 .. Len(Platforms) : p < plat' => GoodPack(p)'
    BY <2>1 DEF AggregateInv, GoodPack, GenuineBefore
  <2>3. GenuineBefore(plat, fix)'
    BY <2>1 DEF GenuineBefore
  <2> QED BY <2>1, <2>2, <2>3 DEF AggregateInv, Loop
<1>9. CASE ReadChild
  <2>1. /\ pc = "exit" /\ pc' = "off" /\ plat' = plat + 1 /\ UNCHANGED <<opts, genuine>>
        /\ aggregate' = (aggregate \/ ChildFailed)
    BY <1>9 DEF ReadChild, child
  <2>2. plat \in 1 .. Len(Platforms)
    BY <2>1 DEF RunInv, PlaceInv
  <2>3. ~ChildFailed => GoodPack(plat)
    <3> SUFFICES ASSUME ~ChildFailed PROVE GoodPack(plat)
      OBVIOUS
    <3>1. status = "ok" /\ report \in {"pass", "fail"} /\ ~(opts.qualify /\ report = "fail")
      BY DEF ChildFailed
    <3>2. ChildSound /\ ~failed /\ report = Finished
      BY <2>1, <3>1 DEF AggregateInv
    <3>3. CASE skipped
      BY <3>1, <3>2, <3>3 DEF ChildSound, GoodPack, Finished, Pack
    <3>4. CASE ~skipped
      BY <3>2, <3>4 DEF ChildSound, GoodPack, Pack
    <3> QED BY <3>3, <3>4
  <2>4. ASSUME ~aggregate', NEW p \in 1 .. Len(Platforms), p < plat' PROVE GoodPack(p)'
    <3>1. ~aggregate /\ ~ChildFailed
      BY <2>1, <2>4
    <3>2. GoodPack(p)
      <4>1. p = plat \/ p < plat
        BY <2>1, <2>2, <2>4
      <4> QED BY <2>3, <3>1, <4>1 DEF AggregateInv
    <3> QED BY <2>1, <3>2 DEF GoodPack, GenuineBefore
  <2> QED BY <2>1, <2>4 DEF AggregateInv, Loop
<1>10. CASE ParentEnds
  <2>1. pc' = "done" /\ UNCHANGED <<opts, plat, genuine, aggregate>>
    BY <1>10 DEF ParentEnds, child, parent
  <2>2. ~aggregate' => \A p \in 1 .. Len(Platforms) : p < plat' => GoodPack(p)'
    BY <2>1 DEF AggregateInv, GoodPack, GenuineBefore
  <2> QED BY <2>1, <2>2 DEF AggregateInv, Loop
<1> QED
  BY <1>1, <1>2, <1>3, <1>4, <1>5, <1>6, <1>7, <1>8, <1>9, <1>10 DEF Next, Tool, Environment

\* The aggregate verdict is favourable only if every fixture of every pack
\* did what it declares, or the pack's tools are missing and the run does
\* not qualify: no order of exit, report and death of a child hides one.
THEOREM AggregateIsSound == Spec => []AggregateSound
<1>1. Init => AggregateInv
  BY DEF Init, AggregateInv, Loop
<1>2. RunInv /\ AggregateInv /\ [Next]_vars => AggregateInv'
  BY AggregateStep
<1>3. RunInv /\ AggregateInv => AggregateSound
  <2> SUFFICES ASSUME RunInv, AggregateInv, pc = "done", ~aggregate, NEW p \in DOMAIN Platforms
               PROVE  \/ \A f \in DOMAIN Platforms[p].fixtures : <<p, f>> \in genuine
                      \/ ~Platforms[p].tools /\ ~opts.qualify
    BY DEF AggregateSound
  <2>1. Len(Platforms) \in Nat /\ DOMAIN Platforms = 1 .. Len(Platforms)
    BY TestAssumption, LenProperties
  <2>2. p \in 1 .. Len(Platforms) /\ p < plat
    BY <2>1 DEF RunInv, PlaceInv
  <2>3. GoodPack(p)
    BY <2>2 DEF AggregateInv
  <2>4. \A f \in DOMAIN Platforms[p].fixtures :
          f \in 1 .. Len(Platforms[p].fixtures) /\ f < Len(Platforms[p].fixtures) + 1
    BY <2>2, PlaceFacts
  <2> QED BY <2>3, <2>4 DEF GoodPack, GenuineBefore
<1> QED BY <1>1, <1>2, <1>3, RunInvariant, PTL DEF Spec
-----------------------------------------------------------------------------
\* One packet of kind t is on its way.
One(s, t) == Len(s) = 1 /\ s[1][1] = t

\* The escalation has at most one request or answer outstanding.  It asks
\* for registers once the target has stopped at a trap entry or is gone,
\* and a target that is gone answers nothing.
BreakInv(d) ==
  d.phase = "break" =>
    /\ d.target = "stopped"
    /\ \/ One(d.to, "Z") /\ d.from = <<>>
       \/ d.to = <<>> /\ Len(d.from) = 1
ContinueInv(d) ==
  d.phase = "continue" =>
    \/ One(d.to, "c") /\ d.from = <<>> /\ d.target = "stopped"
    \/ d.to = <<>> /\ d.from = <<>> /\ d.target = "running"
    \/ /\ d.to = <<>> /\ Len(d.from) = 1
       /\ d.target # "running" /\ (d.at # None \/ d.target = "gone")
RegsInv(d) ==
  d.phase = "regs" =>
    /\ d.target # "running" /\ (d.at # None \/ d.target = "gone")
    /\ \/ One(d.to, "p") /\ d.to[1][2] = d.n /\ d.from = <<>>
       \/ /\ d.to = <<>> /\ Len(d.from) = 1
          /\ d.from[1][1] = "v" => d.from[1][2] = d.n /\ d.at # None

\* The sampling of a hang may have the first read outstanding when it sends
\* the interrupt: its answer then comes before the stop it waits for.
SampleInv(d) ==
  d.phase \in {"sample", "interrupt"} =>
    /\ \A i \in DOMAIN d.to : d.to[i][1] = "p" =>
         /\ i = 1 /\ d.to[i][2] = d.n
         /\ \A j \in DOMAIN d.from : d.from[j][1] \notin {"v", "T"}
    /\ \A i \in DOMAIN d.from : d.from[i][1] = "v" =>
         /\ d.from[i][2] = d.n
         /\ \A j \in DOMAIN d.from : d.from[j][1] = "T" => i < j
ResampleInv(d) ==
  d.phase = "resample" =>
    /\ \A i \in DOMAIN d.to : d.to[i][1] = "p" => d.to[i][2] = d.n
    /\ \A i \in DOMAIN d.from : d.from[i][1] = "v" => d.from[i][2] = d.n

ModeInv(d) ==
  /\ d.mode \in {"hang", "escalate"} /\ d.phase \in Phases /\ d.result = None
  /\ d.phase = "connect" =>
       d.to = <<>> /\ d.from = <<>> /\ (d.mode = "escalate" => d.target = "stopped")
  /\ d.phase \in {"break", "continue", "regs"} => d.mode = "escalate"
  /\ d.phase \in {"sample", "interrupt", "resample"} => d.mode = "hang"

Exchange(d) ==
  /\ ModeInv(d) /\ BreakInv(d) /\ ContinueInv(d) /\ RegsInv(d)
  /\ SampleInv(d) /\ ResampleInv(d)

Matched(d) == \A g \in d.got : g[1] = g[2]
Diagnosed(d) == d.result = "ok" => (d.mode = "escalate" => d.at # None)

RspInv == Matched(debug) /\ Diagnosed(debug) /\ (pc = "rsp" => Exchange(debug))

\* The fields of a record after an Ask and after a register read.
LEMMA AskFields ==
  ASSUME NEW d \in Debugs, NEW phase \in Phases, NEW cmd \in Cmds, Ask(d, phase, cmd)
  PROVE  /\ debug'.phase = phase /\ debug'.to = Append(d.to, cmd) /\ debug'.from = d.from
         /\ debug'.n = d.n /\ debug'.mode = d.mode /\ debug'.target = d.target
         /\ debug'.at = d.at /\ debug'.got = d.got /\ debug'.result = d.result
         /\ debug'.state = d.state
BY DEF Ask, Debugs

\* The request for the next register.
\* The request for the next register.
LEMMA AskRegFields ==
  ASSUME NEW d \in Debugs, NEW phase \in Phases, AskReg(d, phase)
  PROVE  /\ debug'.phase = phase /\ debug'.to = Append(d.to, <<"p", d.n + 1>>)
         /\ debug'.from = d.from /\ debug'.n = d.n + 1 /\ debug'.mode = d.mode
         /\ debug'.target = d.target /\ debug'.at = d.at /\ debug'.got = d.got
         /\ debug'.result = d.result /\ <<"p", d.n + 1>> \in Cmds
<1> DEFINE e == [d EXCEPT !.n = @ + 1]
<1>1. /\ e \in Debugs /\ d.n + 1 \in Nat /\ e.n = d.n + 1 /\ e.to = d.to /\ e.from = d.from
      /\ e.mode = d.mode /\ e.target = d.target /\ e.at = d.at /\ e.got = d.got
      /\ e.result = d.result
  BY DEF Debugs
<1>2. <<"p", d.n + 1>> \in Cmds
  BY <1>1, PktTypes
<1>3. Ask(e, phase, <<"p", d.n + 1>>)
  BY DEF AskReg
<1> HIDE DEF e
<1> QED BY <1>1, <1>2, <1>3, AskFields

\* Sequences of at most one element.
LEMMA FirstOf ==
  ASSUME NEW S, NEW s \in Seq(S), NEW x \in S
  PROVE  /\ s = <<>> => Len(Append(s, x)) = 1 /\ Append(s, x)[1] = x
         /\ Len(s) = 1 => Tail(s) = <<>>
         /\ Append(s, x) \in Seq(S)
<1>1. Append(s, x) \in Seq(S) /\ (s = <<>> => Len(Append(s, x)) = 1 /\ Append(s, x)[1] = x)
  BY AppendProperties
<1>2. ASSUME Len(s) = 1 PROVE Tail(s) = <<>>
  <2>1. Tail(s) \in Seq(S) /\ Len(Tail(s)) = 0
    BY <1>2
  <2> QED BY <2>1, EmptySeq
<1> QED BY <1>1, <1>2

\* The entries of a queue with one more.
\* The entries of a queue with one more.
LEMMA AppendAt ==
  ASSUME NEW S, NEW s \in Seq(S), NEW x \in S
  PROVE  /\ Len(s) \in Nat /\ DOMAIN s = 1 .. Len(s) /\ DOMAIN Append(s, x) = 1 .. Len(s) + 1
         /\ \A i \in 1 .. Len(s) : Append(s, x)[i] = s[i]
         /\ Append(s, x)[Len(s) + 1] = x
BY AppendProperties

\* The entries of a queue without its first.
\* The entries of a queue without its first.
LEMMA TailAt ==
  ASSUME NEW S, NEW s \in Seq(S), s # <<>>
  PROVE  /\ Len(s) \in Nat \ {0} /\ Head(s) = s[1] /\ Head(s) \in S /\ DOMAIN s = 1 .. Len(s)
         /\ Tail(s) \in Seq(S) /\ DOMAIN Tail(s) = 1 .. Len(s) - 1
         /\ \A i \in 1 .. Len(s) - 1 : Tail(s)[i] = s[i + 1]
OBVIOUS

\* No result is not a good one.
LEMMA NoneIsNoResult == None # "ok" /\ None # "loc" /\ None # "generic" /\ None # "overflow"
BY TestAssumption

\* The conversation begins with one request.
LEMMA ConnectExchange ==
  ASSUME debug \in Debugs, RspInv, Connect
  PROVE  RspInv'
<1>1. /\ Exchange(debug) /\ debug.phase = "connect" /\ pc' = pc /\ pc = "rsp"
      /\ debug.to = <<>> /\ debug.from = <<>> /\ debug.mode \in {"hang", "escalate"}
      /\ debug.mode = "escalate" => debug.target = "stopped"
      /\ debug.result = None /\ debug.to \in Seq(Cmds) /\ Matched(debug)
  BY DEF Connect, RspInv, Exchange, ModeInv, Debugs
<1>2. CASE debug.mode = "escalate"
  <2>1. Ask(debug, "break", <<"Z", 0>>)
    BY <1>1, <1>2 DEF Connect
  <2>2. "break" \in Phases /\ <<"Z", 0>> \in Cmds
    BY PktTypes DEF Phases
  <2>3. /\ debug'.phase = "break" /\ debug'.to = Append(debug.to, <<"Z", 0>>)
        /\ debug'.from = debug.from /\ debug'.mode = debug.mode /\ debug'.target = debug.target
        /\ debug'.got = debug.got /\ debug'.result = debug.result
    BY <2>1, <2>2, AskFields
  <2>4. One(debug'.to, "Z")
    BY <1>1, <2>2, <2>3, FirstOf DEF One
  <2>5. Exchange(debug')
    BY <1>1, <1>2, <2>2, <2>3, <2>4
    DEF Exchange, ModeInv, BreakInv, ContinueInv, RegsInv, SampleInv, ResampleInv
  <2>6. Matched(debug') /\ Diagnosed(debug')
    BY <1>1, <2>3, NoneIsNoResult DEF Matched, Diagnosed
  <2> QED BY <2>5, <2>6 DEF RspInv
<1>3. CASE debug.mode = "hang"
  <2>1. AskReg(debug, "sample") /\ "sample" \in Phases
    BY <1>1, <1>3 DEF Connect, Phases
  <2>2. /\ debug'.phase = "sample" /\ debug'.to = Append(debug.to, <<"p", debug.n + 1>>)
        /\ debug'.from = debug.from /\ debug'.mode = debug.mode /\ debug'.n = debug.n + 1
        /\ debug'.got = debug.got /\ debug'.result = debug.result
        /\ <<"p", debug.n + 1>> \in Cmds
    BY <2>1, AskRegFields
  <2>3. /\ DOMAIN debug'.to = {1} /\ debug'.to[1] = <<"p", debug.n + 1>>
        /\ DOMAIN debug'.from = {}
    <3>1. Len(debug'.to) = 1 /\ debug'.to[1] = <<"p", debug.n + 1>> /\ debug'.to \in Seq(Cmds)
      BY <1>1, <2>2, FirstOf
    <3> QED BY <1>1, <2>2, <3>1
  <2>4. Exchange(debug')
    BY <1>1, <1>3, <2>1, <2>2, <2>3
    DEF Exchange, ModeInv, BreakInv, ContinueInv, RegsInv, SampleInv, ResampleInv
  <2>5. Matched(debug') /\ Diagnosed(debug')
    BY <1>1, <2>2, NoneIsNoResult DEF Matched, Diagnosed
  <2> QED BY <2>4, <2>5 DEF RspInv
<1> QED BY <1>1, <1>2, <1>3

\* The stub answers the oldest request.
LEMMA StubExchange ==
  ASSUME debug \in Debugs, RspInv, StubAnswers
  PROVE  RspInv'
<1> DEFINE d == [debug EXCEPT !.to = Tail(@)]
           cmd == Head(debug.to)
<1>1. /\ Exchange(debug) /\ Matched(debug) /\ pc' = pc /\ pc = "rsp" /\ debug.to # <<>>
      /\ debug.target # "gone" /\ debug' \in Replies(d, cmd)
  BY DEF StubAnswers, RspInv
<1>2. debug.to \in Seq(Cmds) /\ debug.from \in Seq(Answers)
  BY DEF Debugs
<1>3. /\ Len(debug.to) \in Nat \ {0} /\ cmd = debug.to[1] /\ cmd \in Cmds
      /\ DOMAIN debug.to = 1 .. Len(debug.to)
      /\ Tail(debug.to) \in Seq(Cmds) /\ DOMAIN Tail(debug.to) = 1 .. Len(debug.to) - 1
      /\ \A i \in 1 .. Len(debug.to) - 1 : Tail(debug.to)[i] = debug.to[i + 1]
      /\ Len(debug.to) = 1 => Tail(debug.to) = <<>>
  BY <1>1, <1>2, TailAt, FirstOf
<1>4. /\ d.to = Tail(debug.to) /\ d.from = debug.from /\ d.phase = debug.phase /\ d.n = debug.n
      /\ d.mode = debug.mode /\ d.target = debug.target /\ d.at = debug.at
      /\ d.got = debug.got /\ d.result = debug.result /\ d \in Debugs
  BY <1>3 DEF Debugs
<1>5. cmd[1] \in {"Z", "c", "p", "int"} /\ cmd[2] \in Nat
  BY <1>3 DEF Cmds
<1> HIDE DEF d, cmd
\* The answer, if there is one, and what it does to the target.
<1>6. /\ debug'.to = Tail(debug.to) /\ debug'.phase = debug.phase /\ debug'.n = debug.n
      /\ debug'.mode = debug.mode /\ debug'.at = debug.at /\ debug'.got = debug.got
      /\ debug'.result = debug.result
      /\ \/ /\ debug'.from = debug.from
            /\ \/ cmd[1] = "c" /\ debug'.target = "running"
               \/ cmd[1] = "int" /\ debug'.target = debug.target
         \/ \E a \in Answers :
              /\ debug'.from = Append(debug.from, a)
              /\ \/ cmd[1] = "Z" /\ debug'.target = debug.target /\ a[1] \in {"OK", "E01"}
                 \/ /\ cmd[1] = "p" /\ debug'.target = debug.target
                    /\ a[1] = "E01" \/ (a[1] = "v" /\ a[2] = cmd[2])
                 \/ /\ cmd[1] = "p" /\ debug.target = "running" /\ debug'.target = "stopped"
                    /\ a[1] = "T"
                 \/ cmd[1] = "int" /\ debug'.target = "stopped" /\ a[1] = "T"
  <2>0. /\ <<"OK", 0>> \in Answers /\ <<"E01", 0>> \in Answers /\ <<"T", 0>> \in Answers
        /\ <<"v", cmd[2]>> \in Answers
    BY <1>5, PktTypes
  <2>00. /\ <<"OK", 0>>[1] = "OK" /\ <<"E01", 0>>[1] = "E01" /\ <<"T", 0>>[1] = "T"
         /\ <<"v", cmd[2]>>[1] = "v" /\ <<"v", cmd[2]>>[2] = cmd[2]
    OBVIOUS
  <2>1. ASSUME NEW a \in Answers, NEW t \in {"running", "stopped"}
        PROVE  /\ LET e == [d EXCEPT !.from = Append(@, a)] IN
                    /\ e.to = d.to /\ e.phase = d.phase /\ e.n = d.n /\ e.mode = d.mode
                    /\ e.at = d.at /\ e.got = d.got /\ e.result = d.result
                    /\ e.target = d.target /\ e.from = Append(d.from, a)
               /\ LET e == [d EXCEPT !.target = t, !.from = Append(@, a)] IN
                    /\ e.to = d.to /\ e.phase = d.phase /\ e.n = d.n /\ e.mode = d.mode
                    /\ e.at = d.at /\ e.got = d.got /\ e.result = d.result
                    /\ e.target = t /\ e.from = Append(d.from, a)
               /\ LET e == [d EXCEPT !.target = t] IN
                    /\ e.to = d.to /\ e.phase = d.phase /\ e.n = d.n /\ e.mode = d.mode
                    /\ e.at = d.at /\ e.got = d.got /\ e.result = d.result
                    /\ e.target = t /\ e.from = d.from
    BY <1>4 DEF Debugs
  <2>2. CASE cmd[1] = "Z"
    <3>1. \E a \in {<<"OK", 0>>, <<"E01", 0>>} : debug' = [d EXCEPT !.from = Append(@, a)]
      BY <1>1, <2>2 DEF Replies
    <3> QED BY <1>4, <2>0, <2>00, <2>1, <2>2, <3>1
  <2>3. CASE cmd[1] = "c"
    <3>1. debug' = [d EXCEPT !.target = "running"]
      BY <1>1, <2>3 DEF Replies
    <3> QED BY <1>4, <2>0, <2>1, <2>3, <3>1
  <2>4. CASE cmd[1] = "p"
    <3>1. \/ \E a \in {<<"v", cmd[2]>>, <<"E01", 0>>} : debug' = [d EXCEPT !.from = Append(@, a)]
          \/ /\ d.target = "running"
             /\ debug' = [d EXCEPT !.target = "stopped", !.from = Append(@, <<"T", 0>>)]
      BY <1>1, <2>4 DEF Replies
    <3>2. CASE debug' = [d EXCEPT !.from = Append(@, <<"v", cmd[2]>>)]
      BY <1>4, <2>0, <2>00, <2>1, <2>4, <3>2
    <3>3. CASE debug' = [d EXCEPT !.from = Append(@, <<"E01", 0>>)]
      BY <1>4, <2>0, <2>00, <2>1, <2>4, <3>3
    <3>4. CASE /\ d.target = "running"
               /\ debug' = [d EXCEPT !.target = "stopped", !.from = Append(@, <<"T", 0>>)]
      BY <1>4, <2>0, <2>00, <2>1, <2>4, <3>4
    <3> QED BY <3>1, <3>2, <3>3, <3>4
  <2>5. CASE cmd[1] = "int"
    <3>1. \/ debug' = [d EXCEPT !.target = "stopped", !.from = Append(@, <<"T", 0>>)]
          \/ debug' = d
      BY <1>1, <2>5 DEF Replies
    <3>2. CASE debug' = d
      BY <1>4, <2>5, <3>2
    <3>3. CASE debug' = [d EXCEPT !.target = "stopped", !.from = Append(@, <<"T", 0>>)]
      BY <1>4, <2>0, <2>00, <2>1, <2>5, <3>3
    <3> QED BY <3>1, <3>2, <3>3
  <2> QED BY <1>5, <2>2, <2>3, <2>4, <2>5
<1>7. Matched(debug') /\ Diagnosed(debug') /\ ModeInv(debug')
  <2>1. debug.phase # "connect" /\ debug.result = None
    BY <1>1 DEF Exchange, ModeInv
  <2> QED
    BY <1>1, <1>6, <2>1, NoneIsNoResult DEF Matched, Diagnosed, Exchange, ModeInv
<1>8. BreakInv(debug') /\ ContinueInv(debug') /\ RegsInv(debug')
  <2>1. ASSUME NEW a \in Answers
        PROVE  debug.from = <<>> => Len(Append(debug.from, a)) = 1 /\ Append(debug.from, a)[1] = a
    BY <1>2, FirstOf
  <2>2. CASE debug.phase = "break"
    <3>1. cmd[1] = "Z" /\ Len(debug.to) = 1 /\ debug.from = <<>> /\ debug.target = "stopped"
      BY <1>1, <1>3, <2>2 DEF Exchange, BreakInv, One
    <3> QED BY <1>3, <1>6, <2>1, <2>2, <3>1 DEF BreakInv, ContinueInv, RegsInv
  <2>3. CASE debug.phase = "continue"
    <3>1. cmd[1] = "c" /\ Len(debug.to) = 1 /\ debug.from = <<>>
      BY <1>1, <1>3, <2>3 DEF Exchange, ContinueInv, One
    <3> QED BY <1>3, <1>6, <2>3, <3>1 DEF BreakInv, ContinueInv, RegsInv
  <2>4. CASE debug.phase = "regs"
    <3>1. /\ cmd[1] = "p" /\ cmd[2] = debug.n /\ Len(debug.to) = 1 /\ debug.from = <<>>
          /\ debug.target # "running" /\ debug.at # None
      BY <1>1, <1>3, <2>4 DEF Exchange, RegsInv, One
    <3>2. PICK a \in Answers :
            /\ debug'.from = Append(debug.from, a) /\ debug'.target = debug.target
            /\ a[1] = "E01" \/ (a[1] = "v" /\ a[2] = cmd[2])
      BY <1>6, <3>1
    <3>3. Len(debug'.from) = 1 /\ debug'.from[1] = a
      BY <2>1, <3>1, <3>2
    <3>4. debug'.to = <<>>
      BY <1>3, <1>6, <3>1
    <3> QED BY <1>6, <2>4, <3>1, <3>2, <3>3, <3>4 DEF BreakInv, ContinueInv, RegsInv
  <2> QED BY <1>6, <2>2, <2>3, <2>4 DEF BreakInv, ContinueInv, RegsInv
\* What is in the incoming queue afterwards.
<1>9. CASE debug'.from = debug.from
  <2>1. SampleInv(debug')
    BY <1>1, <1>3, <1>6, <1>9 DEF Exchange, SampleInv
  <2>2. ResampleInv(debug')
    BY <1>1, <1>3, <1>6, <1>9 DEF Exchange, ResampleInv
  <2> QED BY <1>1, <1>7, <1>8, <2>1, <2>2 DEF RspInv, Exchange
<1>10. ASSUME NEW a \in Answers, debug'.from = Append(debug.from, a),
              \/ a[1] \in {"OK", "E01"}
              \/ cmd[1] = "p" /\ a[1] = "v" /\ a[2] = cmd[2]
              \/ a[1] = "T" /\ cmd[1] \in {"p", "int"}
       PROVE  RspInv'
  <2> DEFINE k == Len(debug.from) + 1
  <2>1. /\ k \in Nat \ {0} /\ DOMAIN debug.from = 1 .. k - 1 /\ DOMAIN debug'.from = 1 .. k
        /\ \A i \in 1 .. k - 1 : debug'.from[i] = debug.from[i]
        /\ debug'.from[k] = a
    BY <1>2, <1>10, AppendAt
  <2> HIDE DEF k
  <2>2. SampleInv(debug')
    <3> SUFFICES ASSUME debug.phase \in {"sample", "interrupt"} PROVE SampleInv(debug')
      BY <1>6 DEF SampleInv
    <3>1. \A i \in DOMAIN Tail(debug.to) : Tail(debug.to)[i][1] # "p"
      BY <1>1, <1>3 DEF Exchange, SampleInv
    <3>2. /\ cmd[1] = "p" => /\ cmd[2] = debug.n
                             /\ \A j \in DOMAIN debug.from : debug.from[j][1] \notin {"v", "T"}
      BY <1>1, <1>3 DEF Exchange, SampleInv
    <3>3. ASSUME NEW i \in 1 .. k, debug'.from[i][1] = "v"
          PROVE  /\ debug'.from[i][2] = debug.n
                 /\ \A j \in 1 .. k : debug'.from[j][1] = "T" => i < j
      <4>1. CASE i = k
        <5>1. a[1] = "v" /\ cmd[1] = "p" /\ a[2] = debug.n
          BY <1>10, <2>1, <3>2, <3>3, <4>1
        <5> QED BY <2>1, <3>2, <4>1, <5>1
      <4>2. CASE i # k
        <5>1. i \in 1 .. k - 1 /\ debug.from[i][1] = "v" /\ debug'.from[i] = debug.from[i]
          BY <2>1, <3>3, <4>2
        <5>2. /\ debug.from[i][2] = debug.n
              /\ \A j \in 1 .. k - 1 : debug.from[j][1] = "T" => i < j
          BY <1>1, <2>1, <5>1 DEF Exchange, SampleInv
        <5> QED BY <2>1, <5>1, <5>2
      <4> QED BY <4>1, <4>2
    <3> QED BY <1>6, <2>1, <3>1, <3>3 DEF SampleInv
  <2>3. ResampleInv(debug')
    <3> SUFFICES ASSUME debug.phase = "resample" PROVE ResampleInv(debug')
      BY <1>6 DEF ResampleInv
    <3>1. \A i \in DOMAIN Tail(debug.to) :
            Tail(debug.to)[i][1] = "p" => Tail(debug.to)[i][2] = debug.n
      BY <1>1, <1>3 DEF Exchange, ResampleInv
    <3>2. cmd[1] = "p" => cmd[2] = debug.n
      BY <1>1, <1>3 DEF Exchange, ResampleInv
    <3>3. \A i \in 1 .. k : debug'.from[i][1] = "v" => debug'.from[i][2] = debug.n
      BY <1>1, <1>10, <2>1, <3>2 DEF Exchange, ResampleInv
    <3> QED BY <1>6, <2>1, <3>1, <3>3 DEF ResampleInv
  <2> QED BY <1>1, <1>7, <1>8, <2>2, <2>3 DEF RspInv, Exchange
<1> QED BY <1>6, <1>9, <1>10

\* A running target stops at a trap entry, or ends.
LEMMA TargetExchange ==
  ASSUME debug \in Debugs, RspInv, TargetStops
  PROVE  RspInv'
<1>1. /\ Exchange(debug) /\ Matched(debug) /\ pc' = pc /\ pc = "rsp"
      /\ debug.target = "running" /\ debug.result = None
  BY DEF TargetStops, RspInv, Exchange, ModeInv
<1>2. debug.from \in Seq(Answers) /\ <<"T", 0>> \in Answers /\ <<"W", 0>> \in Answers
  BY PktTypes DEF Debugs
<1>3. CASE debug.mode = "escalate"
  <2>1. debug.phase = "continue" /\ debug.to = <<>> /\ debug.from = <<>>
    BY <1>1, <1>3 DEF Exchange, ModeInv, BreakInv, ContinueInv, RegsInv, Phases
  <2>2. /\ debug'.phase = "continue" /\ debug'.to = <<>> /\ debug'.mode = debug.mode
        /\ debug'.got = debug.got /\ debug'.result = None
        /\ \/ /\ debug'.target = "stopped" /\ debug'.at \in {"loc", "generic", "overflow"}
              /\ debug'.from = Append(debug.from, <<"T", 0>>)
           \/ debug'.target = "gone" /\ debug'.from = Append(debug.from, <<"W", 0>>)
    BY <1>1, <2>1 DEF TargetStops, Debugs
  <2>3. Len(debug'.from) = 1
    <3>1. CASE debug'.from = Append(debug.from, <<"T", 0>>)
      BY <1>2, <2>1, <3>1, FirstOf
    <3>2. CASE debug'.from = Append(debug.from, <<"W", 0>>)
      BY <1>2, <2>1, <3>2, FirstOf
    <3> QED BY <2>2, <3>1, <3>2
  <2>4. debug'.at # None \/ debug'.target = "gone"
    BY <2>2, NoneIsNoResult
  <2>5. ContinueInv(debug')
    BY <2>2, <2>3, <2>4 DEF ContinueInv
  <2>6. ModeInv(debug') /\ BreakInv(debug') /\ RegsInv(debug') /\ SampleInv(debug')
        /\ ResampleInv(debug')
    BY <1>3, <2>2 DEF ModeInv, BreakInv, RegsInv, SampleInv, ResampleInv, Phases
  <2>7. Matched(debug') /\ Diagnosed(debug')
    BY <1>1, <2>2, NoneIsNoResult DEF Matched, Diagnosed
  <2> QED BY <2>5, <2>6, <2>7 DEF RspInv, Exchange
<1>4. CASE debug.mode # "escalate"
  <2>1. debug.mode = "hang" /\ debug.phase \in {"connect", "sample", "interrupt", "resample"}
    BY <1>1, <1>4 DEF Exchange, ModeInv, Phases
  <2>2. /\ debug'.phase = debug.phase /\ debug'.to = debug.to /\ debug'.mode = debug.mode
        /\ debug'.got = debug.got /\ debug'.result = None /\ debug'.n = debug.n
        /\ IF debug.phase = "connect" THEN debug'.from = debug.from
           ELSE debug'.from = Append(debug.from, <<"W", 0>>)
    BY <1>1, <1>4 DEF TargetStops, Debugs
  <2>3. BreakInv(debug') /\ ContinueInv(debug') /\ RegsInv(debug')
    BY <2>1, <2>2 DEF BreakInv, ContinueInv, RegsInv
  <2>4. ModeInv(debug')
    BY <1>1, <2>1, <2>2 DEF Exchange, ModeInv
  <2>5. SampleInv(debug') /\ ResampleInv(debug')
    <3>1. CASE debug.phase = "connect"
      BY <2>2, <3>1 DEF SampleInv, ResampleInv
    <3>2. CASE debug.phase # "connect"
      <4> DEFINE k == Len(debug.from) + 1
      <4>1. /\ k \in Nat \ {0} /\ DOMAIN debug.from = 1 .. k - 1 /\ DOMAIN debug'.from = 1 .. k
            /\ \A i \in 1 .. k - 1 : debug'.from[i] = debug.from[i]
            /\ debug'.from[k] = <<"W", 0>>
        BY <1>2, <2>2, <3>2, AppendAt
      <4>2. <<"W", 0>>[1] = "W"
        OBVIOUS
      <4> HIDE DEF k
      <4>3. \A i \in 1 .. k : debug'.from[i][1] \in {"v", "T"} => i \in 1 .. k - 1
        BY <4>1, <4>2
      <4>4. SampleInv(debug')
        BY <1>1, <2>2, <4>1, <4>3 DEF Exchange, SampleInv
      <4>5. ResampleInv(debug')
        BY <1>1, <2>2, <4>1, <4>3 DEF Exchange, ResampleInv
      <4> QED BY <4>4, <4>5
    <3> QED BY <3>1, <3>2
  <2>6. Matched(debug') /\ Diagnosed(debug')
    BY <1>1, <2>2, NoneIsNoResult DEF Matched, Diagnosed
  <2> QED BY <2>3, <2>4, <2>5, <2>6 DEF RspInv, Exchange
<1> QED BY <1>3, <1>4

\* The end of the conversation, with a result.
LEMMA EndMatched ==
  ASSUME NEW d \in Debugs, Matched(d), NEW r \in {"ok", "err"}, End(d, r),
         r = "ok" => (d.mode = "escalate" => d.at # None)
  PROVE  RspInv'
<1>1. /\ pc' = "cleanup" /\ debug'.got = d.got /\ debug'.result = r
      /\ debug'.mode = d.mode /\ debug'.at = d.at
  BY DEF End, Debugs
<1> QED BY <1>1 DEF RspInv, Matched, Diagnosed

\* The interrupt is sent, the first read may still be unanswered.
LEMMA InterruptExchange ==
  ASSUME NEW d \in Debugs, Matched(d), Exchange(d), d.phase = "sample",
         Ask(d, "interrupt", <<"int", 0>>)
  PROVE  RspInv'
<1>1. "interrupt" \in Phases /\ <<"int", 0>> \in Cmds /\ <<"int", 0>>[1] = "int" /\ d.to \in Seq(Cmds)
  BY PktTypes DEF Phases, Debugs
<1>2. /\ debug'.phase = "interrupt" /\ debug'.to = Append(d.to, <<"int", 0>>)
      /\ debug'.from = d.from /\ debug'.n = d.n /\ debug'.mode = d.mode
      /\ debug'.got = d.got /\ debug'.result = d.result
  BY <1>1, AskFields
<1> DEFINE k == Len(d.to) + 1
<1>3. /\ k \in Nat \ {0} /\ DOMAIN d.to = 1 .. k - 1 /\ DOMAIN debug'.to = 1 .. k
      /\ \A i \in 1 .. k - 1 : debug'.to[i] = d.to[i]
      /\ debug'.to[k] = <<"int", 0>>
  BY <1>1, <1>2, AppendAt
<1> HIDE DEF k
<1>4. \A i \in 1 .. k : debug'.to[i][1] = "p" => i \in 1 .. k - 1
  BY <1>1, <1>3
<1>5. SampleInv(debug')
  BY <1>2, <1>3, <1>4 DEF Exchange, SampleInv
<1>6. /\ ModeInv(debug') /\ BreakInv(debug') /\ ContinueInv(debug') /\ RegsInv(debug')
      /\ ResampleInv(debug')
  BY <1>1, <1>2 DEF Exchange, ModeInv, BreakInv, ContinueInv, RegsInv, ResampleInv
<1>7. Matched(debug') /\ Diagnosed(debug')
  BY <1>2, NoneIsNoResult DEF Matched, Diagnosed, Exchange, ModeInv
<1> QED BY <1>5, <1>6, <1>7 DEF RspInv, Exchange

\* No answer in time.
LEMMA TimeoutExchange ==
  ASSUME debug \in Debugs, RspInv, RspTimeout
  PROVE  RspInv'
<1>1. Exchange(debug) /\ Matched(debug)
  BY DEF RspTimeout, RspInv
<1>2. CASE debug.phase = "sample" /\ Ask(debug, "interrupt", <<"int", 0>>)
  BY <1>1, <1>2, InterruptExchange
<1>3. CASE End(debug, "err")
  BY <1>1, <1>3, EndMatched
<1> QED BY <1>2, <1>3 DEF RspTimeout, GiveUp

\* An answer is taken from the queue, and the rest of the exchange stands:
\* what was said of the queue holds of its tail.
LEMMA TailExchange ==
  ASSUME NEW d \in Debugs, debug \in Debugs, Exchange(debug), debug.from # <<>>,
         d = [debug EXCEPT !.from = Tail(@)], debug.phase \in {"sample", "interrupt"}
  PROVE  Exchange(d)
<1>1. debug.from \in Seq(Answers)
  BY DEF Debugs
<1>2. /\ Len(debug.from) \in Nat \ {0} /\ DOMAIN debug.from = 1 .. Len(debug.from)
      /\ Tail(debug.from) \in Seq(Answers) /\ DOMAIN Tail(debug.from) = 1 .. Len(debug.from) - 1
      /\ \A i \in 1 .. Len(debug.from) - 1 : Tail(debug.from)[i] = debug.from[i + 1]
  BY <1>1, TailAt
<1>3. /\ d.to = debug.to /\ d.from = Tail(debug.from) /\ d.phase = debug.phase /\ d.n = debug.n
      /\ d.mode = debug.mode /\ d.result = debug.result
  BY DEF Debugs
<1>4. \A i \in DOMAIN d.from : i + 1 \in DOMAIN debug.from /\ d.from[i] = debug.from[i + 1]
  BY <1>2, <1>3
<1>5. SampleInv(d)
  <2>1. ASSUME NEW i \in DOMAIN d.to, d.to[i][1] = "p"
        PROVE  i = 1 /\ d.to[i][2] = d.n /\ \A j \in DOMAIN d.from : d.from[j][1] \notin {"v", "T"}
    BY <1>3, <1>4, <2>1 DEF Exchange, SampleInv
  <2>2. ASSUME NEW i \in DOMAIN d.from, d.from[i][1] = "v"
        PROVE  d.from[i][2] = d.n /\ \A j \in DOMAIN d.from : d.from[j][1] = "T" => i < j
    <3>1. /\ debug.from[i + 1][2] = debug.n
          /\ \A j \in DOMAIN debug.from : debug.from[j][1] = "T" => i + 1 < j
      BY <1>4, <2>2 DEF Exchange, SampleInv
    <3>2. \A j \in DOMAIN d.from : d.from[j][1] = "T" => i + 1 < j + 1
      BY <1>4, <3>1
    <3>3. \A j \in DOMAIN d.from : j \in Nat
      BY <1>2, <1>3
    <3> QED BY <1>3, <1>4, <3>1, <3>2, <3>3
  <2> QED BY <2>1, <2>2 DEF SampleInv
<1>6. ModeInv(d) /\ BreakInv(d) /\ ContinueInv(d) /\ RegsInv(d) /\ ResampleInv(d)
  BY <1>3 DEF Exchange, ModeInv, BreakInv, ContinueInv, RegsInv, ResampleInv
<1> QED BY <1>5, <1>6 DEF Exchange

\* The caller takes the oldest packet.
LEMMA ReceiveExchange ==
  ASSUME debug \in Debugs, RspInv, Receive
  PROVE  RspInv'
<1> DEFINE d == [debug EXCEPT !.from = Tail(@)]
           pkt == Head(debug.from)
<1>1. /\ Exchange(debug) /\ Matched(debug) /\ pc = "rsp" /\ debug.from # <<>> /\ OnPacket(d, pkt)
  BY DEF Receive, RspInv
<1>2. debug.from \in Seq(Answers) /\ debug.to \in Seq(Cmds) /\ debug.n \in Nat
  BY DEF Debugs
<1>3. /\ pkt = debug.from[1] /\ pkt \in Answers /\ 1 \in DOMAIN debug.from
      /\ Tail(debug.from) \in Seq(Answers)
      /\ Len(debug.from) = 1 => Tail(debug.from) = <<>>
  BY <1>1, <1>2, TailAt, FirstOf
<1>4. /\ d.to = debug.to /\ d.from = Tail(debug.from) /\ d.phase = debug.phase /\ d.n = debug.n
      /\ d.mode = debug.mode /\ d.target = debug.target /\ d.at = debug.at
      /\ d.got = debug.got /\ d.result = debug.result /\ d \in Debugs
  BY <1>3 DEF Debugs
<1>5. pkt[1] \in {"OK", "E01", "v", "T", "W"} /\ pkt[2] \in Nat
  BY <1>3 DEF Answers
<1>6. debug.phase \in {"sample", "interrupt"} => Exchange(d)
  BY <1>1, <1>4, TailExchange
<1> HIDE DEF d, pkt
<1>7. Matched(d) /\ debug.result = None
  BY <1>1, <1>4 DEF Matched, Exchange, ModeInv
\* A register value extends what has been read with a matching pair.
<1>8. ASSUME pkt[2] = debug.n
      PROVE  LET e == [d EXCEPT !.got = @ \cup {<<d.n, pkt[2]>>}] IN
               /\ e \in Debugs /\ Matched(e) /\ e.mode = debug.mode /\ e.at = debug.at
               /\ e.to = debug.to /\ e.from = Tail(debug.from) /\ e.n = debug.n
               /\ e.target = debug.target /\ e.result = None
  <2> DEFINE e == [d EXCEPT !.got = @ \cup {<<d.n, pkt[2]>>}]
  <2>1. /\ e \in Debugs /\ e.got = d.got \cup {<<d.n, pkt[2]>>} /\ e.mode = d.mode /\ e.at = d.at
        /\ e.to = d.to /\ e.from = d.from /\ e.n = d.n /\ e.target = d.target
        /\ e.result = d.result
    <3> DEFINE g == d.got \cup {<<d.n, pkt[2]>>}
    <3>1. g \in SUBSET (Nat \X Nat) /\ e = [d EXCEPT !.got = g]
      <4>1. <<d.n, pkt[2]>> \in Nat \X Nat /\ d.got \in SUBSET (Nat \X Nat)
        BY <1>2, <1>4, <1>5 DEF Debugs
      <4> QED BY <4>1, Zenon
    <3> HIDE DEF g
    <3>2. LET f == [d EXCEPT !.got = g] IN
            /\ f \in Debugs /\ f.got = g /\ f.mode = d.mode /\ f.at = d.at
            /\ f.to = d.to /\ f.from = d.from /\ f.n = d.n /\ f.target = d.target
            /\ f.result = d.result
      BY <1>4, <3>1 DEF Debugs
    <3> QED BY <3>1, <3>2 DEF g
  <2>2. Matched(e)
    BY <1>4, <1>7, <1>8, <2>1 DEF Matched
  <2> QED BY <1>4, <1>7, <2>1, <2>2
<1>9. CASE d.phase = "break" /\ pkt[1] = "OK" /\ Ask(d, "continue", <<"c", 0>>) /\ UNCHANGED pc
  <2>1. "continue" \in Phases /\ <<"c", 0>> \in Cmds /\ <<"c", 0>>[1] = "c"
    BY PktTypes DEF Phases
  <2>2. /\ debug.to = <<>> /\ Tail(debug.from) = <<>> /\ debug.target = "stopped"
        /\ debug.mode = "escalate"
    BY <1>1, <1>3, <1>4, <1>9 DEF Exchange, BreakInv, ModeInv
  <2>3. /\ debug'.phase = "continue" /\ debug'.to = Append(d.to, <<"c", 0>>)
        /\ debug'.from = d.from /\ debug'.mode = d.mode /\ debug'.target = d.target
        /\ debug'.got = d.got /\ debug'.result = d.result
    BY <1>4, <1>9, <2>1, AskFields
  <2>4. One(debug'.to, "c")
    BY <1>2, <1>4, <2>1, <2>2, <2>3, FirstOf DEF One
  <2>5. Exchange(debug')
    BY <1>4, <1>7, <2>1, <2>2, <2>3, <2>4
    DEF Exchange, ModeInv, BreakInv, ContinueInv, RegsInv, SampleInv, ResampleInv
  <2>6. Matched(debug') /\ Diagnosed(debug')
    BY <1>4, <1>7, <2>3, NoneIsNoResult DEF Matched, Diagnosed
  <2> QED BY <2>5, <2>6 DEF RspInv
\* The first read of the escalation, or the next.
<1>10. ASSUME NEW e \in Debugs, AskReg(e, "regs"), Matched(e), e.mode = "escalate",
              e.to = <<>>, e.from = <<>>, e.result = None, e.target # "running",
              e.at # None \/ e.target = "gone"
       PROVE  RspInv'
  <2>1. "regs" \in Phases /\ e.to \in Seq(Cmds)
    BY DEF Phases, Debugs
  <2>2. /\ debug'.phase = "regs" /\ debug'.to = Append(e.to, <<"p", e.n + 1>>)
        /\ debug'.from = e.from /\ debug'.n = e.n + 1 /\ debug'.mode = e.mode
        /\ debug'.target = e.target /\ debug'.at = e.at /\ debug'.got = e.got
        /\ debug'.result = e.result /\ <<"p", e.n + 1>> \in Cmds
    BY <1>10, <2>1, AskRegFields
  <2>3. Len(debug'.to) = 1 /\ debug'.to[1] = <<"p", e.n + 1>>
    BY <1>10, <2>1, <2>2, FirstOf
  <2>4. One(debug'.to, "p") /\ debug'.to[1][2] = debug'.n
    BY <2>2, <2>3 DEF One
  <2>5. Exchange(debug')
    BY <1>10, <2>1, <2>2, <2>4
    DEF Exchange, ModeInv, BreakInv, ContinueInv, RegsInv, SampleInv, ResampleInv
  <2>6. Matched(debug') /\ Diagnosed(debug')
    BY <1>10, <2>2, NoneIsNoResult DEF Matched, Diagnosed
  <2> QED BY <2>5, <2>6 DEF RspInv
<1>11. CASE d.phase = "continue" /\ AskReg(d, "regs") /\ UNCHANGED pc
  <2>1. /\ debug.to = <<>> /\ Tail(debug.from) = <<>> /\ debug.target # "running"
        /\ debug.at # None \/ debug.target = "gone"
        /\ debug.mode = "escalate"
    BY <1>1, <1>3, <1>4, <1>11 DEF Exchange, ContinueInv, ModeInv
  <2> QED BY <1>4, <1>7, <1>10, <1>11, <2>1
<1>12. CASE /\ d.phase = "regs" /\ pkt[1] = "v"
            /\ LET e == [d EXCEPT !.got = @ \cup {<<d.n, pkt[2]>>}] IN
               IF d.n < RegsRead(d.at) THEN AskReg(e, "regs") /\ UNCHANGED pc ELSE End(e, "ok")
  <2> DEFINE e == [d EXCEPT !.got = @ \cup {<<d.n, pkt[2]>>}]
  <2>1. /\ debug.to = <<>> /\ Tail(debug.from) = <<>> /\ debug.target # "running"
        /\ debug.at # None /\ pkt[2] = debug.n /\ debug.mode = "escalate"
    BY <1>1, <1>3, <1>4, <1>12 DEF Exchange, RegsInv, ModeInv
  <2>2. /\ e \in Debugs /\ Matched(e) /\ e.mode = debug.mode /\ e.at = debug.at
        /\ e.to = debug.to /\ e.from = Tail(debug.from) /\ e.n = debug.n
        /\ e.target = debug.target /\ e.result = None
    BY <1>8, <2>1
  <2>3. AskReg(e, "regs") \/ End(e, "ok")
    BY <1>12
  <2> HIDE DEF e
  <2>4. CASE AskReg(e, "regs")
    BY <1>10, <2>1, <2>2, <2>4
  <2>5. CASE End(e, "ok")
    BY <2>1, <2>2, <2>5, EndMatched
  <2> QED BY <2>3, <2>4, <2>5
<1>13. CASE /\ d.phase \in {"sample", "resample"} /\ pkt[1] = "v"
            /\ End([d EXCEPT !.got = @ \cup {<<d.n, pkt[2]>>}], "ok")
  <2> DEFINE e == [d EXCEPT !.got = @ \cup {<<d.n, pkt[2]>>}]
  <2>1. pkt[2] = debug.n /\ debug.mode = "hang"
    BY <1>1, <1>3, <1>4, <1>13 DEF Exchange, SampleInv, ResampleInv, ModeInv
  <2>2. e \in Debugs /\ Matched(e) /\ e.mode = debug.mode /\ e.at = debug.at
    BY <1>8, <2>1
  <2>3. End(e, "ok")
    BY <1>13
  <2> HIDE DEF e
  <2>4. e.mode # "escalate"
    BY <2>1, <2>2
  <2> QED BY <2>2, <2>3, <2>4, EndMatched
<1>14. CASE /\ d.phase = "sample" /\ pkt[1] # "v" /\ Ask(d, "interrupt", <<"int", 0>>)
            /\ UNCHANGED pc
  BY <1>4, <1>6, <1>7, <1>14, InterruptExchange
<1>15. CASE d.phase = "interrupt" /\ pkt[1] = "T" /\ AskReg(d, "resample") /\ UNCHANGED pc
  <2>1. "resample" \in Phases
    BY DEF Phases
  <2>2. /\ debug'.phase = "resample" /\ debug'.to = Append(d.to, <<"p", d.n + 1>>)
        /\ debug'.from = d.from /\ debug'.n = d.n + 1 /\ debug'.mode = d.mode
        /\ debug'.got = d.got /\ debug'.result = d.result /\ <<"p", d.n + 1>> \in Cmds
    BY <1>4, <1>15, <2>1, AskRegFields
  <2>3. \A i \in DOMAIN d.to : d.to[i][1] # "p"
    BY <1>1, <1>3, <1>4, <1>15 DEF Exchange, SampleInv
  <2>4. /\ DOMAIN debug.from = 1 .. Len(debug.from) /\ Len(debug.from) \in Nat \ {0}
        /\ DOMAIN d.from = 1 .. Len(debug.from) - 1
        /\ \A i \in DOMAIN d.from : d.from[i] = debug.from[i + 1]
    BY <1>1, <1>2, <1>4, TailAt
  <2>5. \A i \in DOMAIN debug.from : debug.from[i][1] # "v" \/ i < 1
    BY <1>1, <1>3, <1>4, <1>15 DEF Exchange, SampleInv
  <2>6. \A i \in DOMAIN d.from : d.from[i][1] # "v"
    BY <2>4, <2>5
  <2> DEFINE k == Len(d.to) + 1
  <2>7. /\ k \in Nat \ {0} /\ DOMAIN d.to = 1 .. k - 1 /\ DOMAIN debug'.to = 1 .. k
        /\ \A i \in 1 .. k - 1 : debug'.to[i] = d.to[i]
        /\ debug'.to[k] = <<"p", d.n + 1>>
    BY <1>2, <1>4, <2>2, AppendAt
  <2> HIDE DEF k
  <2>8. \A i \in DOMAIN debug'.to : debug'.to[i][1] = "p" => debug'.to[i][2] = debug'.n
    BY <2>2, <2>3, <2>7
  <2>9. ResampleInv(debug')
    BY <2>2, <2>6, <2>8 DEF ResampleInv
  <2>10. debug.mode = "hang"
    BY <1>1, <1>4, <1>15 DEF Exchange, ModeInv
  <2>11. ModeInv(debug') /\ BreakInv(debug') /\ ContinueInv(debug') /\ RegsInv(debug')
         /\ SampleInv(debug')
    BY <1>4, <1>7, <2>1, <2>2, <2>10 DEF ModeInv, BreakInv, ContinueInv, RegsInv, SampleInv
  <2>12. Matched(debug') /\ Diagnosed(debug')
    BY <1>4, <1>7, <2>2, NoneIsNoResult DEF Matched, Diagnosed
  <2> QED BY <2>9, <2>11, <2>12 DEF RspInv, Exchange
<1>16. CASE d.phase = "interrupt" /\ pkt[1] \notin {"T", "W"} /\ debug' = d /\ UNCHANGED pc
  <2>1. Exchange(debug') /\ Matched(debug') /\ Diagnosed(debug')
    BY <1>4, <1>6, <1>7, <1>16, NoneIsNoResult DEF Diagnosed
  <2> QED BY <2>1 DEF RspInv
<1>17. CASE End(d, "err")
  BY <1>4, <1>7, <1>17, EndMatched
<1> QED
  BY <1>1, <1>9, <1>11, <1>12, <1>13, <1>14, <1>15, <1>16, <1>17 DEF OnPacket

\* Every step keeps the conversation in order.
LEMMA RspStep == RunInv /\ RspInv /\ [Next]_vars => RspInv'
<1> SUFFICES ASSUME RunInv, RspInv, [Next]_vars PROVE RspInv'
  OBVIOUS
<1>0. debug \in Debugs
  BY DEF RunInv, TestTypes
<1>1. CASE UNCHANGED <<debug, pc>>
  BY <1>1 DEF RspInv, Matched, Diagnosed, Exchange, ModeInv, BreakInv, ContinueInv, RegsInv,
         SampleInv, ResampleInv
<1>2. CASE UNCHANGED debug /\ pc' # "rsp"
  BY <1>2 DEF RspInv, Matched, Diagnosed
<1>3. ASSUME NEW d \in Debugs, debug' = d, pc' # "rsp", d.got = {}, d.result # "ok"
      PROVE  RspInv'
  BY <1>3 DEF RspInv, Matched, Diagnosed
<1>4. /\ NoDebug \in Debugs /\ NoDebug.got = {} /\ NoDebug.result # "ok"
  BY PktTypes, NoneIsNoResult DEF NoDebug, Debugs
<1>5. CASE SpawnDebug
  <2>1. CASE /\ debug' = [NoDebug EXCEPT !.mode = IF timedOut THEN "hang" ELSE "escalate",
                                         !.result = "err"]
             /\ pc' = "verdict"
    <3>1. debug' \in Debugs /\ debug'.got = {} /\ debug'.result = "err"
      BY <1>4, <2>1 DEF Debugs
    <3> QED BY <1>3, <2>1, <3>1
  <2>2. ASSUME NEW mode \in {"hang", "escalate"},
               debug' = [NoDebug EXCEPT !.state = "live", !.mode = mode, !.phase = "connect",
                            !.target = IF mode = "hang" THEN "running" ELSE "stopped"]
        PROVE  RspInv'
    <3>1. /\ debug'.phase = "connect" /\ debug'.to = <<>> /\ debug'.from = <<>>
          /\ debug'.mode = mode /\ (mode = "escalate" => debug'.target = "stopped")
          /\ debug'.result = None /\ debug'.got = {}
      BY <2>2 DEF NoDebug
    <3>2. Exchange(debug')
      BY <3>1 DEF Exchange, ModeInv, BreakInv, ContinueInv, RegsInv, SampleInv, ResampleInv, Phases
    <3> QED BY <3>1, <3>2, NoneIsNoResult DEF RspInv, Matched, Diagnosed
  <2> QED BY <1>5, <2>1, <2>2 DEF SpawnDebug
<1>6. CASE Connect
  BY <1>0, <1>6, ConnectExchange
<1>7. CASE StubAnswers
  BY <1>0, <1>7, StubExchange
<1>8. CASE TargetStops
  BY <1>0, <1>8, TargetExchange
<1>9. CASE Receive
  BY <1>0, <1>9, ReceiveExchange
<1>10. CASE RspTimeout
  BY <1>0, <1>10, TimeoutExchange
<1>11. CASE Cleanup
  <2>1. /\ debug'.got = debug.got /\ debug'.result = debug.result /\ debug'.mode = debug.mode
        /\ debug'.at = debug.at /\ pc' = "verdict"
    BY <1>0, <1>11 DEF Cleanup, Debugs
  <2> QED BY <2>1 DEF RspInv, Matched, Diagnosed
<1>12. CASE NextFixture
  <2>1. debug' = [NoDebug EXCEPT !.state = debug.state] /\ pc' \in {"spawn", "report"}
    BY <1>12 DEF NextFixture
  <2>2. debug' \in Debugs /\ debug'.got = {} /\ debug'.result = NoDebug.result
    BY <1>0, <1>4, <2>1 DEF Debugs
  <2> QED BY <1>3, <1>4, <2>1, <2>2
<1>13. CASE Killed
  BY <1>3, <1>4, <1>13 DEF Killed
<1>14. CASE Next /\ ~(\/ SpawnDebug \/ Connect \/ StubAnswers \/ TargetStops \/ Receive
                      \/ RspTimeout \/ Cleanup \/ NextFixture \/ Killed)
  <2>1. UNCHANGED debug /\ (pc' = pc \/ pc' # "rsp")
    BY <1>14 DEF Next, Tool, Environment, StartChild, CheckTools, Spawn, PollExit, PollTimeout,
       JoinReaders, Judge, WriteReport, ReadChild, ParentEnds, GuestEmit, GuestExit, ReadPipe,
       Done, vars, child
  <2> QED BY <1>1, <1>2, <2>1
<1>15. CASE UNCHANGED vars
  BY <1>1, <1>15 DEF vars, child
<1> QED
  BY <1>5, <1>6, <1>7, <1>8, <1>9, <1>10, <1>11, <1>12, <1>13, <1>14, <1>15

\* Whatever the order of late answers, stops, interrupts and timeouts, the
\* registers of a diagnosis answer their own reads, and an escalation that
\* succeeds found its target halted at a trap.
THEOREM RegistersAnswerTheirReads == Spec => []RegistersMatch
<1>1. Init => RspInv
  BY NoneIsNoResult DEF Init, NoDebug, RspInv, Matched, Diagnosed
<1>2. RunInv /\ RspInv /\ [Next]_vars => RspInv'
  BY RspStep
<1>3. RspInv => RegistersMatch
  BY DEF RspInv, Matched, Diagnosed, RegistersMatch
<1> QED BY <1>1, <1>2, <1>3, RunInvariant, PTL DEF Spec
=============================================================================
