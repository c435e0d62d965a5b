------------------------------ MODULE McuTasks ------------------------------
(***************************************************************************)
(* The microcontroller port of the task scheduler:                         *)
(* runtime/riscv32-unknown-none/concurrency.asm and, with 6 instead of 16  *)
(* slots, runtime/armv7m-unknown-none/concurrency.asm.  It differs from    *)
(* module TaskScheduler in what it keeps on the task's call stack, in the  *)
(* missing normalisation of main's state 0, in the missing ring mask, in   *)
(* that it does not steal, and in what exit and join do at their end.      *)
(***************************************************************************)
EXTENDS Integers, Sequences

CONSTANTS NTasks, WorkerCap, GlobalCap

VARIABLES
  state,    \* __task_state
  current,  \* __task_current
  wq, gq,   \* the worker's and the global queue, all that was ever stored
  wHead,    \* __task_w_head
  gHead,    \* __task_g_head
  frame,    \* the words of its own stack from the saved stack pointer up
  halt,
  joining   \* the slot a task inside __task_join waits for, 0 if none

mcuVars == <<state, current, wq, gq, wHead, gHead, frame, halt, joining>>

Tasks == 0 .. NTasks - 1
Main  == 0

\* What __task_spawn lays out: three zeroes and the trampoline.
SpawnFrame == <<"zero", "zero", "zero", "tramp">>

\* What __task_yield pushes: five registers and the return address.
YieldFrame == <<"reg", "reg", "reg", "reg", "reg", "resume">>

\* The word that __task_yield returns to: the sixth from the saved stack
\* pointer.  Above the own words lies the neighbour's memory.
ReturnWord(f) == IF Len(f) >= 6 THEN f[6] ELSE "outside"

McuInit ==
  /\ state = [t \in Tasks |-> "free"]
  /\ current = Main
  /\ wq = << >> /\ gq = << >>
  /\ wHead = 0 /\ gHead = 0
  /\ frame = [t \in Tasks |-> << >>]
  /\ halt = "none"
  /\ joining = [t \in Tasks |-> Main]

Runs == halt = "none" /\ joining[current] = Main

FreeSlots == {s \in Tasks \ {Main} : state[s] = "free"}
WRoom == Len(wq) - wHead < WorkerCap
GRoom == Len(gq) - gHead < GlobalCap

McuTrap(code) ==
  halt' = code /\ UNCHANGED <<state, current, wq, gq, wHead, gHead, frame, joining>>

\* Tail counters index the buffers unmasked, so a queue is all it ever held.
McuSpawn ==
  /\ Runs
  /\ IF FreeSlots = {} \/ ~(WRoom \/ GRoom)
     THEN McuTrap("unreachable")
     ELSE \E s \in FreeSlots :
            /\ \A f \in FreeSlots : s <= f
            /\ state' = [state EXCEPT ![s] = "ready"]
            /\ frame' = [frame EXCEPT ![s] = SpawnFrame]
            /\ wq' = IF WRoom THEN Append(wq, s) ELSE wq
            /\ gq' = IF WRoom THEN gq ELSE Append(gq, s)
            /\ UNCHANGED <<current, wHead, gHead, halt, joining>>

\* __task_yield with task states st: only state 2 is queued again, so main,
\* still in state 0, is not; nothing found means the caller goes on, traps if
\* it was blocked, and runs into a breakpoint if it has exited.
McuYieldFrom(st) ==
  LET active == st[current] = "running"
      wq1 == IF active /\ WRoom THEN Append(wq, current) ELSE wq
      gq1 == IF active /\ ~WRoom /\ GRoom THEN Append(gq, current) ELSE gq
      st1 == IF active THEN [st EXCEPT ![current] = "ready"] ELSE st
      fromW == wHead < Len(wq1)
      fromG == ~fromW /\ gHead < Len(gq1)
      next == IF fromW THEN wq1[wHead + 1] ELSE gq1[gHead + 1]
      frames == [frame EXCEPT ![current] = YieldFrame]
  IN  /\ wq' = wq1 /\ gq' = gq1
      /\ wHead' = IF fromW THEN wHead + 1 ELSE wHead
      /\ gHead' = IF fromG THEN gHead + 1 ELSE gHead
      /\ frame' = frames
      /\ IF fromW \/ fromG
         THEN /\ state' = [st1 EXCEPT ![next] = "running"]
              /\ current' = next
              /\ halt' = IF ReturnWord(frames[next]) = "outside" THEN "wild" ELSE "none"
         ELSE /\ state' = st1
              /\ halt' = CASE st[current] = "blocked" -> "deadlock"
                           [] st[current] = "done" -> "breakpoint"
                           [] OTHER -> "none"
              /\ UNCHANGED current

McuYield == Runs /\ McuYieldFrom(state) /\ UNCHANGED joining

McuExit ==
  /\ Runs
  /\ current # Main
  /\ McuYieldFrom([state EXCEPT ![current] = "done"])
  /\ UNCHANGED joining

\* __task_join: .join_done falls through into .join_invalid, which traps.
McuJoin(s) ==
  \/ state[s] = "done" /\ McuTrap("unreachable")
  \/ /\ state[s] # "done"
     /\ McuYieldFrom(state)
     /\ joining' = [joining EXCEPT ![current] = s]

McuNext ==
  \/ McuSpawn
  \/ McuYield
  \/ McuExit
  \/ Runs /\ \E s \in Tasks \ {Main} : McuJoin(s)
  \/ halt = "none" /\ joining[current] # Main /\ McuJoin(joining[current])
  \/ halt # "none" /\ UNCHANGED mcuVars

McuSpec == McuInit /\ [][McuNext]_mcuVars /\ WF_mcuVars(McuNext)

\* __task_spawn "sets up ... initial call stack" with "space for trampoline +
\* 3 saved regs": the first switch to a spawned task enters the trampoline.
FirstSwitchEntersTrampoline == halt # "wild"
=============================================================================
