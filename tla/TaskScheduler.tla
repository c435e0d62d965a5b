--------------------------- MODULE TaskScheduler ---------------------------
(***************************************************************************)
(* The cooperative task scheduler of the x86-64 runtime:                   *)
(* runtime/x86_64-unknown-none/concurrency.asm and, instruction for        *)
(* instruction, its copies in runtime/linux-x86_64-hosted.asm and in what  *)
(* crates/codegen-x86_64/src/task.rs emits.  One processor runs one task   *)
(* at a time; control changes hands only inside __task_yield, so every     *)
(* action below is the code a task runs from one resumption to the next    *)
(* yield or to the end of the operation.                                   *)
(*                                                                         *)
(* The ready queues are the sequences that the head/tail rings stand for   *)
(* (module RingQueue shows that they do).  Saved stack pointers, entry     *)
(* points and data stacks are left out: no decision depends on them.       *)
(***************************************************************************)
EXTENDS Integers, Sequences

CONSTANTS
  NTasks,       \* slots of __task_state (16 in the code)
  NWorkers,     \* worker queues (4)
  WorkerCap,    \* entries of a worker queue (8)
  GlobalCap,    \* entries of the global queue (16)
  MaxSpawns,    \* bound: how often one slot is spawned into
  CopyHandles   \* TRUE: a handle may be joined again, as `Task` is copyable

ASSUME SchedulerAssumption ==
  /\ NTasks \in Nat \ {0}
  /\ NWorkers \in Nat \ {0}
  /\ WorkerCap \in Nat \ {0}
  /\ GlobalCap \in Nat \ {0}
  /\ NTasks <= GlobalCap
  /\ MaxSpawns \in Nat
  /\ CopyHandles \in BOOLEAN

VARIABLES
  state,    \* __task_state: what each slot is doing
  current,  \* __task_current
  worker,   \* __task_worker: the worker queue in use
  queue,    \* __task_w_buf per worker, and __task_g_buf under Global
  halt,     \* how the machine stopped, "none" while it runs
  joining,  \* the handle a task inside __task_join waits for
  inc,      \* history: how many tasks each slot has held
  spent     \* history: the handles that a join was called on

schedVars == <<state, current, worker, queue, halt, joining, inc, spent>>

Tasks   == 0 .. NTasks - 1
Main    == 0
Workers == 0 .. NWorkers - 1
Global  == NWorkers
Queues  == 0 .. NWorkers
NoQueue == NWorkers + 1

States == {"free", "ready", "running", "done", "blocked"}

Outcomes == {"none", "exit", "unreachable", "overflow", "deadlock"}

\* A handle is a slot number; inc is history and invisible to the code.
Handles == [slot : Tasks, inc : Nat]
NoHandle == [slot |-> Main, inc |-> 0]

\* Every handle that __task_spawn has returned so far.
Issued == {h \in [slot : Tasks, inc : 1 .. MaxSpawns] : h.inc <= inc[h.slot]}
-----------------------------------------------------------------------------
\* The worker that the r-th round of the stealing loop looks at.
Victim(r) ==
  IF worker + r < NWorkers THEN worker + r ELSE worker + r - NWorkers

\* Mutant of Target: the fallback to the global queue is forgotten.
TargetNoFallback(q) == IF Len(q[worker]) < WorkerCap THEN worker ELSE NoQueue

\* Where a runnable task goes: its worker's queue, or the global one when
\* that is full, or nowhere when both are.
Target(q) ==
  IF Len(q[worker]) < WorkerCap THEN worker
  ELSE IF Len(q[Global]) < GlobalCap THEN Global ELSE NoQueue

\* Mutant of Push: the task goes to the front.
PushFront(q, k, t) == IF k = NoQueue THEN q ELSE [q EXCEPT ![k] = <<t>> \o @]

Push(q, k, t) == IF k = NoQueue THEN q ELSE [q EXCEPT ![k] = Append(@, t)]

Stealable(q) == {r \in 1 .. NWorkers - 1 : q[Victim(r)] # << >>}

\* The queue the next task comes from: own worker, global, first victim.
Source(q) ==
  IF q[worker] # << >> THEN worker
  ELSE IF q[Global] # << >> THEN Global
  ELSE IF Stealable(q) = {} THEN NoQueue
  ELSE Victim(CHOOSE r \in Stealable(q) : \A s \in Stealable(q) : r <= s)

\* Mutant of EntryState: the main task's state 0 is not recognised.
EntryStateRaw(st) == st[current]

\* The state the yielding task entered with (r12).  The first yield of the
\* main task finds it in state 0 and counts it as running.
EntryState(st) == IF st[current] = "free" THEN "running" ELSE st[current]

\* Mutant of WorkerAfter: r10 is not reloaded on the global path.
WorkerAfterStale(src) == src

\* The worker in use after a task was taken from queue src (r10).
WorkerAfter(src) == IF src = Global THEN worker ELSE src

\* __task_yield by the current task, entered with task states st and queues
\* q.  A running task goes back into a queue; then the next task is picked.
\* With nothing to pick, a running task goes on, a blocked one traps, and a
\* finished one falls through into __task_exit's exit(0).
YieldFrom(st, q) ==
  LET entry  == EntryState(st)
      active == entry = "running"
      st1    == IF active THEN [st EXCEPT ![current] = "ready"] ELSE st
      q1     == IF active THEN Push(q, Target(q), current) ELSE q
      src    == Source(q1)
      next   == Head(q1[src])
  IN  IF src # NoQueue
      THEN /\ state' = [st1 EXCEPT ![next] = "running"]
           /\ current' = next
           /\ worker' = WorkerAfter(src)
           /\ queue' = [q1 EXCEPT ![src] = Tail(@)]
           /\ UNCHANGED halt
      ELSE /\ state' = IF active THEN [st EXCEPT ![current] = "running"] ELSE st
           /\ queue' = q1
           /\ halt' = IF entry = "blocked" THEN "deadlock"
                      ELSE IF entry = "done" THEN "exit" ELSE "none"
           /\ UNCHANGED <<current, worker>>

\* __lang_trap: nothing runs after it, so the other variables are frozen.
Trap(code) ==
  /\ halt' = code
  /\ UNCHANGED <<state, current, worker, queue, joining, inc, spent>>
-----------------------------------------------------------------------------
\* The hosted start code marks main running; the freestanding one leaves the
\* cleared table, in which main looks like a free slot.
Init ==
  /\ state \in {[t \in Tasks |-> IF t = Main THEN s ELSE "free"] :
                  s \in {"free", "running"}}
  /\ current = Main
  /\ worker = 0
  /\ queue = [k \in Queues |-> << >>]
  /\ halt = "none"
  /\ joining = [t \in Tasks |-> NoHandle]
  /\ inc = [t \in Tasks |-> 0]
  /\ spent = {}

\* The current task executes its own code, outside any scheduler call.
InUserCode == halt = "none" /\ joining[current] = NoHandle

\* Mutant of FreeSlots: a finished task's slot is reused before its join.
FreeSlotsDone == {s \in Tasks \ {Main} : state[s] \in {"free", "done"}}

FreeSlots == {s \in Tasks \ {Main} : state[s] = "free"}

\* __task_spawn: the first free slot from 1 up becomes ready and is queued.
Spawn ==
  /\ InUserCode
  /\ \E s \in FreeSlots :
       /\ \A f \in FreeSlots : s <= f
       /\ Target(queue) # NoQueue
       /\ inc[s] < MaxSpawns
       /\ state' = [state EXCEPT ![s] = "ready"]
       /\ queue' = Push(queue, Target(queue), s)
       /\ inc' = [inc EXCEPT ![s] = @ + 1]
       /\ UNCHANGED <<current, worker, halt, joining, spent>>

\* __task_spawn with no free slot, or with no queue to take the new task.
SpawnFail ==
  /\ InUserCode
  /\ FreeSlots # {} => Target(queue) = NoQueue
  /\ Trap("unreachable")

\* platform.task.yield, and the hosted sleeps, which nap and then yield.
Yield ==
  /\ InUserCode
  /\ YieldFrom(state, queue)
  /\ UNCHANGED <<joining, inc, spent>>

\* One round of __task_join's loop for handle h: reap the slot if its task
\* is done, else yield and look again.
JoinRound(h) ==
  \/ /\ state[h.slot] = "done"
     /\ state' = [state EXCEPT ![h.slot] = "free"]
     /\ joining' = [joining EXCEPT ![current] = NoHandle]
     /\ UNCHANGED <<current, worker, queue, halt, inc>>
  \/ /\ state[h.slot] # "done"
     /\ YieldFrom(state, queue)
     /\ joining' = [joining EXCEPT ![current] = h]
     /\ UNCHANGED inc

Join(h) ==
  /\ InUserCode
  /\ CopyHandles \/ h \notin spent
  /\ JoinRound(h)
  /\ spent' = spent \cup {h}

JoinAgain ==
  /\ halt = "none"
  /\ joining[current] # NoHandle
  /\ JoinRound(joining[current])
  /\ UNCHANGED spent

\* __task_join of a number that is no slot (handles can be bitcast).
JoinInvalid == InUserCode /\ Trap("unreachable")

\* A spawned task's body returns into __task_entry_tramp and __task_exit.
Exit ==
  /\ InUserCode
  /\ current # Main
  /\ YieldFrom([state EXCEPT ![current] = "done"], queue)
  /\ UNCHANGED <<joining, inc, spent>>

\* main returns and the program ends, whatever the other tasks do.
MainReturn == InUserCode /\ current = Main /\ Trap("exit")

Stopped == halt # "none" /\ UNCHANGED schedVars

SchedStep ==
  \/ Spawn
  \/ SpawnFail
  \/ Yield
  \/ \E h \in Issued : Join(h)
  \/ JoinAgain
  \/ JoinInvalid
  \/ Exit
  \/ MainReturn

Next == SchedStep \/ Stopped

\* The processor keeps executing: some step follows as long as it runs.
Spec == Init /\ [][Next]_schedVars /\ WF_schedVars(Next)
-----------------------------------------------------------------------------
\* The types of the variables.
TypeOK ==
  /\ state \in [Tasks -> States]
  /\ current \in Tasks
  /\ worker \in Workers
  /\ queue \in [Queues -> Seq(Tasks)]
  /\ halt \in Outcomes
  /\ joining \in [Tasks -> Handles]
  /\ inc \in [Tasks -> Nat]
  /\ spent \subseteq Handles

\* While the machine runs, the current task is the only running one.  Main
\* starts out in state 0, which only the first yield turns into running;
\* from then on no live task may look like a free slot.
OneRunning ==
  halt = "none" =>
    /\ \A t \in Tasks : state[t] = "running" => t = current
    /\ state[current] = "running" \/ (current = Main /\ state[Main] = "free")
    /\ state[Main] = "free" => current = Main

\* Whatever a queue holds is ready to run: no queue entry outlives its task's
\* turn, so __task_yield never switches to a free, finished or blocked slot.
QueuedAreReady(st, q) ==
  \A k \in Queues : \A i \in 1 .. Len(q[k]) : st[q[k][i]] = "ready"

\* A ready task is in some queue, so that a yield can find it: none of the
\* enqueues of spawn, yield or wake-up was skipped for want of room.
ReadyAreQueued(st, q) ==
  \A t \in Tasks : st[t] = "ready" =>
    \E k \in Queues : \E i \in 1 .. Len(q[k]) : q[k][i] = t

\* No task is queued twice, in one queue or in two.
QueuedOnce(q) ==
  \A k, l \in Queues : \A i \in 1 .. Len(q[k]), j \in 1 .. Len(q[l]) :
    q[k][i] = q[l][j] => k = l /\ i = j

QueuesMatch(st, q) ==
  QueuedAreReady(st, q) /\ ReadyAreQueued(st, q) /\ QueuedOnce(q)

\* The ready queues and the task states tell the same story: a task is ready
\* exactly when it is queued, and then it is queued once.
ReadyQueuesExact == QueuesMatch(state, queue)

\* The queues of the other workers stay empty and worker 0 does all the work:
\* nothing ever writes another number to __task_worker before a steal, and
\* there is nothing to steal.
OthersEmpty(q) == \A k \in Workers \ {0} : q[k] = << >>
OnlyWorkerZero == worker = 0 /\ OthersEmpty(queue)

\* TASK_QUEUE_OVERFLOW (24) cannot happen: as many entries as there are tasks
\* always fit.
NoOverflow == halt # "overflow"

\* The tasks that a join returns for: h's task has run to its end.
Finished(h) ==
  inc[h.slot] > h.inc \/ (inc[h.slot] = h.inc /\ state[h.slot] \in {"done", "free"})

\* A slot is freed for reuse only through the handle of the task in it: a
\* stale handle never reaps a later tenant of the slot.
FreedByOwnHandle ==
  \A h \in Issued :
    (inc[h.slot] > h.inc \/ state[h.slot] = "free") => h \in spent

\* The current task and the ones in the worker's own ring.
InTurn(t) ==
  t = current \/ \E i \in 1 .. Len(queue[worker]) : queue[worker][i] = t

\* A ready task in the worker's ring gets the processor, or the program ends:
\* re-queued tasks line up behind it.  (A task that went to the global ring
\* may wait for ever.)
ReadyRuns ==
  \A t \in Tasks : (state[t] = "ready" /\ InTurn(t)) ~>
                     (state[t] = "running" \/ halt # "none")

\* A join of a task that has finished returns, or the program ends, if the
\* joining task is not behind the worker's ring.
JoinReturns ==
  \A t \in Tasks : \A h \in [slot : Tasks, inc : 1 .. MaxSpawns] :
    (joining[t] = h /\ Finished(h) /\ InTurn(t)) ~> (joining[t] # h \/ halt # "none")
=============================================================================
