------------------------- MODULE SchedulerProofs -------------------------
(***************************************************************************)
(* Safety of the scheduler for every number of tasks and workers and every *)
(* queue capacity, and of the channels on top of it for every number of    *)
(* channels, every buffer size and every length of the wait lists.         *)
(***************************************************************************)
EXTENDS Channels, FiniteSetTheorems, TLAPS

(***************************************************************************)
(* The scheduler.  The invariant SchedInv is inductive; the lemmas about   *)
(* pushing, popping and yielding are stated for arbitrary states and       *)
(* queues, so that the channel operations can use them too.                *)
(***************************************************************************)
QueueType(q) == q \in [Queues -> Seq(Tasks)]
StateType(st) == st \in [Tasks -> States]

\* A task that is not ready leaves room in every queue: the others are at
\* most NTasks - 1, and each is queued once.
LEMMA RoomInQueue ==
  ASSUME NEW st, NEW q, StateType(st), QueueType(q), QueuesMatch(st, q),
         NEW t \in Tasks, st[t] # "ready", NEW k \in Queues
  PROVE  Len(q[k]) < NTasks
<1> DEFINE S == 1 .. Len(q[k])
<1> DEFINE T == Tasks \ {t}
<1>1. q[k] \in [S -> T]
  <2>1. q[k] \in [S -> Tasks] /\ Len(q[k]) \in Nat
    BY DEF QueueType
  <2>2. \A i \in S : q[k][i] # t
    BY DEF QueuesMatch, QueuedAreReady
  <2> QED BY <2>1, <2>2
<1>2. IsFiniteSet(Tasks) /\ Cardinality(Tasks) = NTasks
  BY FS_Interval, SchedulerAssumption DEF Tasks
<1>3. IsFiniteSet(T) /\ Cardinality(T) = NTasks - 1
  BY <1>2, FS_RemoveElement
<1>4. IsFiniteSet(S) /\ Cardinality(S) = Len(q[k]) /\ Len(q[k]) \in Nat
  <2>1. Len(q[k]) \in Nat
    BY DEF QueueType
  <2>2. Cardinality(S) = IF 1 > Len(q[k]) THEN 0 ELSE Len(q[k]) - 1 + 1
    BY <2>1, FS_Interval
  <2> QED BY <2>1, <2>2, FS_Interval
<1>5. ASSUME Len(q[k]) >= NTasks PROVE FALSE
  <2>1. Cardinality(T) < Cardinality(S)
    BY <1>3, <1>4, <1>5, SchedulerAssumption
  <2>2. \E x, y \in S : x # y /\ q[k][x] = q[k][y]
    BY <1>1, <1>3, <1>4, <2>1, FS_PigeonHole
  <2> QED BY <2>2 DEF QueuesMatch, QueuedOnce
<1> QED BY <1>4, <1>5, SchedulerAssumption

\* Queueing a task that was not ready, and calling it ready.
LEMMA PushMatch ==
  ASSUME NEW st, NEW q, StateType(st), QueueType(q), QueuesMatch(st, q),
         NEW t \in Tasks, st[t] # "ready", NEW k \in Queues
  PROVE  LET st1 == [st EXCEPT ![t] = "ready"]
             q1 == [q EXCEPT ![k] = Append(@, t)]
         IN  StateType(st1) /\ QueueType(q1) /\ QueuesMatch(st1, q1)
<1> DEFINE st1 == [st EXCEPT ![t] = "ready"]
           q1 == [q EXCEPT ![k] = Append(@, t)]
           n == Len(q[k])
<1>1. StateType(st1) /\ QueueType(q1)
  BY DEF StateType, QueueType, States
<1>2. \A l \in Queues : q[l] \in Seq(Tasks) /\ Len(q[l]) \in Nat
  BY DEF QueueType
<1>3. /\ Len(q1[k]) = n + 1
      /\ q1[k][n + 1] = t
      /\ \A i \in 1 .. n : q1[k][i] = q[k][i]
      /\ \A l \in Queues : l # k => q1[l] = q[l]
  BY <1>2 DEF QueueType
<1>4. \A l \in Queues : \A i \in 1 .. Len(q[l]) : q[l][i] # t /\ q[l][i] \in Tasks
  BY <1>2 DEF QueuesMatch, QueuedAreReady
<1>5. \A l \in Queues : \A i \in 1 .. Len(q1[l]) :
         \/ l = k /\ i = n + 1 /\ q1[l][i] = t
         \/ i \in 1 .. Len(q[l]) /\ q1[l][i] = q[l][i]
  BY <1>2, <1>3
<1>6. QueuedAreReady(st1, q1)
  <2> SUFFICES ASSUME NEW l \in Queues, NEW i \in 1 .. Len(q1[l])
               PROVE  st1[q1[l][i]] = "ready"
    BY DEF QueuedAreReady
  <2> QED BY <1>4, <1>5 DEF QueuesMatch, QueuedAreReady, StateType
<1>7. ReadyAreQueued(st1, q1)
  <2> SUFFICES ASSUME NEW u \in Tasks, st1[u] = "ready"
               PROVE  \E l \in Queues : \E i \in 1 .. Len(q1[l]) : q1[l][i] = u
    BY DEF ReadyAreQueued
  <2>1. CASE u = t
    BY <2>1, <1>2, <1>3
  <2>2. CASE u # t
    <3>0. PICK l \in Queues : \E i \in 1 .. Len(q[l]) : q[l][i] = u
      BY <2>2 DEF QueuesMatch, ReadyAreQueued, StateType
    <3>1. PICK i \in 1 .. Len(q[l]) : q[l][i] = u
      BY <3>0
    <3>2. i \in 1 .. Len(q1[l]) /\ q1[l][i] = u
      BY <3>1, <1>2, <1>3
    <3> QED BY <3>2
  <2> QED BY <2>1, <2>2
<1>8. QueuedOnce(q1)
  <2> SUFFICES ASSUME NEW l \in Queues, NEW m \in Queues,
                      NEW i \in 1 .. Len(q1[l]), NEW j \in 1 .. Len(q1[m]),
                      q1[l][i] = q1[m][j]
               PROVE  l = m /\ i = j
    BY DEF QueuedOnce
  <2> QED BY <1>4, <1>5 DEF QueuesMatch, QueuedOnce
<1> QED BY <1>1, <1>6, <1>7, <1>8 DEF QueuesMatch

\* Taking the first task of a queue, and calling it something else.
LEMMA PopMatch ==
  ASSUME NEW st, NEW q, StateType(st), QueueType(q), QueuesMatch(st, q),
         NEW k \in Queues, q[k] # << >>, NEW s \in States \ {"ready"}
  PROVE  LET st1 == [st EXCEPT ![Head(q[k])] = s]
             q1 == [q EXCEPT ![k] = Tail(@)]
         IN  /\ StateType(st1) /\ QueueType(q1) /\ QueuesMatch(st1, q1)
             /\ Head(q[k]) \in Tasks /\ st[Head(q[k])] = "ready"
<1> DEFINE t == Head(q[k])
           st1 == [st EXCEPT ![t] = s]
           q1 == [q EXCEPT ![k] = Tail(@)]
           n == Len(q[k])
<1>1. \A l \in Queues : q[l] \in Seq(Tasks) /\ Len(q[l]) \in Nat
  BY DEF QueueType
<1>2. n >= 1 /\ t = q[k][1] /\ t \in Tasks
  BY <1>1
<1>3. st[t] = "ready"
  BY <1>1, <1>2 DEF QueuesMatch, QueuedAreReady
<1>4. /\ q1[k] \in Seq(Tasks)
      /\ Len(q1[k]) = n - 1
      /\ \A i \in 1 .. n - 1 : q1[k][i] = q[k][i + 1]
      /\ \A l \in Queues : l # k => q1[l] = q[l]
  BY <1>1, <1>2 DEF QueueType
<1>5. StateType(st1) /\ QueueType(q1)
  BY <1>4 DEF StateType, QueueType
<1>6. \A l \in Queues : \A i \in 1 .. Len(q1[l]) :
         LET j == IF l = k THEN i + 1 ELSE i
         IN  j \in 1 .. Len(q[l]) /\ q1[l][i] = q[l][j]
  BY <1>1, <1>2, <1>4
<1>7. \A l \in Queues : \A i \in 1 .. Len(q1[l]) : q1[l][i] \in Tasks \ {t}
  <2> SUFFICES ASSUME NEW l \in Queues, NEW i \in 1 .. Len(q1[l])
               PROVE  q1[l][i] \in Tasks \ {t}
    OBVIOUS
  <2> DEFINE j == IF l = k THEN i + 1 ELSE i
  <2>1. j \in 1 .. Len(q[l]) /\ q1[l][i] = q[l][j]
    BY <1>6
  <2>2. l = k => j # 1
    BY <1>4
  <2>3. q[l][j] # q[k][1]
    BY <2>1, <2>2, <1>1, <1>2 DEF QueuesMatch, QueuedOnce
  <2> QED BY <1>1, <1>2, <2>1, <2>3
<1>8. QueuedAreReady(st1, q1)
  <2> SUFFICES ASSUME NEW l \in Queues, NEW i \in 1 .. Len(q1[l])
               PROVE  st1[q1[l][i]] = "ready"
    BY DEF QueuedAreReady
  <2>1. st[q1[l][i]] = "ready"
    BY <1>6 DEF QueuesMatch, QueuedAreReady
  <2> QED BY <2>1, <1>7 DEF StateType
<1>9. ReadyAreQueued(st1, q1)
  <2> SUFFICES ASSUME NEW u \in Tasks, st1[u] = "ready"
               PROVE  \E l \in Queues : \E i \in 1 .. Len(q1[l]) : q1[l][i] = u
    BY DEF ReadyAreQueued
  <2>1. u # t /\ st[u] = "ready"
    BY DEF StateType
  <2>0. PICK l \in Queues : \E i \in 1 .. Len(q[l]) : q[l][i] = u
    BY <2>1 DEF QueuesMatch, ReadyAreQueued
  <2>2. PICK i \in 1 .. Len(q[l]) : q[l][i] = u
    BY <2>0
  <2>3. CASE l = k
    <3>1. i # 1
      BY <2>1, <2>2, <2>3, <1>2
    <3>2. i - 1 \in 1 .. Len(q1[l]) /\ q1[l][i - 1] = u
      BY <3>1, <2>2, <2>3, <1>1, <1>4
    <3> QED BY <3>2
  <2>4. CASE l # k
    BY <2>2, <2>4, <1>4
  <2> QED BY <2>3, <2>4
<1>10. QueuedOnce(q1)
  <2> SUFFICES ASSUME NEW l \in Queues, NEW m \in Queues,
                      NEW i \in 1 .. Len(q1[l]), NEW j \in 1 .. Len(q1[m]),
                      q1[l][i] = q1[m][j]
               PROVE  l = m /\ i = j
    BY DEF QueuedOnce
  <2> DEFINE ii == IF l = k THEN i + 1 ELSE i
             jj == IF m = k THEN j + 1 ELSE j
  <2>1. /\ ii \in 1 .. Len(q[l]) /\ q1[l][i] = q[l][ii]
        /\ jj \in 1 .. Len(q[m]) /\ q1[m][j] = q[m][jj]
    BY <1>6
  <2>2. l = m /\ ii = jj
    BY <2>1 DEF QueuesMatch, QueuedOnce
  <2> QED BY <2>2
<1> QED BY <1>2, <1>3, <1>5, <1>8, <1>9, <1>10 DEF QueuesMatch

\* A change between two states other than ready is no business of the queues.
LEMMA UnqueuedMatch ==
  ASSUME NEW st, NEW q, StateType(st), QueueType(q), QueuesMatch(st, q),
         NEW t \in Tasks, st[t] # "ready", NEW s \in States \ {"ready"}
  PROVE  LET st1 == [st EXCEPT ![t] = s]
         IN  StateType(st1) /\ QueuesMatch(st1, q)
<1> DEFINE st1 == [st EXCEPT ![t] = s]
<1>1. StateType(st1)
  BY DEF StateType
<1>2. \A u \in Tasks : st1[u] = "ready" <=> st[u] = "ready"
  BY DEF StateType
<1>3. \A l \in Queues : \A i \in 1 .. Len(q[l]) : q[l][i] \in Tasks
  BY DEF QueueType
<1> QED
  BY <1>1, <1>2, <1>3 DEF QueuesMatch, QueuedAreReady, ReadyAreQueued
-----------------------------------------------------------------------------
\* With nothing to steal, the next task comes from worker 0 or the global
\* queue, and none is found only if none is queued.
LEMMA SourceFinds ==
  ASSUME worker = 0, NEW q, QueueType(q), OthersEmpty(q)
  PROVE  /\ Source(q) \in {0, Global, NoQueue}
         /\ Source(q) # NoQueue => Source(q) \in Queues /\ q[Source(q)] # << >>
         /\ Source(q) = NoQueue => \A k \in Queues : q[k] = << >>
<1>1. 0 \in Queues /\ Global \in Queues /\ NoQueue \notin Queues /\ Global # 0
  BY SchedulerAssumption DEF Queues, Global, NoQueue
<1>2. Stealable(q) = {}
  <2>1. \A r \in 1 .. NWorkers - 1 : Victim(r) \in Workers \ {0}
    BY SchedulerAssumption DEF Victim, Workers
  <2> QED BY <2>1 DEF Stealable, OthersEmpty
<1>3. \A k \in Queues : k = 0 \/ k = Global \/ k \in Workers \ {0}
  BY SchedulerAssumption DEF Queues, Global, Workers
<1> QED BY <1>1, <1>2, <1>3 DEF Source, OthersEmpty

\* Of the tasks, only the current one may be running or may look free while
\* it runs (the main task before its first yield).  The main task never
\* reaches __task_exit, so no join can free its slot.
RunsAlone(st) ==
  /\ \A t \in Tasks \ {current} : st[t] # "running"
  /\ st[current] = "free" => current = Main
  /\ st[Main] = "free" => current = Main
  /\ st[Main] # "done"

\* __task_yield keeps queues and states matched and leaves one task running,
\* whatever the caller has done to its own state before.
LEMMA YieldKeeps ==
  ASSUME TypeOK, worker = 0, halt = "none",
         NEW st, NEW q, StateType(st), QueueType(q), QueuesMatch(st, q),
         OthersEmpty(q), RunsAlone(st), st[current] # "ready",
         YieldFrom(st, q)
  PROVE  /\ StateType(state') /\ QueueType(queue') /\ current' \in Tasks
         /\ worker' = 0 /\ halt' \in Outcomes \ {"overflow"}
         /\ QueuesMatch(state', queue') /\ OthersEmpty(queue')
         /\ OneRunning' /\ state'[Main] # "done"
         /\ halt' = "deadlock" => \A t \in Tasks : state'[t] \notin {"ready", "running"}
         /\ \A t \in Tasks : state'[t] = "blocked" <=> st[t] = "blocked"
         /\ \A t \in Tasks : st[t] \in {"ready", "running"} => state'[t] \in {"ready", "running"}
<1> DEFINE entry  == EntryState(st)
           active == entry = "running"
           st1    == IF active THEN [st EXCEPT ![current] = "ready"] ELSE st
           q1     == IF active THEN Push(q, Target(q), current) ELSE q
           src    == Source(q1)
           next   == Head(q1[src])
<1>1. current \in Tasks /\ Main \in Tasks /\ st[current] \in States
  BY SchedulerAssumption DEF TypeOK, StateType, Tasks, Main
<1>2. 0 \in Queues /\ Global \in Queues /\ Global # 0 /\ NoQueue \notin Queues
      /\ Global \notin Workers
  BY SchedulerAssumption DEF Queues, Global, NoQueue, Workers
<1>3. active => Target(q) \in {0, Global}
  <2>1. Len(q[Global]) < NTasks /\ Len(q[Global]) \in Nat
    BY <1>1, <1>2, RoomInQueue DEF QueueType
  <2> QED BY <2>1, SchedulerAssumption DEF Target
<1>4. StateType(st1) /\ QueueType(q1) /\ QueuesMatch(st1, q1)
  <2>1. CASE active
    <3>1. q1 = [q EXCEPT ![Target(q)] = Append(@, current)]
      BY <2>1, <1>2, <1>3 DEF Push
    <3>2. st1 = [st EXCEPT ![current] = "ready"]
      BY <2>1
    <3>3. Target(q) \in Queues /\ st[current] # "ready"
      BY <2>1, <1>2, <1>3
    <3> HIDE DEF st1, q1
    <3> QED BY <3>1, <3>2, <3>3, <1>1, PushMatch
  <2>2. CASE ~active
    BY <2>2
  <2> QED BY <2>1, <2>2
<1>5. OthersEmpty(q1)
  BY <1>2, <1>3 DEF OthersEmpty, Push, QueueType, Queues, Workers
<1>6. /\ src \in {0, Global, NoQueue}
      /\ src # NoQueue => src \in Queues /\ q1[src] # << >>
      /\ src = NoQueue => \A k \in Queues : q1[k] = << >>
  BY <1>4, <1>5, SourceFinds
<1>7. CASE src # NoQueue
  <2>1. /\ state' = [st1 EXCEPT ![next] = "running"]
        /\ current' = next
        /\ worker' = WorkerAfter(src)
        /\ queue' = [q1 EXCEPT ![src] = Tail(@)]
        /\ halt' = "none"
    BY <1>7 DEF YieldFrom
  <2>2. /\ StateType(state') /\ QueueType(queue') /\ QueuesMatch(state', queue')
        /\ next \in Tasks /\ st1[next] = "ready"
    <3> "running" \in States \ {"ready"}
      BY DEF States
    <3> HIDE DEF st1, q1, src
    <3> QED BY <1>4, <1>6, <1>7, <2>1, PopMatch
  <2>3. worker' = 0
    BY <1>2, <1>6, <1>7, <2>1 DEF WorkerAfter
  <2>4. OthersEmpty(queue')
    BY <1>2, <1>4, <1>5, <1>6, <1>7, <2>1 DEF OthersEmpty, QueueType, Queues, Workers, Global
  <2>5. \A t \in Tasks : st1[t] # "running"
    BY <1>1 DEF StateType, RunsAlone, EntryState
  <2>6. st1[Main] # "free"
    BY <1>1 DEF StateType, RunsAlone, EntryState
  <2>7. OneRunning'
    BY <1>1, <1>4, <2>1, <2>2, <2>5, <2>6 DEF OneRunning, StateType
  <2>8. state'[Main] # "done"
    BY <1>1, <1>4, <2>1, <2>2 DEF StateType, RunsAlone
  <2>9. \A t \in Tasks : st1[t] = "blocked" <=> st[t] = "blocked"
    BY <1>1 DEF StateType, EntryState
  <2>10. \A t \in Tasks : st[t] \in {"ready", "running"} => st1[t] \in {"ready", "running"}
    BY <1>1 DEF StateType
  <2>11. \A t \in Tasks : state'[t] = IF t = next THEN "running" ELSE st1[t]
    BY <1>4, <2>1, <2>2 DEF StateType
  <2> QED
    <3> HIDE DEF st1, next
    <3> QED BY <2>1, <2>2, <2>3, <2>4, <2>7, <2>8, <2>9, <2>10, <2>11 DEF Outcomes
<1>8. CASE src = NoQueue
  <2>1. ~active
    <3>1. SUFFICES ASSUME active PROVE FALSE
      OBVIOUS
    <3>2. st1[current] = "ready"
      BY <3>1, <1>1 DEF StateType
    <3>3. \E k \in Queues : \E i \in 1 .. Len(q1[k]) : q1[k][i] = current
      BY <3>2, <1>1, <1>4 DEF QueuesMatch, ReadyAreQueued
    <3> QED BY <3>3, <1>6, <1>8
  <2>2. /\ state' = st /\ queue' = q /\ current' = current /\ worker' = worker
        /\ halt' = IF entry = "blocked" THEN "deadlock"
                   ELSE IF entry = "done" THEN "exit" ELSE "none"
    BY <1>8, <2>1 DEF YieldFrom
  <2>3. entry \in {"blocked", "done"}
    BY <1>1, <2>1 DEF EntryState, States
  <2>4. OneRunning'
    BY <2>2, <2>3 DEF OneRunning
  <2>5. \A t \in Tasks : st[t] \notin {"ready", "running"}
    <3>1. \A t \in Tasks : st[t] # "ready"
      BY <1>4, <1>6, <1>8, <2>1 DEF QueuesMatch, ReadyAreQueued
    <3>2. \A t \in Tasks : st[t] # "running"
      BY <2>1 DEF RunsAlone, EntryState
    <3> QED BY <3>1, <3>2
  <2> QED BY <1>1, <2>2, <2>3, <2>4, <2>5 DEF Outcomes, RunsAlone
<1> QED BY <1>7, <1>8
-----------------------------------------------------------------------------
\* The deadlock trap tells the truth about the scheduler: nobody could run.
NobodyRunnable ==
  halt = "deadlock" => \A t \in Tasks : state[t] \notin {"ready", "running"}

MainNeverDone == state[Main] # "done"

\* The inductive invariant.
SchedInv ==
  /\ TypeOK
  /\ OneRunning
  /\ ReadyQueuesExact
  /\ OnlyWorkerZero
  /\ NoOverflow
  /\ NobodyRunnable
  /\ MainNeverDone

\* Main runs and all queues are empty.
\* Main runs and all queues are empty.
LEMMA InitSchedInv == Init => SchedInv
<1> SUFFICES ASSUME Init PROVE SchedInv
  OBVIOUS
<1>1. TypeOK
  BY SchedulerAssumption
  DEF Init, TypeOK, Tasks, Main, Workers, Queues, States, Outcomes, Handles, NoHandle
<1>2. ReadyQueuesExact
  BY DEF Init, ReadyQueuesExact, QueuesMatch, QueuedAreReady, ReadyAreQueued, QueuedOnce
<1>3. OneRunning /\ NoOverflow /\ NobodyRunnable /\ MainNeverDone
  BY SchedulerAssumption
  DEF Init, OneRunning, NoOverflow, NobodyRunnable, MainNeverDone, Tasks, Main
<1>4. OnlyWorkerZero
  BY SchedulerAssumption DEF Init, OnlyWorkerZero, OthersEmpty, Workers, Queues
<1> QED BY <1>1, <1>2, <1>3, <1>4 DEF SchedInv

\* What a running machine's state offers to YieldKeeps.
LEMMA RunningFacts ==
  ASSUME SchedInv, halt = "none"
  PROVE  /\ StateType(state) /\ QueueType(queue) /\ QueuesMatch(state, queue)
         /\ OthersEmpty(queue) /\ RunsAlone(state) /\ worker = 0
         /\ state[current] \in {"free", "running"} /\ current \in Tasks
BY DEF SchedInv, TypeOK, StateType, QueueType, ReadyQueuesExact, OnlyWorkerZero,
       OneRunning, RunsAlone, MainNeverDone

\* A yield by a task that has not touched its state, or has set it to done
\* or blocked, keeps the invariant.
LEMMA YieldSchedInv ==
  ASSUME SchedInv, halt = "none",
         NEW s \in {"done", "blocked"},
         \/ YieldFrom(state, queue)
         \/ YieldFrom([state EXCEPT ![current] = s], queue),
         s = "done" => current # Main,
         joining' \in [Tasks -> Handles], inc' \in [Tasks -> Nat],
         spent' \subseteq Handles
  PROVE  SchedInv'
<1>1. PICK st : /\ StateType(st) /\ QueuesMatch(st, queue) /\ RunsAlone(st)
                /\ st[current] # "ready" /\ YieldFrom(st, queue)
  <2>1. CASE YieldFrom(state, queue)
    BY <2>1, RunningFacts
  <2>2. CASE YieldFrom([state EXCEPT ![current] = s], queue)
    <3> DEFINE st1 == [state EXCEPT ![current] = s]
    <3>1. StateType(st1) /\ QueuesMatch(st1, queue)
      <4> s \in States \ {"ready"}
        BY DEF States
      <4> QED BY RunningFacts, UnqueuedMatch
    <3>2. RunsAlone(st1) /\ st1[current] # "ready"
      BY RunningFacts, SchedulerAssumption DEF RunsAlone, StateType, Tasks, Main
    <3> QED BY <2>2, <3>1, <3>2
  <2> QED BY <2>1, <2>2
<1>2. /\ StateType(state') /\ QueueType(queue') /\ current' \in Tasks
      /\ worker' = 0 /\ halt' \in Outcomes \ {"overflow"}
      /\ QueuesMatch(state', queue') /\ OthersEmpty(queue')
      /\ OneRunning' /\ state'[Main] # "done"
      /\ halt' = "deadlock" => \A t \in Tasks : state'[t] \notin {"ready", "running"}
  BY <1>1, RunningFacts, YieldKeeps DEF SchedInv
<1>3. TypeOK'
  BY <1>2, SchedulerAssumption DEF TypeOK, StateType, QueueType, Workers
<1> QED
  BY <1>2, <1>3 DEF SchedInv, ReadyQueuesExact, OnlyWorkerZero, NoOverflow,
                    NobodyRunnable, MainNeverDone, QueuesMatch, QueuedAreReady, ReadyAreQueued,
                    QueuedOnce, OthersEmpty

\* Every step of the scheduler keeps the invariant.
LEMMA SchedStepInv == SchedInv /\ SchedStep => SchedInv'
<1> SUFFICES ASSUME SchedInv, SchedStep PROVE SchedInv'
  OBVIOUS
<1>0. TypeOK /\ NoHandle \in Handles
  BY SchedulerAssumption DEF SchedInv, Handles, NoHandle, Tasks, Main
<1>1. CASE Spawn
  <2>1. PICK s \in FreeSlots :
          /\ halt = "none"
          /\ Target(queue) # NoQueue
          /\ state' = [state EXCEPT ![s] = "ready"]
          /\ queue' = Push(queue, Target(queue), s)
          /\ inc' = [inc EXCEPT ![s] = @ + 1]
          /\ UNCHANGED <<current, worker, halt, joining, spent>>
    BY <1>1 DEF Spawn, InUserCode
  <2>2. s \in Tasks /\ s # Main /\ state[s] = "free" /\ s # current
    BY <2>1, RunningFacts DEF FreeSlots, RunsAlone
  <2>3. Target(queue) \in {0, Global} /\ Target(queue) \in Queues
    BY <2>1, RunningFacts, SchedulerAssumption DEF Target, Queues, Global
  <2>4. queue' = [queue EXCEPT ![Target(queue)] = Append(@, s)]
    BY <2>1 DEF Push
  <2>5. StateType(state') /\ QueueType(queue') /\ QueuesMatch(state', queue')
    <3>1. StateType(state) /\ QueueType(queue) /\ QueuesMatch(state, queue)
      BY <2>1, RunningFacts
    <3>2. state' = [state EXCEPT ![s] = "ready"]
      BY <2>1
    <3>3. state[s] # "ready"
      BY <2>2
    <3> QED BY <2>2, <2>3, <2>4, <3>1, <3>2, <3>3, PushMatch
  <2>6. OthersEmpty(queue')
    BY <2>1, <2>3, <2>4, RunningFacts, SchedulerAssumption
    DEF OthersEmpty, QueueType, Queues, Workers, Global
  <2>7. OneRunning'
    BY <2>1, <2>2, RunningFacts DEF SchedInv, OneRunning, StateType
  <2>8. TypeOK'
    BY <1>0, <2>1, <2>2, <2>5 DEF TypeOK, StateType, QueueType
  <2> QED
    BY <2>1, <2>5, <2>6, <2>7, <2>8
    DEF SchedInv, ReadyQueuesExact, OnlyWorkerZero, NoOverflow, NobodyRunnable, MainNeverDone,
        QueuesMatch, QueuedAreReady, ReadyAreQueued, QueuedOnce, OthersEmpty
<1>2. ASSUME NEW code \in {"unreachable", "exit"}, Trap(code) PROVE SchedInv'
  BY <1>2
  DEF Trap, SchedInv, TypeOK, Outcomes, OneRunning, ReadyQueuesExact, OnlyWorkerZero,
      NoOverflow, NobodyRunnable, MainNeverDone, QueuesMatch, QueuedAreReady, ReadyAreQueued,
      QueuedOnce, OthersEmpty
<1>3. CASE SpawnFail \/ JoinInvalid \/ MainReturn
  BY <1>2, <1>3 DEF SpawnFail, JoinInvalid, MainReturn
<1>4. CASE Yield
  BY <1>0, <1>4, YieldSchedInv DEF Yield, InUserCode, TypeOK
<1>5. CASE Exit
  BY <1>0, <1>5, YieldSchedInv DEF Exit, InUserCode, TypeOK
<1>6. ASSUME NEW h \in Handles, JoinRound(h), halt = "none",
             spent' \subseteq Handles
      PROVE  SchedInv'
  <2>1. h.slot \in Tasks /\ current \in Tasks
    BY <1>0, <1>6 DEF Handles, TypeOK
  <2>2. CASE state[h.slot] = "done"
    <3>1. /\ state' = [state EXCEPT ![h.slot] = "free"]
          /\ joining' = [joining EXCEPT ![current] = NoHandle]
          /\ UNCHANGED <<current, worker, queue, halt, inc>>
      BY <1>6, <2>2 DEF JoinRound
    <3>2. "free" \in States \ {"ready"}
      BY DEF States
    <3>3. StateType(state') /\ QueuesMatch(state', queue)
      BY <1>6, <2>1, <2>2, <3>1, <3>2, RunningFacts, UnqueuedMatch
    <3>4. h.slot # current
      BY <1>6, <2>2, RunningFacts
    <3>5. OneRunning'
      <4>1. state[Main] # "done"
        BY DEF SchedInv, MainNeverDone
      <4> QED BY <1>6, <2>1, <2>2, <3>1, <3>4, <4>1, RunningFacts
              DEF OneRunning, SchedInv, StateType
    <3>6. TypeOK'
      BY <1>0, <1>6, <2>1, <3>1, <3>3 DEF TypeOK, StateType
    <3> QED
      BY <1>6, <3>1, <3>3, <3>5, <3>6
      DEF SchedInv, ReadyQueuesExact, OnlyWorkerZero, NoOverflow, NobodyRunnable, MainNeverDone,
          QueuesMatch, QueuedAreReady, ReadyAreQueued, QueuedOnce, OthersEmpty
  <2>3. CASE state[h.slot] # "done"
    <3>1. YieldFrom(state, queue) /\ joining' \in [Tasks -> Handles] /\ inc' = inc
      BY <1>0, <1>6, <2>1, <2>3 DEF JoinRound, TypeOK
    <3> QED BY <1>0, <1>6, <3>1, YieldSchedInv DEF TypeOK
  <2> QED BY <2>2, <2>3
<1>7. ASSUME NEW h \in Issued, Join(h) PROVE SchedInv'
  <2>1. h \in Handles
    BY SchedulerAssumption DEF Issued, Handles
  <2> QED BY <1>0, <1>6, <1>7, <2>1 DEF Join, InUserCode, TypeOK
<1>8. CASE JoinAgain
  BY <1>0, <1>6, <1>8 DEF JoinAgain, TypeOK
<1> QED
  BY <1>1, <1>3, <1>4, <1>5, <1>7, <1>8 DEF SchedStep

\* The invariant speaks of the scheduler only.
\* The invariant speaks of the scheduler only.
LEMMA SchedStutter == SchedInv /\ UNCHANGED schedVars => SchedInv'
BY DEF schedVars, SchedInv, TypeOK, OneRunning, ReadyQueuesExact, OnlyWorkerZero,
       NoOverflow, NobodyRunnable, MainNeverDone, QueuesMatch, QueuedAreReady,
       ReadyAreQueued, QueuedOnce, OthersEmpty

\* The inductive invariant holds in every reachable state.
THEOREM SchedulerInvariant == Spec => []SchedInv
<1>1. Init => SchedInv
  BY InitSchedInv
<1>2. SchedInv /\ [Next]_schedVars => SchedInv'
  BY SchedStepInv, SchedStutter DEF Next, Stopped
<1> QED BY <1>1, <1>2, PTL DEF Spec

\* The variables of the scheduler keep their types.
THEOREM SchedulerTypeOK == Spec => []TypeOK
<1>1. SchedInv => TypeOK
  BY DEF SchedInv
<1> QED BY <1>1, SchedulerInvariant, PTL

\* A task is ready exactly when one ready queue holds it, once: no enqueue is
\* dropped and nothing that cannot run is ever switched to.
THEOREM ReadyQueuesAreExact == Spec => []ReadyQueuesExact
<1>1. SchedInv => ReadyQueuesExact
  BY DEF SchedInv
<1> QED BY <1>1, SchedulerInvariant, PTL

\* One task runs at a time, and only the first yield of main meets state 0.
THEOREM OneTaskRuns == Spec => []OneRunning
<1>1. SchedInv => OneRunning
  BY DEF SchedInv
<1> QED BY <1>1, SchedulerInvariant, PTL

\* Stealing is dead code: the other workers' queues are never filled.
THEOREM WorkStealingIsIdle == Spec => []OnlyWorkerZero
<1>1. SchedInv => OnlyWorkerZero
  BY DEF SchedInv
<1> QED BY <1>1, SchedulerInvariant, PTL
\* TASK_QUEUE_OVERFLOW (24) is never raised: the global ring has an entry for
\* every task slot, and no task is queued twice.
THEOREM QueuesNeverOverflow == Spec => []NoOverflow
<1>1. SchedInv => NoOverflow
  BY DEF SchedInv
<1> QED BY <1>1, SchedulerInvariant, PTL
-----------------------------------------------------------------------------
\* A yield neither frees a slot nor finishes a task.
LEMMA YieldFreesNothing ==
  ASSUME NEW st, NEW q, StateType(st), current \in Tasks, YieldFrom(st, q)
  PROVE  \A t \in Tasks : state'[t] = "free" => st[t] = "free"
BY DEF YieldFrom, StateType, States, EntryState

\* A task inside a join waits for the present tenant of a slot that is not
\* free, and nobody else waits through the same handle.
JoinsAreOwn ==
  /\ inc[Main] = 0
  /\ \A t \in Tasks : joining[t] # NoHandle =>
       /\ joining[t] \in Issued \cap spent
       /\ joining[t].inc = inc[joining[t].slot]
       /\ state[joining[t].slot] # "free"
       /\ \A u \in Tasks : joining[u] = joining[t] => u = t

\* What makes FreedByOwnHandle inductive when every handle is joined once.
HandleInv == FreedByOwnHandle /\ JoinsAreOwn

\* No handle has been given out.
\* No handle has been given out.
LEMMA InitHandleInv == Init => HandleInv
BY SchedulerAssumption
DEF Init, HandleInv, FreedByOwnHandle, JoinsAreOwn, Issued, Tasks, Main

\* A step that leaves handles and joins alone and frees no slot.
LEMMA HandlesUntouched ==
  ASSUME HandleInv, UNCHANGED <<joining, inc, spent>>,
         \A t \in Tasks : state'[t] = "free" => state[t] = "free"
  PROVE  HandleInv'
<1>1. Issued' = Issued
  BY DEF Issued
<1>2. \A h \in Issued : h.slot \in Tasks
  BY DEF Issued
<1> QED BY <1>1, <1>2 DEF HandleInv, FreedByOwnHandle, JoinsAreOwn

\* A step of the scheduler frees a slot through its own handle only.
\* A step of the scheduler frees a slot through its own handle only.
LEMMA HandleStep ==
  ASSUME CopyHandles = FALSE, SchedInv, HandleInv, SchedStep
  PROVE  HandleInv'
<1>0. /\ TypeOK /\ current \in Tasks /\ Main \in Tasks /\ StateType(state)
      /\ NoHandle \notin Issued
  BY SchedulerAssumption
  DEF SchedInv, TypeOK, StateType, Tasks, Main, Issued, NoHandle
<1>1. CASE Spawn
  <2>1. PICK s \in FreeSlots :
          /\ inc[s] < MaxSpawns
          /\ state' = [state EXCEPT ![s] = "ready"]
          /\ inc' = [inc EXCEPT ![s] = @ + 1]
          /\ UNCHANGED <<joining, spent>>
    BY <1>1 DEF Spawn
  <2>2. s \in Tasks /\ s # Main /\ state[s] = "free" /\ inc[s] \in Nat
    BY <1>0, <2>1 DEF FreeSlots, TypeOK
  <2>3. \A h \in Issued' : h \in Issued \/ (h.slot = s /\ h.inc = inc[s] + 1)
    BY <1>0, <2>1, <2>2, SchedulerAssumption DEF Issued, TypeOK
  <2>4. Issued \subseteq Issued' /\ \A h \in Issued : h.slot \in Tasks /\ h.inc \in Nat
    BY <1>0, <2>1, <2>2, SchedulerAssumption DEF Issued, TypeOK
  <2>5. FreedByOwnHandle'
    <3> SUFFICES ASSUME NEW h \in Issued', (inc[h.slot] > h.inc \/ state[h.slot] = "free")'
                 PROVE  h \in spent'
      BY DEF FreedByOwnHandle
    <3>1. CASE h \in Issued
      BY <1>0, <2>1, <2>2, <2>4, <3>1 DEF HandleInv, FreedByOwnHandle, TypeOK, StateType
    <3>2. CASE h.slot = s /\ h.inc = inc[s] + 1
      BY <1>0, <2>1, <2>2, <3>2 DEF TypeOK, StateType
    <3> QED BY <2>3, <3>1, <3>2
  <2>6. JoinsAreOwn'
    <3>1. inc'[Main] = 0
      BY <1>0, <2>1, <2>2 DEF HandleInv, JoinsAreOwn, TypeOK
    <3>2. ASSUME NEW t \in Tasks, joining[t] # NoHandle
          PROVE  joining[t].slot \in Tasks /\ joining[t].slot # s /\ joining[t] \in Issued
      BY <2>2, <2>4, <3>2 DEF HandleInv, JoinsAreOwn
    <3> QED BY <1>0, <2>1, <2>4, <3>1, <3>2 DEF HandleInv, JoinsAreOwn, TypeOK, StateType
  <2> QED BY <2>5, <2>6 DEF HandleInv
<1>2. CASE SpawnFail \/ JoinInvalid \/ MainReturn
  BY <1>2, HandlesUntouched DEF SpawnFail, JoinInvalid, MainReturn, Trap
<1>3. CASE Yield
  BY <1>0, <1>3, YieldFreesNothing, HandlesUntouched DEF Yield
<1>4. CASE Exit
  <2> DEFINE st == [state EXCEPT ![current] = "done"]
  <2>1. StateType(st) /\ YieldFrom(st, queue) /\ UNCHANGED <<joining, inc, spent>>
    BY <1>0, <1>4 DEF Exit, StateType, States
  <2>2. \A t \in Tasks : state'[t] = "free" => st[t] = "free"
    <3> HIDE DEF st
    <3> QED BY <1>0, <2>1, YieldFreesNothing
  <2>3. \A t \in Tasks : state'[t] = "free" => state[t] = "free"
    BY <1>0, <2>2 DEF StateType
  <2> QED BY <2>1, <2>3, HandlesUntouched
<1>5. ASSUME NEW h \in Issued, JoinRound(h), h.inc = inc[h.slot],
             state[h.slot] # "free", spent' = spent \cup {h},
             \A t \in Tasks : joining[t] = h => t = current,
             joining[current] \in {NoHandle, h}
      PROVE  HandleInv'
  <2>1. h.slot \in Tasks /\ h # NoHandle
    BY <1>0, <1>5 DEF Issued
  <2>2. CASE state[h.slot] = "done"
    <3>1. /\ state' = [state EXCEPT ![h.slot] = "free"]
          /\ joining' = [joining EXCEPT ![current] = NoHandle]
          /\ UNCHANGED inc
      BY <1>5, <2>2 DEF JoinRound
    <3>2. Issued' = Issued /\ \A g \in Issued : g.slot \in Tasks /\ g.inc \in Nat /\ inc[g.slot] \in Nat
                                                /\ g = [slot |-> g.slot, inc |-> g.inc]
      BY <1>0, <3>1, SchedulerAssumption DEF Issued, TypeOK
    <3>3. FreedByOwnHandle'
      <4> SUFFICES ASSUME NEW g \in Issued, inc[g.slot] > g.inc \/ state'[g.slot] = "free"
                   PROVE  g \in spent'
        BY <3>1, <3>2 DEF FreedByOwnHandle
      <4>1. CASE g.slot = h.slot
        <5>1. g.inc <= inc[g.slot]
          BY DEF Issued
        <5>2. CASE g.inc = inc[g.slot]
          BY <1>5, <3>2, <4>1, <5>2
        <5>3. CASE g.inc < inc[g.slot]
          BY <1>5, <3>2, <5>3 DEF HandleInv, FreedByOwnHandle
        <5> QED BY <3>2, <5>1, <5>2, <5>3
      <4>2. CASE g.slot # h.slot
        BY <1>0, <1>5, <2>1, <3>1, <3>2, <4>2 DEF HandleInv, FreedByOwnHandle, StateType
      <4> QED BY <4>1, <4>2
    <3>4. JoinsAreOwn'
      <4> SUFFICES ASSUME NEW t \in Tasks, joining'[t] # NoHandle
                   PROVE  /\ joining'[t] \in Issued \cap spent'
                          /\ joining'[t].inc = inc[joining'[t].slot]
                          /\ state'[joining'[t].slot] # "free"
                          /\ \A u \in Tasks : joining'[u] = joining'[t] => u = t
        BY <3>1, <3>2 DEF JoinsAreOwn, HandleInv
      <4>1. t # current /\ joining'[t] = joining[t] /\ joining[t] \in Issued
        BY <1>0, <3>1 DEF TypeOK, HandleInv, JoinsAreOwn
      <4>2. joining[t].slot # h.slot
        BY <1>5, <3>2, <4>1 DEF HandleInv, JoinsAreOwn
      <4> QED BY <1>0, <1>5, <2>1, <3>1, <3>2, <4>1, <4>2 DEF HandleInv, JoinsAreOwn, StateType, TypeOK
    <3> QED BY <3>3, <3>4 DEF HandleInv
  <2>3. CASE state[h.slot] # "done"
    <3>1. /\ YieldFrom(state, queue)
          /\ joining' = [joining EXCEPT ![current] = h]
          /\ UNCHANGED inc
      BY <1>5, <2>3 DEF JoinRound
    <3>2. Issued' = Issued /\ \A g \in Issued : g.slot \in Tasks
      BY <3>1 DEF Issued
    <3>3. \A t \in Tasks : state'[t] = "free" => state[t] = "free"
      BY <1>0, <3>1, YieldFreesNothing
    <3>4. FreedByOwnHandle'
      BY <1>5, <3>1, <3>2, <3>3 DEF HandleInv, FreedByOwnHandle
    <3>5. JoinsAreOwn'
      BY <1>0, <1>5, <3>1, <3>2, <3>3 DEF HandleInv, JoinsAreOwn, TypeOK
    <3> QED BY <3>4, <3>5 DEF HandleInv
  <2> QED BY <2>2, <2>3
<1>6. ASSUME NEW h \in Issued, Join(h) PROVE HandleInv'
  <2>1. h \notin spent /\ JoinRound(h) /\ spent' = spent \cup {h} /\ joining[current] = NoHandle
    BY <1>6 DEF Join, InUserCode
  <2>2. h.slot \in Tasks /\ h.inc <= inc[h.slot] /\ h.inc \in Nat /\ inc[h.slot] \in Nat
    BY <1>0, SchedulerAssumption DEF Issued, TypeOK
  <2>3. h.inc = inc[h.slot] /\ state[h.slot] # "free"
    BY <2>1, <2>2 DEF HandleInv, FreedByOwnHandle
  <2>4. \A t \in Tasks : joining[t] # h
    BY <1>0, <2>1 DEF HandleInv, JoinsAreOwn
  <2> QED BY <1>5, <2>1, <2>3, <2>4
<1>7. CASE JoinAgain
  <2> DEFINE h == joining[current]
  <2>1. h # NoHandle /\ JoinRound(h) /\ spent' = spent
    BY <1>7 DEF JoinAgain
  <2>2. /\ h \in Issued /\ h \in spent /\ h.inc = inc[h.slot] /\ state[h.slot] # "free"
        /\ \A t \in Tasks : joining[t] = h => t = current
    BY <1>0, <2>1 DEF HandleInv, JoinsAreOwn
  <2>3. spent' = spent \cup {h}
    BY <2>1, <2>2
  <2> HIDE DEF h
  <2>4. joining[current] \in {NoHandle, h}
    BY DEF h
  <2> QED BY <1>5, <2>1, <2>2, <2>3, <2>4
<1> QED
  BY <1>1, <1>2, <1>3, <1>4, <1>6, <1>7 DEF SchedStep

\* As long as every handle is joined at most once, a slot is freed for reuse
\* only through the handle of the task in it.
THEOREM StaleHandlesReapNothing ==
  CopyHandles = FALSE => (Spec => []FreedByOwnHandle)
<1> SUFFICES ASSUME CopyHandles = FALSE PROVE Spec => []FreedByOwnHandle
  OBVIOUS
<1>1. Init => HandleInv
  BY InitHandleInv
<1>2. SchedInv /\ HandleInv /\ [Next]_schedVars => HandleInv'
  <2>1. ASSUME HandleInv, UNCHANGED schedVars PROVE HandleInv'
    BY <2>1, HandlesUntouched DEF schedVars
  <2> QED BY <2>1, HandleStep DEF Next, Stopped
<1>3. HandleInv => FreedByOwnHandle
  BY DEF HandleInv
<1> QED BY <1>1, <1>2, <1>3, SchedulerInvariant, PTL DEF Spec
-----------------------------------------------------------------------------
(***************************************************************************)
(* The channels, on top of the scheduler's invariant.                      *)
(*                                                                         *)
(* A send and a receive are mirror images: each gives something to the     *)
(* other side of a channel, wakes a waiter of the other kind, and waits    *)
(* itself when its own side is exhausted.  The lemmas are therefore stated *)
(* for two kinds of operation K and L with their wait lists v and w, and   *)
(* used with the two kinds in either order.                                *)
(***************************************************************************)

Runnable == {"ready", "running"}
WaitType(w) == w \in [Chans -> Seq(Tasks)]
PendingType(pd) == pd \in [Tasks -> Sends \cup Recvs \cup {NoOp}]
Kinds(K, L) == (K = Sends /\ L = Recvs) \/ (K = Recvs /\ L = Sends)

\* Listed, OnList and BlockedIffWaiting for given states and operations.
ListedIn(st, pd, w, K) ==
  \A c \in Chans : \A i \in 1 .. Len(w[c]) :
    /\ st[w[c][i]] = "blocked"
    /\ pd[w[c][i]] \in K
    /\ pd[w[c][i]].chan = c
    /\ \A j \in 1 .. Len(w[c]) : w[c][i] = w[c][j] => i = j

OnListIn(pd, w, t) ==
  \E i \in 1 .. Len(w[pd[t].chan]) : w[pd[t].chan][i] = t

WaitsMatch(st, pd, v, K, w, L) ==
  /\ ListedIn(st, pd, v, K)
  /\ ListedIn(st, pd, w, L)
  /\ \A t \in Tasks : st[t] = "blocked" =>
       \/ pd[t] \in K /\ OnListIn(pd, v, t)
       \/ pd[t] \in L /\ OnListIn(pd, w, t)

\* Woken and the two wake-up invariants, for a given need of every channel.
WokenIn(st, pd, K, c) ==
  {t \in Tasks : st[t] \in Runnable /\ pd[t] \in K /\ pd[t].chan = c}

Covered(st, pd, w, K, need) ==
  \A c \in Chans : w[c] # << >> => need[c] <= Cardinality(WokenIn(st, pd, K, c))

Needs == [Chans -> Int]
RecvNeed == [c \in Chans |-> Len(buf[c])]
SendNeed == [c \in Chans |-> ChanCap - Len(buf[c])]

\* Sends and receives are told apart, and name a channel.
\* Sends and receives are told apart, and name a channel.
LEMMA KindFacts ==
  ASSUME NEW K, NEW L, Kinds(K, L)
  PROVE  /\ Kinds(L, K) /\ NoOp \notin K
         /\ \A o \in K : o.chan \in Chans /\ o \notin L
         /\ K \subseteq Sends \cup Recvs
BY DEF Kinds, Sends, Recvs, NoOp

\* The tasks woken for a channel can be counted.
\* The tasks woken for a channel can be counted.
LEMMA WokenFinite ==
  ASSUME NEW st, NEW pd, NEW K, NEW c
  PROVE  /\ IsFiniteSet(WokenIn(st, pd, K, c))
         /\ Cardinality(WokenIn(st, pd, K, c)) \in Nat
<1>1. IsFiniteSet(Tasks)
  BY FS_Interval, SchedulerAssumption DEF Tasks
<1>2. WokenIn(st, pd, K, c) \subseteq Tasks
  BY DEF WokenIn
<1> QED BY <1>1, <1>2, FS_Subset, FS_CardinalityType
-----------------------------------------------------------------------------
\* Waking the first task of a wait list.
LEMMA WakeMatch ==
  ASSUME NEW st, NEW pd, NEW v, NEW w, NEW K, NEW L, Kinds(K, L),
         StateType(st), PendingType(pd), WaitType(v), WaitType(w),
         WaitsMatch(st, pd, v, K, w, L),
         NEW c \in Chans, w[c] # << >>
  PROVE  LET x   == Head(w[c])
             st1 == [st EXCEPT ![x] = "ready"]
             w1  == [w EXCEPT ![c] = Tail(@)]
         IN  /\ x \in Tasks /\ st[x] = "blocked" /\ pd[x] \in L /\ pd[x].chan = c
             /\ WaitType(w1)
             /\ WaitsMatch(st1, pd, v, K, w1, L)
<1> DEFINE x   == Head(w[c])
           st1 == [st EXCEPT ![x] = "ready"]
           w1  == [w EXCEPT ![c] = Tail(@)]
           n   == Len(w[c])
<1>1. /\ w[c] \in Seq(Tasks) /\ n \in Nat \ {0} /\ x = w[c][1] /\ x \in Tasks
      /\ WaitType(w1)
  BY DEF WaitType
<1>2. st[x] = "blocked" /\ pd[x] \in L /\ pd[x].chan = c
  BY <1>1 DEF WaitsMatch, ListedIn
<1>3. /\ Len(w1[c]) = n - 1
      /\ \A i \in 1 .. n - 1 : w1[c][i] = w[c][i + 1]
      /\ \A d \in Chans \ {c} : w1[d] = w[d]
  BY <1>1 DEF WaitType
<1>4. \A i \in 1 .. n - 1 : i + 1 \in 1 .. n /\ w1[c][i] # x
  BY <1>1, <1>3 DEF WaitsMatch, ListedIn
<1>5. \A y \in Tasks \ {x} : st1[y] = st[y]
  BY DEF StateType
<1>6. ListedIn(st1, pd, v, K)
  <2> SUFFICES ASSUME NEW d \in Chans, NEW i \in 1 .. Len(v[d]) PROVE v[d][i] \in Tasks \ {x}
    BY <1>5 DEF WaitsMatch, ListedIn
  <2>1. v[d][i] \in Tasks
    BY DEF WaitType
  <2>2. pd[v[d][i]] \in K
    BY DEF WaitsMatch, ListedIn
  <2> QED BY <1>2, <2>1, <2>2, KindFacts
<1>7. ListedIn(st1, pd, w1, L)
  <2> SUFFICES ASSUME NEW d \in Chans, NEW i \in 1 .. Len(w1[d])
               PROVE  /\ st1[w1[d][i]] = "blocked"
                      /\ pd[w1[d][i]] \in L
                      /\ pd[w1[d][i]].chan = d
                      /\ \A j \in 1 .. Len(w1[d]) : w1[d][i] = w1[d][j] => i = j
    BY DEF ListedIn
  <2>1. CASE d = c
    <3>1. i \in 1 .. n - 1 /\ w1[d][i] \in Tasks \ {x} /\ w1[d][i] = w[c][i + 1]
      BY <1>1, <1>3, <1>4, <2>1 DEF WaitType
    <3>2. \A j \in 1 .. n - 1 : w[c][i + 1] = w[c][j + 1] => i = j
      BY <1>1, <1>4, <3>1 DEF WaitsMatch, ListedIn
    <3> QED BY <1>1, <1>3, <1>4, <1>5, <2>1, <3>1, <3>2 DEF WaitsMatch, ListedIn
  <2>2. CASE d # c
    <3>1. w1[d] = w[d] /\ w[d][i] \in Tasks
      BY <1>3, <2>2 DEF WaitType
    <3>2. w[d][i] # x
      BY <1>2, <2>2, <3>1 DEF WaitsMatch, ListedIn
    <3> QED BY <1>5, <3>1, <3>2 DEF WaitsMatch, ListedIn
  <2> QED BY <2>1, <2>2
<1>8. ASSUME NEW t \in Tasks, st1[t] = "blocked"
      PROVE  \/ pd[t] \in K /\ OnListIn(pd, v, t)
             \/ pd[t] \in L /\ OnListIn(pd, w1, t)
  <2>1. t # x /\ st[t] = "blocked"
    BY <1>5, <1>8 DEF StateType
  <2>2. CASE pd[t] \in L /\ OnListIn(pd, w, t)
    <3>1. pd[t].chan \in Chans
      BY <2>2, KindFacts
    <3>2. CASE pd[t].chan # c
      BY <1>3, <2>2, <3>1, <3>2 DEF OnListIn
    <3>3. CASE pd[t].chan = c
      <4>1. PICK i \in 1 .. n : w[c][i] = t
        BY <2>2, <3>3 DEF OnListIn
      <4>2. i - 1 \in 1 .. n - 1 /\ w1[c][i - 1] = t
        BY <1>1, <1>3, <2>1, <4>1
      <4> QED BY <1>3, <2>2, <3>3, <4>2 DEF OnListIn
    <3> QED BY <3>2, <3>3
  <2> QED BY <2>1, <2>2 DEF WaitsMatch
<1> QED BY <1>1, <1>2, <1>6, <1>7, <1>8 DEF WaitsMatch

\* A task that was not blocked goes to the end of a wait list.
LEMMA BlockMatch ==
  ASSUME NEW st, NEW pd, NEW v, NEW w, NEW K, NEW L, Kinds(K, L),
         StateType(st), PendingType(pd), WaitType(v), WaitType(w),
         WaitsMatch(st, pd, v, K, w, L),
         NEW t \in Tasks, st[t] # "blocked", NEW o \in K
  PROVE  LET st1 == [st EXCEPT ![t] = "blocked"]
             pd1 == [pd EXCEPT ![t] = o]
             v1  == [v EXCEPT ![o.chan] = Append(@, t)]
         IN  WaitType(v1) /\ PendingType(pd1) /\ WaitsMatch(st1, pd1, v1, K, w, L)
<1> DEFINE c   == o.chan
           st1 == [st EXCEPT ![t] = "blocked"]
           pd1 == [pd EXCEPT ![t] = o]
           v1  == [v EXCEPT ![c] = Append(@, t)]
           n   == Len(v[c])
<1>1. c \in Chans /\ v[c] \in Seq(Tasks) /\ n \in Nat /\ WaitType(v1) /\ PendingType(pd1)
  BY KindFacts DEF WaitType, PendingType
<1>2. /\ Len(v1[c]) = n + 1
      /\ v1[c][n + 1] = t
      /\ \A i \in 1 .. n : v1[c][i] = v[c][i]
      /\ \A d \in Chans \ {c} : v1[d] = v[d]
  BY <1>1 DEF WaitType
<1>3. /\ \A y \in Tasks \ {t} : st1[y] = st[y] /\ pd1[y] = pd[y]
      /\ st1[t] = "blocked" /\ pd1[t] = o
  BY DEF StateType, PendingType
<1>4. \A d \in Chans : /\ \A i \in 1 .. Len(v[d]) : v[d][i] \in Tasks \ {t}
                       /\ \A i \in 1 .. Len(w[d]) : w[d][i] \in Tasks \ {t}
  BY DEF WaitsMatch, ListedIn, WaitType
<1>5. ListedIn(st1, pd1, v1, K)
  <2> SUFFICES ASSUME NEW d \in Chans, NEW i \in 1 .. Len(v1[d])
               PROVE  /\ st1[v1[d][i]] = "blocked"
                      /\ pd1[v1[d][i]] \in K
                      /\ pd1[v1[d][i]].chan = d
                      /\ \A j \in 1 .. Len(v1[d]) : v1[d][i] = v1[d][j] => i = j
    BY DEF ListedIn
  <2>1. CASE d # c
    BY <1>2, <1>3, <1>4, <2>1 DEF WaitsMatch, ListedIn
  <2>2. CASE d = c /\ i = n + 1
    BY <1>1, <1>2, <1>3, <1>4, <2>2
  <2>3. CASE d = c /\ i \in 1 .. n
    <3>1. v1[c][i] = v[c][i] /\ v[c][i] \in Tasks \ {t}
      BY <1>1, <1>2, <1>4, <2>3
    <3>2. \A j \in 1 .. n + 1 : v1[c][i] = v1[c][j] => i = j
      BY <1>1, <1>2, <2>3, <3>1 DEF WaitsMatch, ListedIn
    <3> QED BY <1>1, <1>2, <1>3, <2>3, <3>1, <3>2 DEF WaitsMatch, ListedIn
  <2> QED BY <1>1, <1>2, <2>1, <2>2, <2>3
<1>6. ListedIn(st1, pd1, w, L)
  BY <1>3, <1>4 DEF WaitsMatch, ListedIn
<1>7. ASSUME NEW y \in Tasks, st1[y] = "blocked"
      PROVE  \/ pd1[y] \in K /\ OnListIn(pd1, v1, y)
             \/ pd1[y] \in L /\ OnListIn(pd1, w, y)
  <2>1. CASE y = t
    <3>1. n + 1 \in 1 .. Len(v1[c])
      BY <1>1, <1>2
    <3> QED BY <1>2, <1>3, <2>1, <3>1 DEF OnListIn
  <2>2. CASE y # t
    <3>1. st[y] = "blocked" /\ pd1[y] = pd[y]
      BY <1>3, <1>7, <2>2
    <3>2. CASE pd[y] \in K /\ OnListIn(pd, v, y)
      <4>1. pd[y].chan \in Chans
        BY <3>2, KindFacts
      <4>2. PICK i \in 1 .. Len(v[pd[y].chan]) : v[pd[y].chan][i] = y
        BY <3>2 DEF OnListIn
      <4>3. i \in 1 .. Len(v1[pd[y].chan]) /\ v1[pd[y].chan][i] = y
        BY <1>1, <1>2, <4>1, <4>2
      <4> QED BY <3>1, <3>2, <4>3 DEF OnListIn
    <3>3. CASE pd[y] \in L /\ OnListIn(pd, w, y)
      BY <3>1, <3>3 DEF OnListIn
    <3> QED BY <3>1, <3>2, <3>3 DEF WaitsMatch
  <2> QED BY <2>1, <2>2
<1> QED BY <1>1, <1>5, <1>6, <1>7 DEF WaitsMatch

\* States may change as long as the same tasks are blocked, and so may the
\* operation of a task that is not blocked.
LEMMA MoveMatch ==
  ASSUME NEW st, NEW st1, NEW pd, NEW pd1, NEW v, NEW w, NEW K, NEW L,
         WaitType(v), WaitType(w), WaitsMatch(st, pd, v, K, w, L),
         \A t \in Tasks : st1[t] = "blocked" <=> st[t] = "blocked",
         \A t \in Tasks : st[t] = "blocked" => pd1[t] = pd[t]
  PROVE  WaitsMatch(st1, pd1, v, K, w, L)
<1>1. \A d \in Chans : /\ \A i \in 1 .. Len(v[d]) : v[d][i] \in Tasks
                       /\ \A i \in 1 .. Len(w[d]) : w[d][i] \in Tasks
  BY DEF WaitType
<1>2. ListedIn(st1, pd1, v, K) /\ ListedIn(st1, pd1, w, L)
  BY <1>1 DEF WaitsMatch, ListedIn
<1> QED BY <1>2 DEF WaitsMatch, OnListIn
-----------------------------------------------------------------------------
\* A wake-up meets a need that has grown by one.
LEMMA WakeCovers ==
  ASSUME NEW st, NEW st1, NEW pd, NEW pd1, NEW w, NEW w1, NEW L,
         NEW need \in Needs, NEW need1 \in Needs,
         Covered(st, pd, w, L, need),
         NEW c \in Chans, NEW x \in Tasks,
         \A d \in Chans \ {c} : w1[d] = w[d] /\ need1[d] = need[d],
         need1[c] = need[c] + 1, w[c] # << >>,
         st[x] = "blocked", pd1[x] \in L, pd1[x].chan = c, st1[x] = "ready",
         \A d \in Chans : WokenIn(st, pd, L, d) \subseteq WokenIn(st1, pd1, L, d)
  PROVE  Covered(st1, pd1, w1, L, need1)
<1> SUFFICES ASSUME NEW d \in Chans, w1[d] # << >>
             PROVE  need1[d] <= Cardinality(WokenIn(st1, pd1, L, d))
  BY DEF Covered
<1> DEFINE A == WokenIn(st, pd, L, d)
           B == WokenIn(st1, pd1, L, d)
<1>1. /\ IsFiniteSet(A) /\ IsFiniteSet(B) /\ Cardinality(A) \in Nat
      /\ Cardinality(B) \in Nat /\ Cardinality(A) <= Cardinality(B)
      /\ need[d] \in Int /\ need1[d] \in Int
  BY WokenFinite, FS_Subset DEF Needs
<1>2. CASE d # c
  BY <1>1, <1>2 DEF Covered
<1>3. CASE d = c
  <2>1. x \notin A /\ A \cup {x} \subseteq B
    BY <1>3, SchedulerAssumption DEF WokenIn, Runnable
  <2>2. Cardinality(A \cup {x}) = Cardinality(A) + 1
    BY <1>1, <2>1, FS_AddElement
  <2>3. Cardinality(A \cup {x}) <= Cardinality(B)
    BY <1>1, <2>1, FS_Subset
  <2> QED BY <1>1, <1>3, <2>2, <2>3 DEF Covered
<1> QED BY <1>2, <1>3

\* A need that shrinks by one lets one task go.
LEMMA ServedCovers ==
  ASSUME NEW st, NEW st1, NEW pd, NEW pd1, NEW v, NEW K,
         NEW need \in Needs, NEW need1 \in Needs,
         Covered(st, pd, v, K, need),
         NEW c \in Chans, NEW t \in Tasks,
         \A d \in Chans \ {c} : need1[d] = need[d],
         need1[c] = need[c] - 1,
         \A d \in Chans \ {c} : WokenIn(st, pd, K, d) \subseteq WokenIn(st1, pd1, K, d),
         WokenIn(st, pd, K, c) \ {t} \subseteq WokenIn(st1, pd1, K, c)
  PROVE  Covered(st1, pd1, v, K, need1)
<1> SUFFICES ASSUME NEW d \in Chans, v[d] # << >>
             PROVE  need1[d] <= Cardinality(WokenIn(st1, pd1, K, d))
  BY DEF Covered
<1> DEFINE A == WokenIn(st, pd, K, d)
           B == WokenIn(st1, pd1, K, d)
<1>1. /\ IsFiniteSet(A) /\ IsFiniteSet(B) /\ Cardinality(A) \in Nat
      /\ Cardinality(B) \in Nat /\ need[d] \in Int /\ need1[d] \in Int
      /\ need[d] <= Cardinality(A)
  BY WokenFinite DEF Needs, Covered
<1>2. CASE d # c
  BY <1>1, <1>2, FS_Subset
<1>3. CASE d = c
  <2>1. IsFiniteSet(A \ {t}) /\ Cardinality(A \ {t}) >= Cardinality(A) - 1
    <3> HIDE DEF A
    <3>1. Cardinality(A \ {t}) = IF t \in A THEN Cardinality(A) - 1 ELSE Cardinality(A)
      BY <1>1, FS_RemoveElement
    <3> QED BY <1>1, <3>1, FS_RemoveElement
  <2>2. Cardinality(A \ {t}) <= Cardinality(B) /\ Cardinality(A \ {t}) \in Nat
    BY <1>1, <1>3, <2>1, FS_Subset, FS_CardinalityType
  <2> QED BY <1>1, <1>3, <2>1, <2>2
<1> QED BY <1>2, <1>3

\* Where nothing is needed, no woken task is needed either.
LEMMA IdleCovers ==
  ASSUME NEW st, NEW st1, NEW pd, NEW pd1, NEW v, NEW v1, NEW K, NEW need \in Needs,
         Covered(st, pd, v, K, need),
         \A d \in Chans : \/ need[d] <= 0
                          \/ /\ v1[d] = v[d]
                             /\ WokenIn(st, pd, K, d) \subseteq WokenIn(st1, pd1, K, d)
  PROVE  Covered(st1, pd1, v1, K, need)
<1> SUFFICES ASSUME NEW d \in Chans, v1[d] # << >>
             PROVE  need[d] <= Cardinality(WokenIn(st1, pd1, K, d))
  BY DEF Covered
<1> DEFINE A == WokenIn(st, pd, K, d)
           B == WokenIn(st1, pd1, K, d)
<1>1. /\ IsFiniteSet(A) /\ IsFiniteSet(B) /\ Cardinality(A) \in Nat
      /\ Cardinality(B) \in Nat /\ need[d] \in Int
  BY WokenFinite DEF Needs
<1>2. CASE need[d] <= 0
  BY <1>1, <1>2
<1>3. CASE v1[d] = v[d] /\ A \subseteq B
  BY <1>1, <1>3, FS_Subset DEF Covered
<1> QED BY <1>2, <1>3
-----------------------------------------------------------------------------
\* Buffers hold no more than they can, a channel that was never made holds
\* nothing, and nobody is inside an operation on such a channel.
BuffersBounded == \A c \in Chans : Len(buf[c]) <= ChanCap
UnmadeEmpty == \A c \in Chans : ~inuse[c] => buf[c] = << >>
PendingOnMade == \A t \in Tasks : pending[t] # NoOp => inuse[pending[t].chan]

\* The inductive invariant.
ChanInv ==
  /\ SchedInv
  /\ ChanTypeOK
  /\ BuffersBounded
  /\ UnmadeEmpty
  /\ PendingOnMade
  /\ BlockedIffWaiting
  /\ NoLostRecvWakeup
  /\ NoLostSendWakeup

\* The part of it that is about the channels, in terms of the lemmas above.
ChanPart ==
  /\ inuse \in [Chans -> BOOLEAN] /\ chanNext \in Chans /\ buf \in [Chans -> Seq(Values)]
  /\ WaitType(waitSend) /\ WaitType(waitRecv) /\ PendingType(pending)
  /\ BuffersBounded /\ UnmadeEmpty /\ PendingOnMade
  /\ WaitsMatch(state, pending, waitSend, Sends, waitRecv, Recvs)
  /\ Covered(state, pending, waitRecv, Recvs, RecvNeed)
  /\ Covered(state, pending, waitSend, Sends, SendNeed)

\* The invariant is that of the scheduler and that of the channels.
\* The invariant is that of the scheduler and that of the channels.
LEMMA ChanParts == ChanInv <=> SchedInv /\ ChanPart
<1>1. BlockedIffWaiting <=> WaitsMatch(state, pending, waitSend, Sends, waitRecv, Recvs)
  BY DEF BlockedIffWaiting, WaitsMatch, Listed, ListedIn, OnList, OnListIn
<1>2. \A K, c : Woken(K, c) = WokenIn(state, pending, K, c)
  BY DEF Woken, WokenIn, Runnable
<1>3. NoLostRecvWakeup <=> Covered(state, pending, waitRecv, Recvs, RecvNeed)
  BY <1>2 DEF NoLostRecvWakeup, Covered, RecvNeed
<1>4. NoLostSendWakeup <=> Covered(state, pending, waitSend, Sends, SendNeed)
  BY <1>2 DEF NoLostSendWakeup, Covered, SendNeed
<1> QED
  BY <1>1, <1>3, <1>4
  DEF ChanInv, ChanPart, SchedInv, ChanTypeOK, WaitType, PendingType

\* The same of the next state.
LEMMA ChanPartsNext == ChanInv' <=> SchedInv' /\ ChanPart'
BY ChanParts, PTL
-----------------------------------------------------------------------------
\* The channels' side of the invariant for two kinds of operations.
Sound(st, pd, v, K, w, L, needK, needL) ==
  /\ Kinds(K, L) /\ StateType(st) /\ PendingType(pd) /\ WaitType(v) /\ WaitType(w)
  /\ needK \in Needs /\ needL \in Needs
  /\ WaitsMatch(st, pd, v, K, w, L)
  /\ Covered(st, pd, v, K, needK)
  /\ Covered(st, pd, w, L, needL)

\* Task t is about to try operation o, for the first time or again.
Tries(st, pd, K, t, o) ==
  t \in Tasks /\ st[t] # "blocked" /\ o \in K /\ pd[t] \in {NoOp, o}

\* What happens when an operation goes through: task t gives something to
\* the other side, and wakes a waiter of the other kind if there is one.
Serves(st, pd, w, t, o, needK, needL, st1, pd1, w1, needK1, needL1) ==
  /\ needK1 \in Needs /\ needL1 \in Needs
  /\ \A d \in Chans \ {o.chan} : needL1[d] = needL[d] /\ needK1[d] = needK[d]
  /\ needL1[o.chan] = needL[o.chan] + 1 /\ needK1[o.chan] = needK[o.chan] - 1
  /\ pd1 = [pd EXCEPT ![t] = NoOp]
  /\ \/ w[o.chan] = << >> /\ w1 = w /\ st1 = st
     \/ /\ w[o.chan] # << >>
        /\ st1 = [st EXCEPT ![Head(w[o.chan])] = "ready"]
        /\ w1 = [w EXCEPT ![o.chan] = Tail(@)]

\* What happens when it waits: task t blocks where nothing of its kind is
\* needed, and the processor goes to somebody else.
Waits(st, pd, v, t, o, needK, st1, pd1, v1) ==
  /\ needK[o.chan] <= 0
  /\ pd1 = [pd EXCEPT ![t] = o]
  /\ v1 = [v EXCEPT ![o.chan] = Append(@, t)]
  /\ \A y \in Tasks : st1[y] = "blocked" <=> [st EXCEPT ![t] = "blocked"][y] = "blocked"
  /\ \A y \in Tasks : [st EXCEPT ![t] = "blocked"][y] \in Runnable => st1[y] \in Runnable

\* An operation that goes through leaves everything sound.
LEMMA ServeKeeps ==
  ASSUME NEW st, NEW pd, NEW v, NEW w, NEW K, NEW L, NEW needK, NEW needL,
         Sound(st, pd, v, K, w, L, needK, needL),
         NEW t, NEW o, Tries(st, pd, K, t, o),
         NEW needK1, NEW needL1, NEW st1, NEW w1, NEW pd1,
         Serves(st, pd, w, t, o, needK, needL, st1, pd1, w1, needK1, needL1)
  PROVE  /\ WaitType(w1) /\ PendingType(pd1)
         /\ WaitsMatch(st1, pd1, v, K, w1, L)
         /\ Covered(st1, pd1, w1, L, needL1)
         /\ Covered(st1, pd1, v, K, needK1)
<1> USE DEF Sound, Tries, Serves
<1> DEFINE c == o.chan
           x == Head(w[c])
<1>0. /\ c \in Chans /\ pd1[t] = NoOp /\ PendingType(pd1)
      /\ NoOp \notin K /\ NoOp \notin L /\ pd[t] \notin L
      /\ \A y \in Tasks \ {t} : pd1[y] = pd[y]
  BY KindFacts DEF PendingType
<1>1. w[c] # << >> => /\ x \in Tasks /\ st[x] = "blocked" /\ pd[x] \in L /\ pd[x].chan = c
                      /\ st1 = [st EXCEPT ![x] = "ready"]
                      /\ WaitType(w1) /\ WaitsMatch(st1, pd, v, K, w1, L)
  <2> SUFFICES ASSUME w[c] # << >>
               PROVE  /\ x \in Tasks /\ st[x] = "blocked" /\ pd[x] \in L /\ pd[x].chan = c
                      /\ st1 = [st EXCEPT ![x] = "ready"]
                      /\ WaitType(w1) /\ WaitsMatch(st1, pd, v, K, w1, L)
    OBVIOUS
  <2>1. st1 = [st EXCEPT ![x] = "ready"] /\ w1 = [w EXCEPT ![c] = Tail(@)]
    OBVIOUS
  <2>2. c \in Chans
    BY <1>0
  <2> HIDE DEF c
  <2>3. LET y  == Head(w[c])
            s1 == [st EXCEPT ![y] = "ready"]
            u1 == [w EXCEPT ![c] = Tail(@)]
        IN  /\ y \in Tasks /\ st[y] = "blocked" /\ pd[y] \in L /\ pd[y].chan = c
            /\ WaitType(u1)
            /\ WaitsMatch(s1, pd, v, K, u1, L)
    BY ONLY <2>2, WakeMatch, w[c] # << >>, Kinds(K, L), StateType(st),
            PendingType(pd), WaitType(v), WaitType(w), WaitsMatch(st, pd, v, K, w, L), Zenon
  <2> QED BY <2>1, <2>3, Zenon
<1>2. /\ \A d \in Chans \ {c} : needL1[d] = needL[d] /\ needK1[d] = needK[d] /\ w1[d] = w[d]
      /\ needL1[c] = needL[c] + 1 /\ needK1[c] = needK[c] - 1
      /\ w[c] = << >> => w1 = w /\ st1 = st
      /\ \A d \in Chans \ {c} : ~(pd[t] \in K /\ pd[t].chan = d)
  BY <1>0 DEF WaitType
<1> HIDE DEF c, x
<1>3. WaitType(w1) /\ WaitsMatch(st1, pd, v, K, w1, L)
  BY <1>1, <1>2
<1>4. st1[t] # "blocked" /\ \A y \in Tasks : st[y] \in Runnable => st1[y] \in Runnable
  BY <1>1, <1>2 DEF StateType, Runnable
<1>5. WaitsMatch(st1, pd1, v, K, w1, L)
  <2>1. \A y \in Tasks : st1[y] = "blocked" => pd1[y] = pd[y]
    BY <1>0, <1>4
  <2>2. \A y \in Tasks : st1[y] = "blocked" <=> st1[y] = "blocked"
    OBVIOUS
  <2> QED BY ONLY <1>3, <2>1, <2>2, WaitType(v), MoveMatch
<1>6. \A d \in Chans : WokenIn(st, pd, L, d) \subseteq WokenIn(st1, pd1, L, d)
  BY <1>0, <1>4 DEF WokenIn
<1>7. Covered(st1, pd1, w1, L, needL1)
  <2>1. CASE w[c] = << >>
    <3>1. Covered(st1, pd1, w, L, needL)
      BY <1>6, IdleCovers
    <3> QED BY <1>2, <2>1, <3>1 DEF Covered
  <2>2. CASE w[c] # << >>
    <3>1. pd1[x] \in L /\ pd1[x].chan = c /\ st1[x] = "ready" /\ st[x] = "blocked" /\ x \in Tasks
      BY <1>0, <1>1, <2>2 DEF StateType
    <3>2. \A d \in Chans \ {c} : w1[d] = w[d] /\ needL1[d] = needL[d]
      BY <1>2
    <3>3. c \in Chans /\ needL1[c] = needL[c] + 1
      BY <1>0, <1>2
    <3> QED
      BY ONLY <1>6, <2>2, <3>1, <3>2, <3>3, WakeCovers, Covered(st, pd, w, L, needL),
              needL \in Needs, needL1 \in Needs, SMTT(60)
  <2> QED BY <2>1, <2>2
<1>8. Covered(st1, pd1, v, K, needK1)
  <2>1. \A d \in Chans \ {c} : WokenIn(st, pd, K, d) \subseteq WokenIn(st1, pd1, K, d)
    BY <1>0, <1>2, <1>4 DEF WokenIn
  <2>2. WokenIn(st, pd, K, c) \ {t} \subseteq WokenIn(st1, pd1, K, c)
    BY <1>0, <1>4 DEF WokenIn
  <2> QED
    BY ONLY <1>0, <1>2, <2>1, <2>2, ServedCovers, Covered(st, pd, v, K, needK),
            needK \in Needs, needK1 \in Needs, t \in Tasks, SMTT(30)
<1> QED BY <1>0, <1>3, <1>5, <1>7, <1>8

\* An operation that waits leaves everything sound.
LEMMA WaitKeeps ==
  ASSUME NEW st, NEW pd, NEW v, NEW w, NEW K, NEW L, NEW needK, NEW needL,
         Sound(st, pd, v, K, w, L, needK, needL),
         NEW t, NEW o, Tries(st, pd, K, t, o),
         NEW st1, NEW v1, NEW pd1,
         Waits(st, pd, v, t, o, needK, st1, pd1, v1)
  PROVE  /\ WaitType(v1) /\ PendingType(pd1)
         /\ WaitsMatch(st1, pd1, v1, K, w, L)
         /\ Covered(st1, pd1, w, L, needL)
         /\ Covered(st1, pd1, v1, K, needK)
<1> USE DEF Sound, Tries, Waits
<1> DEFINE c == o.chan
           st0 == [st EXCEPT ![t] = "blocked"]
<1>0. /\ c \in Chans /\ pd1[t] = o
      /\ NoOp \notin K /\ pd[t] \notin L
      /\ \A y \in Tasks \ {t} : pd1[y] = pd[y] /\ st0[y] = st[y]
  BY KindFacts DEF PendingType, StateType
<1>1. WaitType(v1) /\ PendingType(pd1) /\ WaitsMatch(st0, pd1, v1, K, w, L)
  BY BlockMatch
<1>2. WaitsMatch(st1, pd1, v1, K, w, L)
  <2> HIDE DEF st0
  <2>1. \A y \in Tasks : st1[y] = "blocked" <=> st0[y] = "blocked"
    BY DEF st0
  <2> QED BY <1>1, <2>1, MoveMatch
<1>3. \A d \in Chans : WokenIn(st, pd, L, d) \subseteq WokenIn(st1, pd1, L, d)
  BY <1>0 DEF WokenIn
<1>4. \A d \in Chans \ {c} : /\ WokenIn(st, pd, K, d) \subseteq WokenIn(st1, pd1, K, d)
                             /\ v1[d] = v[d]
  BY <1>0 DEF WokenIn, WaitType
<1>5. Covered(st1, pd1, w, L, needL)
  BY <1>3, IdleCovers
<1>6. Covered(st1, pd1, v1, K, needK)
  <2>1. \A d \in Chans : \/ needK[d] <= 0
                         \/ /\ v1[d] = v[d]
                            /\ WokenIn(st, pd, K, d) \subseteq WokenIn(st1, pd1, K, d)
    BY <1>4
  <2> QED BY ONLY <2>1, IdleCovers, Covered(st, pd, v, K, needK), needK \in Needs
<1> QED BY <1>1, <1>2, <1>5, <1>6

\* A step that moves tasks between ready and running, and neither blocks nor
\* wakes anybody.
LEMMA MoveKeeps ==
  ASSUME ChanPart, UNCHANGED chanVars,
         \A t \in Tasks : state'[t] = "blocked" <=> state[t] = "blocked",
         \A t \in Tasks : pending[t] # NoOp /\ state[t] \in Runnable => state'[t] \in Runnable
  PROVE  ChanPart'
<1>1. \A K \in {Sends, Recvs} : \A d \in Chans :
        WokenIn(state, pending, K, d) \subseteq WokenIn(state', pending, K, d)
  BY KindFacts DEF WokenIn, Kinds
<1>2. RecvNeed \in Needs /\ SendNeed \in Needs
  BY ChannelAssumption DEF RecvNeed, SendNeed, Needs, ChanPart
<1>3. WaitsMatch(state', pending, waitSend, Sends, waitRecv, Recvs)
  BY MoveMatch DEF ChanPart
<1>4. /\ Covered(state', pending, waitRecv, Recvs, RecvNeed)
      /\ Covered(state', pending, waitSend, Sends, SendNeed)
  BY <1>1, <1>2, IdleCovers DEF ChanPart
<1>5. RecvNeed' = RecvNeed /\ SendNeed' = SendNeed
  BY DEF chanVars, RecvNeed, SendNeed
<1> QED
  BY <1>3, <1>4, <1>5
  DEF ChanPart, chanVars, BuffersBounded, UnmadeEmpty, PendingOnMade, WaitType, PendingType
-----------------------------------------------------------------------------
\* What a yield does to the tasks: whoever is blocked stays blocked, whoever
\* can run still can.
LEMMA YieldMoves ==
  ASSUME SchedInv, halt = "none", NEW st,
         \/ st = state
         \/ st = [state EXCEPT ![current] = "done"] /\ current # Main
         \/ st = [state EXCEPT ![current] = "blocked"],
         YieldFrom(st, queue)
  PROVE  \A t \in Tasks : /\ state'[t] = "blocked" <=> st[t] = "blocked"
                          /\ st[t] \in Runnable => state'[t] \in Runnable
<1>1. StateType(st) /\ QueuesMatch(st, queue) /\ RunsAlone(st) /\ st[current] # "ready"
  <2>1. CASE st = state
    BY <2>1, RunningFacts
  <2>2. ASSUME NEW s \in {"done", "blocked"}, st = [state EXCEPT ![current] = s],
               s = "done" => current # Main
        PROVE  StateType(st) /\ QueuesMatch(st, queue) /\ RunsAlone(st) /\ st[current] # "ready"
    <3>1. s \in States \ {"ready"}
      BY DEF States
    <3>2. StateType(st) /\ QueuesMatch(st, queue)
      BY <2>2, <3>1, RunningFacts, UnqueuedMatch
    <3>3. RunsAlone(st) /\ st[current] # "ready"
      BY <2>2, RunningFacts, SchedulerAssumption DEF RunsAlone, StateType, Tasks, Main
    <3> QED BY <3>2, <3>3
  <2> QED BY <2>1, <2>2
<1> QED BY <1>1, RunningFacts, YieldKeeps DEF SchedInv, Runnable

\* Steps of the scheduler itself leave the channels' invariant alone.
LEMMA TaskStepKeeps ==
  ASSUME ChanInv, TaskStep PROVE ChanInv'
<1>1. SchedInv /\ ChanPart /\ SchedStep /\ UNCHANGED chanVars /\ pending[current] = NoOp
  BY ChanParts DEF TaskStep
<1>2. SchedInv'
  BY <1>1, SchedStepInv
<1>3. current \in Tasks /\ StateType(state)
  BY <1>1 DEF SchedInv, TypeOK, StateType
<1>4. \A t \in Tasks : /\ state'[t] = "blocked" <=> state[t] = "blocked"
                       /\ pending[t] # NoOp /\ state[t] \in Runnable => state'[t] \in Runnable
  <2>1. CASE Spawn
    <3>1. PICK s \in Tasks : state[s] = "free" /\ state' = [state EXCEPT ![s] = "ready"]
      BY <2>1 DEF Spawn, FreeSlots
    <3> QED BY <1>3, <3>1 DEF StateType, Runnable
  <2>2. CASE SpawnFail \/ JoinInvalid \/ MainReturn
    BY <2>2 DEF SpawnFail, JoinInvalid, MainReturn, Trap
  <2>3. CASE Yield
    BY <1>1, <2>3, YieldMoves DEF Yield, InUserCode
  <2>4. CASE Exit
    <3> DEFINE st == [state EXCEPT ![current] = "done"]
    <3>1. YieldFrom(st, queue) /\ halt = "none" /\ current # Main
      BY <2>4 DEF Exit, InUserCode
    <3>2. state[current] # "blocked"
      BY <1>1, <3>1, RunningFacts
    <3>3. \A t \in Tasks \ {current} : st[t] = state[t]
      BY <1>3 DEF StateType
    <3>4. st[current] = "done"
      BY <1>3 DEF StateType
    <3>5. \A t \in Tasks : /\ state'[t] = "blocked" <=> st[t] = "blocked"
                           /\ st[t] \in Runnable => state'[t] \in Runnable
      BY <1>1, <3>1, YieldMoves
    <3> QED BY <1>1, <3>2, <3>3, <3>4, <3>5
  <2>5. ASSUME NEW h, JoinRound(h), halt = "none"
        PROVE  \A t \in Tasks : /\ state'[t] = "blocked" <=> state[t] = "blocked"
                                /\ state[t] \in Runnable => state'[t] \in Runnable
    <3>1. CASE state[h.slot] = "done" /\ state' = [state EXCEPT ![h.slot] = "free"]
      BY <1>3, <3>1 DEF StateType, Runnable
    <3>2. CASE YieldFrom(state, queue)
      BY <1>1, <2>5, <3>2, YieldMoves
    <3> QED BY <2>5, <3>1, <3>2 DEF JoinRound
  <2>6. CASE (\E h \in Issued : Join(h)) \/ JoinAgain
    BY <2>5, <2>6 DEF Join, JoinAgain, InUserCode
  <2> QED BY <1>1, <2>1, <2>2, <2>3, <2>4, <2>6 DEF SchedStep
<1>5. ChanPart'
  BY <1>1, <1>4, MoveKeeps
<1> QED BY <1>2, <1>5, ChanPartsNext

\* A wake-up finds room in the global ring and keeps the scheduler sound.
LEMMA WakeSchedInv ==
  ASSUME SchedInv, halt = "none", NEW w \in Seq(Tasks),
         w # << >> => state[Head(w)] = "blocked",
         Wake(w), UNCHANGED <<current, worker, joining, inc, spent>>
  PROVE  /\ SchedInv'
         /\ state' = IF w = << >> THEN state ELSE [state EXCEPT ![Head(w)] = "ready"]
<1>1. CASE w = << >>
  <2>1. UNCHANGED schedVars
    BY <1>1 DEF Wake, schedVars
  <2> QED BY <1>1, <2>1, SchedStutter DEF schedVars
<1>2. CASE w # << >>
  <2> DEFINE x == Head(w)
  <2>1. x \in Tasks /\ state[x] = "blocked"
    BY <1>2
  <2>2. Global \in Queues /\ Global \notin Workers /\ NoQueue # Global
    BY SchedulerAssumption DEF Global, Queues, Workers, NoQueue
  <2>3. GlobalRoom
    <3>1. state[current] # "ready" /\ current \in Tasks
      BY RunningFacts
    <3>2. Len(queue[Global]) < NTasks /\ Len(queue[Global]) \in Nat
      BY <2>2, <3>1, RunningFacts, RoomInQueue DEF QueueType
    <3> QED BY <3>2, SchedulerAssumption DEF GlobalRoom
  <2>4. /\ state' = [state EXCEPT ![x] = "ready"]
        /\ queue' = [queue EXCEPT ![Global] = Append(@, x)]
        /\ halt' = halt
    BY <1>2, <2>2, <2>3 DEF Wake, Push
  <2>5. StateType(state') /\ QueueType(queue') /\ QueuesMatch(state', queue')
    <3>1. state[x] # "ready"
      BY <2>1
    <3> HIDE DEF x
    <3> QED BY <2>1, <2>2, <2>4, <3>1, RunningFacts, PushMatch
  <2>6. OthersEmpty(queue')
    BY <2>2, <2>4, RunningFacts DEF OthersEmpty, QueueType, Queues, Workers, Global
  <2>7. OneRunning'
    BY <2>1, <2>4, RunningFacts DEF SchedInv, OneRunning, StateType
  <2>8. TypeOK'
    BY <2>4, <2>5 DEF SchedInv, TypeOK, StateType, QueueType
  <2>9. MainNeverDone'
    BY <2>1, <2>4, RunningFacts DEF SchedInv, MainNeverDone, StateType
  <2> QED
    BY <1>2, <2>4, <2>5, <2>6, <2>7, <2>8, <2>9
    DEF SchedInv, ReadyQueuesExact, OnlyWorkerZero, NoOverflow, NobodyRunnable,
        QueuesMatch, QueuedAreReady, ReadyAreQueued, QueuedOnce, OthersEmpty
<1> QED BY <1>1, <1>2

\* A trap leaves everything but halt as it is.
LEMMA TrapKeeps ==
  ASSUME ChanInv, Trap("unreachable"), UNCHANGED chanVars PROVE ChanInv'
<1>1. SchedInv /\ ChanPart
  BY ChanParts
<1>2. SchedInv'
  BY <1>1
  DEF Trap, SchedInv, TypeOK, Outcomes, OneRunning, ReadyQueuesExact, OnlyWorkerZero,
      NoOverflow, NobodyRunnable, MainNeverDone, QueuesMatch, QueuedAreReady, ReadyAreQueued,
      QueuedOnce, OthersEmpty
<1>3. ChanPart'
  BY <1>1, MoveKeeps DEF Trap
<1> QED BY <1>2, <1>3, ChanPartsNext

\* The needs are integers.
LEMMA NeedTypes ==
  ASSUME buf \in [Chans -> Seq(Values)] PROVE RecvNeed \in Needs /\ SendNeed \in Needs
BY ChannelAssumption DEF RecvNeed, SendNeed, Needs

\* The wait lists match whichever kind is named first.
LEMMA WaitsMirror ==
  ASSUME NEW st, NEW pd, NEW v, NEW w, NEW K, NEW L
  PROVE  WaitsMatch(st, pd, v, K, w, L) <=> WaitsMatch(st, pd, w, L, v, K)
BY Zenon DEF WaitsMatch

\* A send that goes through, one that waits and one that finds no room to
\* wait.
LEMMA SendKeeps ==
  ASSUME ChanInv, halt = "none", NEW o \in Sends, inuse[o.chan],
         pending[current] \in {NoOp, o}, SendTry(o), UNCHANGED <<inuse, chanNext>>
  PROVE  ChanInv'
<1> DEFINE c == o.chan
<1>1. SchedInv /\ ChanPart
  BY ChanParts
<1>2. /\ StateType(state) /\ current \in Tasks /\ state[current] # "blocked"
      /\ Kinds(Sends, Recvs) /\ c \in Chans /\ o.val \in Values
      /\ RecvNeed \in Needs /\ SendNeed \in Needs
  BY <1>1, RunningFacts, NeedTypes DEF Kinds, Sends, ChanPart
<1>3. /\ buf \in [Chans -> Seq(Values)] /\ buf[c] \in Seq(Values) /\ Len(buf[c]) \in Nat
      /\ waitRecv[c] \in Seq(Tasks) /\ waitSend[c] \in Seq(Tasks)
      /\ waitRecv[c] # << >> => state[Head(waitRecv[c])] = "blocked"
  <2>1. /\ buf \in [Chans -> Seq(Values)]
        /\ waitRecv[c] \in Seq(Tasks) /\ waitSend[c] \in Seq(Tasks)
    BY <1>1, <1>2 DEF ChanPart, WaitType
  <2>2. buf[c] \in Seq(Values) /\ Len(buf[c]) \in Nat
    <3> HIDE DEF c
    <3>1. buf[c] \in Seq(Values)
      BY <1>2, <2>1
    <3> QED BY <3>1
  <2>3. waitRecv[c] # << >> => state[Head(waitRecv[c])] = "blocked"
    <3>1. ListedIn(state, pending, waitRecv, Recvs)
      BY <1>1 DEF ChanPart, WaitsMatch
    <3> HIDE DEF c
    <3>2. waitRecv[c] # << >> =>
            1 \in 1 .. Len(waitRecv[c]) /\ Head(waitRecv[c]) = waitRecv[c][1]
      BY <2>1
    <3> QED BY <1>2, <3>1, <3>2 DEF ListedIn
  <2> QED BY <2>1, <2>2, <2>3
<1>4. CASE /\ Len(buf[c]) < ChanCap
           /\ buf' = [buf EXCEPT ![c] = Append(@, o.val)]
           /\ Wake(SendWakes(c))
           /\ waitRecv' = [waitRecv EXCEPT ![c] = IF SendWakes(c) = << >> THEN @ ELSE Rest(@)]
           /\ pending' = [pending EXCEPT ![current] = NoOp]
           /\ UNCHANGED <<current, worker, joining, inc, spent, waitSend>>
  <2>1. /\ SchedInv'
        /\ state' = IF waitRecv[c] = << >> THEN state
                    ELSE [state EXCEPT ![Head(waitRecv[c])] = "ready"]
    BY <1>1, <1>3, <1>4, WakeSchedInv DEF SendWakes
  <2>2. \/ waitRecv[c] = << >> /\ waitRecv' = waitRecv /\ state' = state
        \/ /\ waitRecv[c] # << >>
           /\ state' = [state EXCEPT ![Head(waitRecv[c])] = "ready"]
           /\ waitRecv' = [waitRecv EXCEPT ![c] = Tail(@)]
    BY <1>1, <1>2, <1>4, <2>1 DEF SendWakes, Rest, ChanPart, WaitType
  <2>3. /\ buf' \in [Chans -> Seq(Values)] /\ Len(buf'[c]) = Len(buf[c]) + 1
        /\ \A d \in Chans \ {c} : buf'[d] = buf[d]
    BY <1>2, <1>3, <1>4
  <2>4. RecvNeed' \in Needs /\ SendNeed' \in Needs
    BY <2>3, ChannelAssumption DEF RecvNeed, SendNeed, Needs
  <2>5. /\ \A d \in Chans \ {c} : RecvNeed'[d] = RecvNeed[d] /\ SendNeed'[d] = SendNeed[d]
        /\ RecvNeed'[c] = RecvNeed[c] + 1 /\ SendNeed'[c] = SendNeed[c] - 1
    <3>1. \A d \in Chans : /\ RecvNeed[d] = Len(buf[d]) /\ SendNeed[d] = ChanCap - Len(buf[d])
                           /\ RecvNeed'[d] = Len(buf'[d])
                           /\ SendNeed'[d] = ChanCap - Len(buf'[d])
      BY DEF RecvNeed, SendNeed
    <3>2. c \in Chans /\ Len(buf[c]) \in Nat /\ ChanCap \in Nat
      BY <1>2, <1>3, ChannelAssumption
    <3>3. RecvNeed'[c] = RecvNeed[c] + 1 /\ SendNeed'[c] = SendNeed[c] - 1
      <4> HIDE DEF c
      <4> QED BY <2>3, <3>1, <3>2
    <3>4. \A d \in Chans \ {c} : RecvNeed'[d] = RecvNeed[d] /\ SendNeed'[d] = SendNeed[d]
      <4> TAKE d \in Chans \ {c}
      <4>1. d \in Chans /\ buf'[d] = buf[d]
        BY <2>3
      <4> QED BY <3>1, <4>1
    <3> QED BY <3>3, <3>4
  <2>6. /\ WaitType(waitRecv') /\ PendingType(pending')
        /\ WaitsMatch(state', pending', waitSend, Sends, waitRecv', Recvs)
        /\ Covered(state', pending', waitRecv', Recvs, RecvNeed')
        /\ Covered(state', pending', waitSend, Sends, SendNeed')
    <3>1. Sound(state, pending, waitSend, Sends, waitRecv, Recvs, SendNeed, RecvNeed)
      BY <1>1, <1>2 DEF ChanPart, Sound
    <3>2. Tries(state, pending, Sends, current, o)
      BY <1>2 DEF Tries
    <3>3. Serves(state, pending, waitRecv, current, o, SendNeed, RecvNeed,
                 state', pending', waitRecv', SendNeed', RecvNeed')
      BY <1>4, <2>2, <2>4, <2>5 DEF Serves
    <3> QED BY <3>1, <3>2, <3>3, ServeKeeps
  <2>7. BuffersBounded' /\ UnmadeEmpty' /\ PendingOnMade'
    BY <1>1, <1>2, <1>3, <1>4, <2>3, ChannelAssumption
    DEF ChanPart, BuffersBounded, UnmadeEmpty, PendingOnMade, PendingType
  <2>8. ChanPart'
    BY <1>1, <1>4, <2>3, <2>6, <2>7 DEF ChanPart
  <2> QED BY <2>1, <2>8, ChanPartsNext
<1>5. CASE /\ Len(buf[c]) >= ChanCap
           /\ waitSend' = [waitSend EXCEPT ![c] = Append(@, current)]
           /\ Block(o)
           /\ UNCHANGED <<buf, waitRecv>>
  <2> DEFINE st == [state EXCEPT ![current] = "blocked"]
  <2>1. /\ YieldFrom(st, queue)
        /\ pending' = [pending EXCEPT ![current] = o]
        /\ UNCHANGED <<joining, inc, spent>>
    BY <1>5 DEF Block
  <2>2. SchedInv'
    BY <1>1, <2>1, YieldSchedInv DEF SchedInv, TypeOK
  <2>3. \A y \in Tasks : /\ state'[y] = "blocked" <=> st[y] = "blocked"
                         /\ st[y] \in Runnable => state'[y] \in Runnable
    BY <1>1, <2>1, YieldMoves
  <2>4. SendNeed[c] <= 0
    BY <1>2, <1>3, <1>5, ChannelAssumption DEF SendNeed
  <2>5. /\ WaitType(waitSend') /\ PendingType(pending')
        /\ WaitsMatch(state', pending', waitSend', Sends, waitRecv, Recvs)
        /\ Covered(state', pending', waitRecv, Recvs, RecvNeed)
        /\ Covered(state', pending', waitSend', Sends, SendNeed)
    <3>1. Sound(state, pending, waitSend, Sends, waitRecv, Recvs, SendNeed, RecvNeed)
      BY <1>1, <1>2 DEF ChanPart, Sound
    <3>2. Tries(state, pending, Sends, current, o)
      BY <1>2 DEF Tries
    <3>3. Waits(state, pending, waitSend, current, o, SendNeed, state', pending', waitSend')
      BY <1>5, <2>1, <2>3, <2>4 DEF Waits
    <3> QED BY <3>1, <3>2, <3>3, WaitKeeps
  <2>6. RecvNeed' = RecvNeed /\ SendNeed' = SendNeed
    BY <1>5 DEF RecvNeed, SendNeed
  <2>7. BuffersBounded' /\ UnmadeEmpty' /\ PendingOnMade'
    BY <1>1, <1>2, <1>5, <2>1
    DEF ChanPart, BuffersBounded, UnmadeEmpty, PendingOnMade, PendingType
  <2>8. ChanPart'
    BY <1>1, <1>5, <2>5, <2>6, <2>7 DEF ChanPart, WaitType
  <2> QED BY <2>2, <2>8, ChanPartsNext
<1>6. CASE Trap("unreachable") /\ UNCHANGED <<buf, waitSend, waitRecv, pending>>
  BY <1>6, TrapKeeps DEF chanVars
<1> QED BY <1>4, <1>5, <1>6 DEF SendTry

\* The mirror image for a receive.
LEMMA RecvKeeps ==
  ASSUME ChanInv, halt = "none", NEW o \in Recvs, inuse[o.chan],
         pending[current] \in {NoOp, o}, RecvTry(o), UNCHANGED <<inuse, chanNext>>
  PROVE  ChanInv'
<1> DEFINE c == o.chan
<1>1. SchedInv /\ ChanPart
  BY ChanParts
<1>2. /\ StateType(state) /\ current \in Tasks /\ state[current] # "blocked"
      /\ Kinds(Recvs, Sends) /\ c \in Chans
      /\ SendNeed \in Needs /\ RecvNeed \in Needs
  BY <1>1, RunningFacts, NeedTypes DEF Kinds, Recvs, ChanPart
<1>3. /\ buf \in [Chans -> Seq(Values)] /\ buf[c] \in Seq(Values) /\ Len(buf[c]) \in Nat
      /\ waitSend[c] \in Seq(Tasks) /\ waitRecv[c] \in Seq(Tasks)
      /\ waitSend[c] # << >> => state[Head(waitSend[c])] = "blocked"
  BY <1>1, <1>2 DEF ChanPart, WaitType, WaitsMatch, ListedIn
<1>4. CASE /\ buf[c] # << >>
           /\ buf' = [buf EXCEPT ![c] = Tail(@)]
           /\ Wake(RecvWakes(c))
           /\ waitSend' = [waitSend EXCEPT ![c] = IF RecvWakes(c) = << >> THEN @ ELSE Rest(@)]
           /\ pending' = [pending EXCEPT ![current] = NoOp]
           /\ UNCHANGED <<current, worker, joining, inc, spent, waitRecv>>
  <2>1. /\ SchedInv'
        /\ state' = IF waitSend[c] = << >> THEN state
                    ELSE [state EXCEPT ![Head(waitSend[c])] = "ready"]
    BY <1>1, <1>3, <1>4, WakeSchedInv DEF RecvWakes
  <2>2. \/ waitSend[c] = << >> /\ waitSend' = waitSend /\ state' = state
        \/ /\ waitSend[c] # << >>
           /\ state' = [state EXCEPT ![Head(waitSend[c])] = "ready"]
           /\ waitSend' = [waitSend EXCEPT ![c] = Tail(@)]
    BY <1>1, <1>2, <1>4, <2>1 DEF RecvWakes, Rest, ChanPart, WaitType
  <2>3. /\ buf' \in [Chans -> Seq(Values)] /\ Len(buf'[c]) = Len(buf[c]) - 1
        /\ \A d \in Chans \ {c} : buf'[d] = buf[d]
    BY <1>2, <1>3, <1>4
  <2>4. SendNeed' \in Needs /\ RecvNeed' \in Needs
    BY <2>3, ChannelAssumption DEF SendNeed, RecvNeed, Needs
  <2>5. /\ \A d \in Chans \ {c} : SendNeed'[d] = SendNeed[d] /\ RecvNeed'[d] = RecvNeed[d]
        /\ SendNeed'[c] = SendNeed[c] + 1 /\ RecvNeed'[c] = RecvNeed[c] - 1
    <3>1. \A d \in Chans : /\ RecvNeed[d] = Len(buf[d]) /\ SendNeed[d] = ChanCap - Len(buf[d])
                           /\ RecvNeed'[d] = Len(buf'[d])
                           /\ SendNeed'[d] = ChanCap - Len(buf'[d])
      BY DEF SendNeed, RecvNeed
    <3>2. c \in Chans /\ Len(buf[c]) \in Nat /\ ChanCap \in Nat
      BY <1>2, <1>3, ChannelAssumption
    <3>3. SendNeed'[c] = SendNeed[c] + 1 /\ RecvNeed'[c] = RecvNeed[c] - 1
      <4>1. /\ RecvNeed[c] = Len(buf[c]) /\ SendNeed[c] = ChanCap - Len(buf[c])
            /\ RecvNeed'[c] = Len(buf[c]) - 1 /\ SendNeed'[c] = ChanCap - (Len(buf[c]) - 1)
        BY <2>3, <3>1, <3>2, Zenon
      <4> QED BY <3>2, <4>1
    <3>4. \A d \in Chans \ {c} : SendNeed'[d] = SendNeed[d] /\ RecvNeed'[d] = RecvNeed[d]
      <4> TAKE d \in Chans \ {c}
      <4>1. d \in Chans /\ buf'[d] = buf[d]
        BY <2>3
      <4> QED BY <3>1, <4>1
    <3> QED BY <3>3, <3>4
  <2>6. /\ WaitType(waitSend') /\ PendingType(pending')
        /\ WaitsMatch(state', pending', waitRecv, Recvs, waitSend', Sends)
        /\ Covered(state', pending', waitSend', Sends, SendNeed')
        /\ Covered(state', pending', waitRecv, Recvs, RecvNeed')
    <3>1. Sound(state, pending, waitRecv, Recvs, waitSend, Sends, RecvNeed, SendNeed)
      BY <1>1, <1>2, WaitsMirror DEF ChanPart, Sound
    <3>2. Tries(state, pending, Recvs, current, o)
      BY <1>2 DEF Tries
    <3>3. Serves(state, pending, waitSend, current, o, RecvNeed, SendNeed,
                 state', pending', waitSend', RecvNeed', SendNeed')
      BY <1>4, <2>2, <2>4, <2>5 DEF Serves
    <3> QED BY <3>1, <3>2, <3>3, ServeKeeps
  <2>7. BuffersBounded' /\ UnmadeEmpty' /\ PendingOnMade'
    BY <1>1, <1>2, <1>3, <1>4, <2>3, ChannelAssumption
    DEF ChanPart, BuffersBounded, UnmadeEmpty, PendingOnMade, PendingType
  <2>8. ChanPart'
    BY <1>1, <1>4, <2>3, <2>6, <2>7, WaitsMirror DEF ChanPart
  <2> QED BY <2>1, <2>8, ChanPartsNext
<1>5. CASE /\ buf[c] = << >>
           /\ waitRecv' = [waitRecv EXCEPT ![c] = Append(@, current)]
           /\ Block(o)
           /\ UNCHANGED <<buf, waitSend>>
  <2> DEFINE st == [state EXCEPT ![current] = "blocked"]
  <2>1. /\ YieldFrom(st, queue)
        /\ pending' = [pending EXCEPT ![current] = o]
        /\ UNCHANGED <<joining, inc, spent>>
    BY <1>5 DEF Block
  <2>2. SchedInv'
    BY <1>1, <2>1, YieldSchedInv DEF SchedInv, TypeOK
  <2>3. \A y \in Tasks : /\ state'[y] = "blocked" <=> st[y] = "blocked"
                         /\ st[y] \in Runnable => state'[y] \in Runnable
    BY <1>1, <2>1, YieldMoves
  <2>4. RecvNeed[c] <= 0
    BY <1>2, <1>3, <1>5, ChannelAssumption DEF RecvNeed
  <2>5. /\ WaitType(waitRecv') /\ PendingType(pending')
        /\ WaitsMatch(state', pending', waitRecv', Recvs, waitSend, Sends)
        /\ Covered(state', pending', waitSend, Sends, SendNeed)
        /\ Covered(state', pending', waitRecv', Recvs, RecvNeed)
    <3>1. Sound(state, pending, waitRecv, Recvs, waitSend, Sends, RecvNeed, SendNeed)
      BY <1>1, <1>2, WaitsMirror DEF ChanPart, Sound
    <3>2. Tries(state, pending, Recvs, current, o)
      BY <1>2 DEF Tries
    <3>3. Waits(state, pending, waitRecv, current, o, RecvNeed, state', pending', waitRecv')
      BY <1>5, <2>1, <2>3, <2>4 DEF Waits
    <3> QED BY <3>1, <3>2, <3>3, WaitKeeps
  <2>6. SendNeed' = SendNeed /\ RecvNeed' = RecvNeed
    BY <1>5 DEF SendNeed, RecvNeed
  <2>7. BuffersBounded' /\ UnmadeEmpty' /\ PendingOnMade'
    BY <1>1, <1>2, <1>5, <2>1
    DEF ChanPart, BuffersBounded, UnmadeEmpty, PendingOnMade, PendingType
  <2>8. ChanPart'
    BY <1>1, <1>5, <2>5, <2>6, <2>7, WaitsMirror DEF ChanPart, WaitType
  <2> QED BY <2>2, <2>8, ChanPartsNext
<1>6. CASE Trap("unreachable") /\ UNCHANGED <<buf, waitRecv, waitSend, pending>>
  BY <1>6, TrapKeeps DEF chanVars
<1> QED BY <1>4, <1>5, <1>6 DEF RecvTry

\* A channel that is handed out was never used: its buffer is empty already.
LEMMA MakeKeeps ==
  ASSUME ChanInv, ChanMake PROVE ChanInv'
<1>1. PICK c \in Chans : /\ ~inuse[c]
                         /\ inuse' = [inuse EXCEPT ![c] = TRUE]
                         /\ buf' = [buf EXCEPT ![c] = << >>]
                         /\ chanNext' = After(c)
  BY DEF ChanMake
<1>2. SchedInv /\ ChanPart
  BY ChanParts
<1>3. UNCHANGED <<schedVars, waitSend, waitRecv, pending>>
  BY DEF ChanMake
<1>4. buf' = buf
  BY <1>1, <1>2 DEF ChanPart, UnmadeEmpty
<1>5. chanNext' \in Chans
  BY <1>1, ChannelAssumption DEF After, Chans
<1>6. inuse' \in [Chans -> BOOLEAN] /\ \A d \in Chans : inuse[d] => inuse'[d]
  BY <1>1, <1>2 DEF ChanPart
<1>7. \A t \in Tasks : pending[t] # NoOp => pending[t].chan \in Chans
  BY <1>2 DEF ChanPart, PendingType, Sends, Recvs
<1>8. RecvNeed' = RecvNeed /\ SendNeed' = SendNeed
  BY <1>4 DEF RecvNeed, SendNeed
<1>9. state' = state
  BY <1>3 DEF schedVars
<1>10. BuffersBounded' /\ UnmadeEmpty' /\ PendingOnMade'
  BY <1>2, <1>3, <1>4, <1>6, <1>7
  DEF ChanPart, BuffersBounded, UnmadeEmpty, PendingOnMade
<1>11. ChanPart'
  BY <1>2, <1>3, <1>4, <1>5, <1>6, <1>8, <1>9, <1>10 DEF ChanPart
<1>12. SchedInv'
  BY <1>2, <1>3, SchedStutter
<1> QED BY <1>11, <1>12, ChanPartsNext

\* No task waits, and every channel is free.
\* No task waits, and every channel is free.
LEMMA ChanInitInv == ChanInit => ChanInv
<1> SUFFICES ASSUME ChanInit PROVE ChanInv
  OBVIOUS
<1>1. SchedInv
  BY InitSchedInv DEF ChanInit
<1>2. /\ \A c \in Chans : buf[c] = << >> /\ waitSend[c] = << >> /\ waitRecv[c] = << >>
      /\ \A t \in Tasks : pending[t] = NoOp /\ state[t] # "blocked"
  BY DEF ChanInit, Init
<1>3. WaitsMatch(state, pending, waitSend, Sends, waitRecv, Recvs)
  BY <1>2 DEF WaitsMatch, ListedIn
<1>4. /\ Covered(state, pending, waitRecv, Recvs, RecvNeed)
      /\ Covered(state, pending, waitSend, Sends, SendNeed)
  BY <1>2 DEF Covered
<1>5. BuffersBounded /\ UnmadeEmpty /\ PendingOnMade
  BY <1>2, ChannelAssumption DEF BuffersBounded, UnmadeEmpty, PendingOnMade
<1>6. ChanPart
  BY <1>3, <1>4, <1>5, ChannelAssumption
  DEF ChanInit, ChanPart, WaitType, PendingType, Chans
<1> QED BY <1>1, <1>6, ChanParts

\* Every call of a task keeps the invariant.
\* Every call of a task keeps the invariant.
LEMMA ChanStepInv == ChanInv /\ [ChanNext]_vars => ChanInv'
<1> SUFFICES ASSUME ChanInv, [ChanNext]_vars PROVE ChanInv'
  OBVIOUS
<1>1. CASE TaskStep
  BY <1>1, TaskStepKeeps
<1>2. CASE ChanMake
  BY <1>2, MakeKeeps
<1>3. CASE ChanMakeFail \/ ChanInvalid
  BY <1>3, TrapKeeps DEF ChanMakeFail, ChanInvalid
<1>4. CASE \E o \in Sends : Send(o)
  BY <1>4, SendKeeps DEF Send, AtUserCode, InUserCode
<1>5. CASE \E o \in Recvs : Recv(o)
  BY <1>5, RecvKeeps DEF Recv, AtUserCode, InUserCode
<1>6. CASE SendRetry
  <2>1. /\ halt = "none" /\ pending[current] \in Sends /\ SendTry(pending[current])
        /\ UNCHANGED <<inuse, chanNext>>
    BY <1>6 DEF SendRetry
  <2>2. inuse[pending[current].chan]
    BY <2>1, RunningFacts, KindFacts DEF ChanInv, PendingOnMade, Kinds
  <2> QED BY <2>1, <2>2, SendKeeps
<1>7. CASE RecvRetry
  <2>1. /\ halt = "none" /\ pending[current] \in Recvs /\ RecvTry(pending[current])
        /\ UNCHANGED <<inuse, chanNext>>
    BY <1>7 DEF RecvRetry
  <2>2. inuse[pending[current].chan]
    BY <2>1, RunningFacts, KindFacts DEF ChanInv, PendingOnMade, Kinds
  <2> QED BY <2>1, <2>2, RecvKeeps
<1>8. CASE UNCHANGED vars
  <2>1. SchedInv /\ ChanPart /\ UNCHANGED schedVars /\ UNCHANGED chanVars /\ state' = state
    BY <1>8, ChanParts DEF vars, schedVars
  <2> QED BY <2>1, SchedStutter, MoveKeeps, ChanPartsNext
<1>9. CASE Stopped /\ UNCHANGED chanVars
  BY <1>8, <1>9 DEF Stopped, vars
<1> QED
  BY <1>1, <1>2, <1>3, <1>4, <1>5, <1>6, <1>7, <1>8, <1>9 DEF ChanNext, ChanStep

\* The inductive invariant of scheduler and channels together holds in every
\* reachable state.
THEOREM ChannelInvariant == ChanSpec => []ChanInv
BY ChanInitInv, ChanStepInv, PTL DEF ChanSpec

\* With channels too a task is ready exactly when one ready queue holds it,
\* once: a wake-up never queues a task that is queued already.
THEOREM WakeupsKeepQueuesExact == ChanSpec => []ReadyQueuesExact
<1>1. ChanInv => ReadyQueuesExact
  BY DEF ChanInv, SchedInv
<1> QED BY <1>1, ChannelInvariant, PTL

\* A blocked task is on exactly one wait list, once, inside the operation
\* that list is for, and only blocked tasks are listed.
THEOREM WaitListsExact == ChanSpec => []BlockedIffWaiting
<1>1. ChanInv => BlockedIffWaiting
  BY DEF ChanInv
<1> QED BY <1>1, ChannelInvariant, PTL

\* While receivers wait, every buffered value has a woken receiver on its way.
THEOREM RecvWakeupsNotLost == ChanSpec => []NoLostRecvWakeup
<1>1. ChanInv => NoLostRecvWakeup
  BY DEF ChanInv
<1> QED BY <1>1, ChannelInvariant, PTL

\* While senders wait, every free place has a woken sender on its way.
THEOREM SendWakeupsNotLost == ChanSpec => []NoLostSendWakeup
<1>1. ChanInv => NoLostSendWakeup
  BY DEF ChanInv
<1> QED BY <1>1, ChannelInvariant, PTL

\* The Deadlock trap is raised only when nobody can run, every blocked sender
\* faces a full channel and every blocked receiver an empty one.
THEOREM DeadlockTrapIsReal == ChanSpec => []DeadlockIsReal
<1>1. ChanInv => DeadlockIsReal
  <2> SUFFICES ASSUME ChanInv, halt = "deadlock", NEW t \in Tasks
               PROVE  /\ state[t] \notin Runnable
                      /\ state[t] = "blocked" =>
                           IF pending[t] \in Sends THEN Len(buf[pending[t].chan]) = ChanCap
                           ELSE buf[pending[t].chan] = << >>
    BY DEF DeadlockIsReal, Runnable
  <2>1. \A u \in Tasks : state[u] \notin Runnable
    BY DEF ChanInv, SchedInv, NobodyRunnable, Runnable
  <2>2. \A K, c : Cardinality(Woken(K, c)) = 0
    <3>1. \A K, c : Woken(K, c) = {}
      BY <2>1 DEF Woken, Runnable
    <3> QED BY <3>1, FS_EmptySet
  <2>3. ASSUME state[t] = "blocked"
        PROVE  IF pending[t] \in Sends THEN Len(buf[pending[t].chan]) = ChanCap
               ELSE buf[pending[t].chan] = << >>
    <3> DEFINE c == pending[t].chan
    <3>1. c \in Chans /\ buf[c] \in Seq(Values) /\ Len(buf[c]) <= ChanCap
      <4>1. pending[t] \in Sends \/ pending[t] \in Recvs
        BY <2>3 DEF ChanInv, BlockedIffWaiting
      <4>2. c \in Chans
        BY <4>1 DEF Sends, Recvs
      <4> QED BY <4>2 DEF ChanInv, ChanTypeOK, BuffersBounded
    <3>2. CASE pending[t] \in Sends
      <4>1. OnList(waitSend, t)
        BY <2>3, <3>2, KindFacts DEF ChanInv, BlockedIffWaiting, Kinds
      <4>2. waitSend[c] # << >>
        BY <4>1 DEF OnList
      <4>3. ChanCap - Len(buf[c]) <= 0
        BY <2>2, <3>1, <4>2 DEF ChanInv, NoLostSendWakeup
      <4> QED BY <3>1, <3>2, <4>3, ChannelAssumption
    <3>3. CASE pending[t] \notin Sends
      <4>1. OnList(waitRecv, t)
        BY <2>3, <3>3 DEF ChanInv, BlockedIffWaiting
      <4>2. waitRecv[c] # << >>
        BY <4>1 DEF OnList
      <4>3. Len(buf[c]) <= 0
        BY <2>2, <3>1, <4>2 DEF ChanInv, NoLostRecvWakeup
      <4> QED BY <3>1, <3>3, <4>3
    <3> QED BY <3>2, <3>3
  <2> QED BY <2>1, <2>3
<1> QED BY <1>1, ChannelInvariant, PTL
=============================================================================
