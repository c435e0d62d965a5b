------------------------------ MODULE Channels ------------------------------
(***************************************************************************)
(* Typed channels on top of the scheduler: the code that                   *)
(* crates/codegen-x86_64/src/channel.rs emits inline for                   *)
(* platform.channel.make, `|>` (send) and `<|` (recv).  A send to a full   *)
(* channel and a receive from an empty one put the task on the channel's   *)
(* wait list, block it and yield; the partner that makes room or brings a  *)
(* value wakes one waiter into the global ready queue, and the woken task  *)
(* tries again from the start.                                             *)
(***************************************************************************)
EXTENDS TaskScheduler, FiniteSets

CONSTANTS
  NChans,   \* channels (16 in the code)
  ChanCap,  \* values a channel buffers (64)
  WaitCap,  \* tasks on one wait list (8)
  Values    \* the payloads

ASSUME ChannelAssumption ==
  /\ NChans \in Nat \ {0}
  /\ ChanCap \in Nat \ {0}
  /\ WaitCap \in Nat \ {0}

VARIABLES
  inuse,     \* __chan_inuse
  chanNext,  \* __chan_next: where the next chan_make starts to look
  buf,       \* __chan_buf between __chan_head and __chan_tail
  waitSend,  \* __chan_wait_send_*: senders blocked on a full channel
  waitRecv,  \* __chan_wait_recv_*: receivers blocked on an empty channel
  pending    \* the send or receive a blocked or woken task is inside of

chanVars == <<inuse, chanNext, buf, waitSend, waitRecv, pending>>
vars == <<schedVars, chanVars>>

Chans == 0 .. NChans - 1
Sends == [op : {"send"}, chan : Chans, val : Values]
Recvs == [op : {"recv"}, chan : Chans]
NoOp  == [op |-> "none"]

ChanInit ==
  /\ Init
  /\ inuse = [c \in Chans |-> FALSE]
  /\ chanNext = 0
  /\ buf = [c \in Chans |-> << >>]
  /\ waitSend = [c \in Chans |-> << >>]
  /\ waitRecv = [c \in Chans |-> << >>]
  /\ pending = [t \in Tasks |-> NoOp]

\* The current task executes code outside the scheduler and the channels.
AtUserCode == InUserCode /\ pending[current] = NoOp

After(c) == IF c + 1 < NChans THEN c + 1 ELSE 0

\* emit_chan_make: the first unused channel from chanNext on, round robin.
\* No channel is ever given back, so that is always chanNext itself unless
\* all are in use.
ChanMake ==
  /\ AtUserCode
  /\ \E c \in Chans :
       /\ ~inuse[c]
       /\ \A d \in Chans : ~inuse[d] =>
            (c - chanNext) % NChans <= (d - chanNext) % NChans
       /\ inuse' = [inuse EXCEPT ![c] = TRUE]
       /\ buf' = [buf EXCEPT ![c] = << >>]
       /\ chanNext' = After(c)
  /\ UNCHANGED <<schedVars, waitSend, waitRecv, pending>>

\* emit_chan_make with every channel in use.
ChanMakeFail ==
  /\ AtUserCode
  /\ \A c \in Chans : inuse[c]
  /\ Trap("unreachable")
  /\ UNCHANGED chanVars

\* A send or receive on a number that is no channel in use (a handle can be
\* made with bitcast).
ChanInvalid ==
  /\ AtUserCode
  /\ Trap("unreachable")
  /\ UNCHANGED chanVars

\* Mutant of GlobalRoom: the worker queue's limit.
GlobalRoomSmall == Len(queue[Global]) < WorkerCap

GlobalRoom == Len(queue[Global]) < GlobalCap

\* Wake the first task of wait list w: it becomes ready in the global queue,
\* and TASK_QUEUE_OVERFLOW is raised if that has no room.
Wake(w) ==
  IF w = << >> THEN UNCHANGED <<state, queue, halt>>
  ELSE /\ state' = [state EXCEPT ![Head(w)] = "ready"]
       /\ IF GlobalRoom
          THEN queue' = Push(queue, Global, Head(w)) /\ UNCHANGED halt
          ELSE halt' = "overflow" /\ UNCHANGED queue

\* The wait list after a wake-up.  Mutant: its head is not advanced.
RestStuck(w) == w

Rest(w) == Tail(w)

\* Mutants of the wait list that a send or a receive wakes from: only on the
\* edge from empty or from full; never.
SendWakesOnEdge(c) == IF buf[c] = << >> THEN waitRecv[c] ELSE << >>
RecvWakesOnEdge(c) == IF Len(buf[c]) = ChanCap THEN waitSend[c] ELSE << >>
SendWakesNobody(c) == << >>

\* A send wakes a waiting receiver, a receive a waiting sender.
SendWakes(c) == waitRecv[c]
RecvWakes(c) == waitSend[c]

\* Mutant of Block: the task goes to the wait list but stays running.
BlockStillRunning(o) ==
  /\ YieldFrom(state, queue)
  /\ pending' = [pending EXCEPT ![current] = o]
  /\ UNCHANGED <<joining, inc, spent>>

\* The current task blocks inside operation o and yields.
Block(o) ==
  /\ YieldFrom([state EXCEPT ![current] = "blocked"], queue)
  /\ pending' = [pending EXCEPT ![current] = o]
  /\ UNCHANGED <<joining, inc, spent>>

\* From .chan_send_retry on: put the value and wake a receiver, or wait.
SendTry(o) ==
  LET c == o.chan
  IN  \/ /\ Len(buf[c]) < ChanCap
         /\ buf' = [buf EXCEPT ![c] = Append(@, o.val)]
         /\ Wake(SendWakes(c))
         /\ waitRecv' = [waitRecv EXCEPT ![c] = IF SendWakes(c) = << >> THEN @ ELSE Rest(@)]
         /\ pending' = [pending EXCEPT ![current] = NoOp]
         /\ UNCHANGED <<current, worker, joining, inc, spent, waitSend>>
      \/ /\ Len(buf[c]) >= ChanCap
         /\ Len(waitSend[c]) < WaitCap
         /\ waitSend' = [waitSend EXCEPT ![c] = Append(@, current)]
         /\ Block(o)
         /\ UNCHANGED <<buf, waitRecv>>
      \/ /\ Len(buf[c]) >= ChanCap
         /\ Len(waitSend[c]) >= WaitCap
         /\ Trap("unreachable")
         /\ UNCHANGED <<buf, waitSend, waitRecv, pending>>

\* From .chan_recv_retry on: take a value and wake a sender, or wait.
RecvTry(o) ==
  LET c == o.chan
  IN  \/ /\ buf[c] # << >>
         /\ buf' = [buf EXCEPT ![c] = Tail(@)]
         /\ Wake(RecvWakes(c))
         /\ waitSend' = [waitSend EXCEPT ![c] = IF RecvWakes(c) = << >> THEN @ ELSE Rest(@)]
         /\ pending' = [pending EXCEPT ![current] = NoOp]
         /\ UNCHANGED <<current, worker, joining, inc, spent, waitRecv>>
      \/ /\ buf[c] = << >>
         /\ Len(waitRecv[c]) < WaitCap
         /\ waitRecv' = [waitRecv EXCEPT ![c] = Append(@, current)]
         /\ Block(o)
         /\ UNCHANGED <<buf, waitSend>>
      \/ /\ buf[c] = << >>
         /\ Len(waitRecv[c]) >= WaitCap
         /\ Trap("unreachable")
         /\ UNCHANGED <<buf, waitSend, waitRecv, pending>>

Send(o) == AtUserCode /\ inuse[o.chan] /\ SendTry(o) /\ UNCHANGED <<inuse, chanNext>>
Recv(o) == AtUserCode /\ inuse[o.chan] /\ RecvTry(o) /\ UNCHANGED <<inuse, chanNext>>

\* A woken task is switched to and tries again.
SendRetry ==
  /\ halt = "none"
  /\ pending[current] \in Sends
  /\ SendTry(pending[current])
  /\ UNCHANGED <<inuse, chanNext>>

RecvRetry ==
  /\ halt = "none"
  /\ pending[current] \in Recvs
  /\ RecvTry(pending[current])
  /\ UNCHANGED <<inuse, chanNext>>

TaskStep == pending[current] = NoOp /\ SchedStep /\ UNCHANGED chanVars

ChanStep ==
  \/ ChanMake
  \/ ChanMakeFail
  \/ ChanInvalid
  \/ \E o \in Sends : Send(o)
  \/ \E o \in Recvs : Recv(o)
  \/ SendRetry
  \/ RecvRetry

ChanNext == TaskStep \/ ChanStep \/ (Stopped /\ UNCHANGED chanVars)

ChanSpec == ChanInit /\ [][ChanNext]_vars /\ WF_vars(ChanNext)
-----------------------------------------------------------------------------
\* The types of the channel variables.
ChanTypeOK ==
  /\ TypeOK
  /\ inuse \in [Chans -> BOOLEAN]
  /\ chanNext \in Chans
  /\ buf \in [Chans -> Seq(Values)]
  /\ waitSend \in [Chans -> Seq(Tasks)]
  /\ waitRecv \in [Chans -> Seq(Tasks)]
  /\ pending \in [Tasks -> Sends \cup Recvs \cup {NoOp}]

\* Tasks that were woken out of a wait list of channel c and have not yet
\* tried again.
Woken(kind, c) ==
  {t \in Tasks : /\ state[t] \in {"ready", "running"}
                 /\ pending[t] \in kind
                 /\ pending[t].chan = c}

\* No wake-up is lost on the way to a receiver: while receivers wait, every
\* buffered value has a woken receiver coming for it.
NoLostRecvWakeup ==
  \A c \in Chans : waitRecv[c] # << >> => Len(buf[c]) <= Cardinality(Woken(Recvs, c))

\* No wake-up is lost on the way to a sender: while senders wait, every free
\* place has a woken sender coming for it.
NoLostSendWakeup ==
  \A c \in Chans :
    waitSend[c] # << >> => ChanCap - Len(buf[c]) <= Cardinality(Woken(Sends, c))

\* The tasks on wait lists w are blocked inside an operation of that kind on
\* that channel, and each is listed once.
Listed(w, kind) ==
  \A c \in Chans : \A i \in 1 .. Len(w[c]) :
    /\ state[w[c][i]] = "blocked"
    /\ pending[w[c][i]] \in kind
    /\ pending[w[c][i]].chan = c
    /\ \A j \in 1 .. Len(w[c]) : w[c][i] = w[c][j] => i = j

OnList(w, t) == \E i \in 1 .. Len(w[pending[t].chan]) : w[pending[t].chan][i] = t

\* A blocked task is on exactly one wait list, once, and only blocked tasks
\* are: nobody is woken twice, nobody sleeps where no partner will look.
BlockedIffWaiting ==
  /\ Listed(waitSend, Sends)
  /\ Listed(waitRecv, Recvs)
  /\ \A t \in Tasks : state[t] = "blocked" =>
       \/ pending[t] \in Sends /\ OnList(waitSend, t)
       \/ pending[t] \in Recvs /\ OnList(waitRecv, t)

\* The Deadlock trap is raised only in a real deadlock: nobody can run, every
\* blocked sender faces a full channel and every blocked receiver an empty one.
DeadlockIsReal ==
  halt = "deadlock" =>
    \A t \in Tasks :
      /\ state[t] \notin {"ready", "running"}
      /\ state[t] = "blocked" =>
           IF pending[t] \in Sends THEN Len(buf[pending[t].chan]) = ChanCap
           ELSE buf[pending[t].chan] = << >>

\* What the error registry says of DEADLOCK (25), "all tasks blocked and
\* nothing is runnable": a program that stops because nothing is runnable
\* while a task is still blocked stops with that trap.
StuckIsDeadlock ==
  (halt = "exit" /\ current # Main) => \A t \in Tasks : state[t] # "blocked"
=============================================================================
