---------------------------- MODULE RequestReply ----------------------------
(***************************************************************************)
(* One fixed program on the real scheduler and channels: main spawns a     *)
(* worker, gets a value from it, sends one back and joins it; the worker   *)
(* sends, receives and returns.  Every operation is the action of module   *)
(* Channels; only the order is fixed, so the run is deterministic.         *)
(***************************************************************************)
EXTENDS Channels

VARIABLE pc   \* how many operations of its program each task has begun

Worker == 1
Up     == [op |-> "recv", chan |-> 0]
Down   == [op |-> "recv", chan |-> 1]
Put(c) == CHOOSE o \in Sends : o.chan = c

OnTasks(A) == A /\ UNCHANGED chanVars

MainProgram(n) ==
  \/ n \in {0, 1} /\ ChanMake
  \/ n = 2 /\ OnTasks(Spawn)
  \/ n = 3 /\ Recv(Up)
  \/ n = 4 /\ Send(Put(1))
  \/ n = 5 /\ OnTasks(Join([slot |-> Worker, inc |-> 1]))
  \/ n = 6 /\ OnTasks(MainReturn)

WorkerProgram(n) ==
  \/ n = 0 /\ Send(Put(0))
  \/ n = 1 /\ Recv(Down)
  \/ n = 2 /\ OnTasks(Exit)

Begin ==
  /\ AtUserCode
  /\ pc' = [pc EXCEPT ![current] = @ + 1]
  /\ \/ current = Main /\ MainProgram(pc[current])
     \/ current = Worker /\ WorkerProgram(pc[current])

Resume ==
  /\ SendRetry \/ RecvRetry \/ (pending[current] = NoOp /\ OnTasks(JoinAgain))
  /\ UNCHANGED pc

ProgramInit == ChanInit /\ pc = [t \in Tasks |-> 0]
ProgramNext == Begin \/ Resume \/ (Stopped /\ UNCHANGED <<chanVars, pc>>)
ProgramSpec == ProgramInit /\ [][ProgramNext]_<<vars, pc>> /\ WF_<<vars, pc>>(ProgramNext)

\* "`join` ... may block until the worker finishes": nothing in this program
\* keeps the worker from finishing, so main gets past the join and returns.
JoinGetsItsWorker == <>(halt = "exit" /\ current = Main)
=============================================================================
