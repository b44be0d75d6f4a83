----------------------------- MODULE TaskQueue -----------------------------
(***************************************************************************)
(* task_queue_t (task.h, receiver.cc): the queue through which every       *)
(* thread of the program (receiver, tuner, service, recording manager,     *)
(* scam, adapter manager) is given work.  A client pushes a task and waits *)
(* for its future; the thread sleeps in epoll_wait until it is notified,   *)
(* acknowledges the notification and executes tasks until the queue is     *)
(* empty.  One client calls stop_running: its task is the last one, runs   *)
(* exit() and makes the thread end.                                        *)
(*                                                                         *)
(* must_exit_ is read without the lock, once by the client before it locks *)
(* the queue and once by the thread after it has unlocked it.              *)
(***************************************************************************)
EXTENDS Naturals, Sequences

CONSTANTS Client,     \* threads that push tasks
          Stopper,    \* the one that stops the thread
          MaxPush     \* bound: how often a client pushes

ASSUME TaskQueueAssumption == Stopper \in Client /\ MaxPush \in Nat \ {0}

VARIABLES
  must_exit, has_exited,   \* flags of task_queue_t
  tasks,                   \* the queue; a task is named by its client
  notified,                \* notify_fd is readable
  tpc,                     \* where the thread is
  running,                 \* the task it has taken from the queue
  cpc,                     \* where each client is
  ready,                   \* clients whose future has a value
  pushes                   \* pushes[c]: pushes so far

vars == <<must_exit, has_exited, tasks, notified, tpc, running, cpc, ready, pushes>>
cvars == <<must_exit, tasks, notified, cpc, ready, pushes>>
tvars == <<has_exited, tpc, running>>

Init ==
  /\ must_exit = FALSE /\ has_exited = FALSE
  /\ tasks = <<>> /\ running = <<>> /\ notified = FALSE
  /\ tpc = "epoll_wait"
  /\ cpc = [c \in Client |-> "idle"]
  /\ ready = {} /\ pushes = [c \in Client |-> 0]

-----------------------------------------------------------------------------
(* push_task_.                                                             *)

\* stop_running asserts that it is called for the first time.
Call(c) ==
  /\ cpc[c] = "idle" /\ pushes[c] < MaxPush
  /\ c = Stopper => ~must_exit
  /\ pushes' = [pushes EXCEPT ![c] = @ + 1]

\* must_exit_ is set: the future of a dummy task is returned, ready.
Refused(c) ==
  /\ Call(c) /\ must_exit
  /\ ready' = ready \cup {c}
  /\ cpc' = [cpc EXCEPT ![c] = "wait"]
  /\ UNCHANGED <<must_exit, tasks, notified, tvars>>

Checked(c) ==
  /\ Call(c) /\ ~must_exit
  /\ cpc' = [cpc EXCEPT ![c] = "checked"]
  /\ UNCHANGED <<must_exit, tasks, notified, ready, tvars>>

\* With the lock held: queue the task and wake the thread up.
Push(c) ==
  /\ cpc[c] = "checked"
  /\ must_exit' = (must_exit \/ c = Stopper)
  /\ tasks' = Append(tasks, c)
  /\ notified' = TRUE
  /\ cpc' = [cpc EXCEPT ![c] = "wait"]
  /\ UNCHANGED <<ready, pushes, tvars>>

\* future.wait(); stop_running also waits for the thread itself.
Wait(c) ==
  /\ cpc[c] = "wait" /\ c \in ready
  /\ c = Stopper => has_exited
  /\ ready' = ready \ {c}
  /\ cpc' = [cpc EXCEPT ![c] = "idle"]
  /\ UNCHANGED <<must_exit, tasks, notified, pushes, tvars>>

-----------------------------------------------------------------------------
(* The thread.                                                             *)

EpollWait ==
  /\ tpc = "epoll_wait" /\ notified
  /\ notified' = FALSE
  /\ tpc' = "run_tasks"
  /\ UNCHANGED <<must_exit, tasks, cpc, ready, pushes, has_exited, running>>

\* Variants: the last task is taken first; the task is not removed.
Pop_last ==
  /\ tpc = "run_tasks" /\ tasks # <<>>
  /\ running' = <<tasks[Len(tasks)]>> /\ tasks' = SubSeq(tasks, 1, Len(tasks) - 1)
  /\ tpc' = "task"
  /\ UNCHANGED <<must_exit, notified, cpc, ready, pushes, has_exited>>

Pop_keeps ==
  /\ tpc = "run_tasks" /\ tasks # <<>>
  /\ running' = <<Head(tasks)>>
  /\ tpc' = "task"
  /\ UNCHANGED <<cvars, has_exited>>

\* With the lock held: take the first task, if there is one.
Pop ==
  /\ tpc = "run_tasks" /\ tasks # <<>>
  /\ running' = <<Head(tasks)>> /\ tasks' = Tail(tasks)
  /\ tpc' = "task"
  /\ UNCHANGED <<must_exit, notified, cpc, ready, pushes, has_exited>>

Empty ==
  /\ tpc = "run_tasks" /\ tasks = <<>>
  /\ tpc' = "check"
  /\ UNCHANGED <<cvars, has_exited, running>>

\* Variant: the task is not forgotten after its execution.
RunTask_kept ==
  /\ tpc = "task"
  /\ ready' = ready \cup {running[1]}
  /\ tpc' = "run_tasks"
  /\ UNCHANGED <<must_exit, tasks, notified, cpc, pushes, has_exited, running>>

\* Execute it (stop_running's task calls exit()): the future has a value.
RunTask ==
  /\ tpc = "task"
  /\ ready' = ready \cup {running[1]}
  /\ running' = <<>> /\ tpc' = "run_tasks"
  /\ UNCHANGED <<must_exit, tasks, notified, cpc, pushes, has_exited>>

\* Variant: the notification is acknowledged after the tasks, not before them.
CheckExit_acknowledges ==
  /\ tpc = "check"
  /\ tpc' = IF must_exit THEN "ended" ELSE "epoll_wait"
  /\ has_exited' = must_exit /\ notified' = FALSE
  /\ UNCHANGED <<must_exit, tasks, cpc, ready, pushes, running>>

\* run_tasks returns -1, run() returns and the thread ends.
CheckExit ==
  /\ tpc = "check"
  /\ tpc' = IF must_exit THEN "ended" ELSE "epoll_wait"
  /\ has_exited' = must_exit
  /\ UNCHANGED <<cvars, running>>

Thread == EpollWait \/ Pop \/ Empty \/ RunTask \/ CheckExit

Next == Thread \/ \E c \in Client : Refused(c) \/ Checked(c) \/ Push(c) \/ Wait(c)

\* The thread is scheduled, and a client goes on with a call it has begun.
Spec == /\ Init /\ [][Next]_vars
        /\ WF_vars(Thread)
        /\ \A c \in Client : WF_vars(Push(c) \/ Wait(c))

-----------------------------------------------------------------------------
\* The states of a task queue; the thread has a task exactly while it executes it.
QueueTypeOK ==
  /\ must_exit \in BOOLEAN /\ has_exited \in BOOLEAN /\ notified \in BOOLEAN
  /\ tasks \in Seq(Client) /\ ready \subseteq Client
  /\ tpc \in {"epoll_wait", "run_tasks", "task", "check", "ended"}
  /\ tpc = "task" => \E c \in Client : running = <<c>>
  /\ tpc # "task" => running = <<>>
  /\ cpc \in [Client -> {"idle", "checked", "wait"}]

\* A sleeping thread knows of its work (push_task_, run_tasks): whenever tasks
\* are queued and the thread waits for events, or has found the queue empty, it
\* has been notified.
NoLostWakeup == tasks # <<>> /\ tpc \in {"epoll_wait", "check"} => notified

\* A task has one outcome: a client that waits has its task in the queue, or
\* being executed, or its future is ready, and exactly one of the three.
OneOutcome ==
  \A c \in Client :
    LET queued == {i \in DOMAIN tasks : tasks[i] = c} IN
    /\ \A i, j \in queued : i = j
    /\ cpc[c] = "wait" <=> (queued # {} \/ running = <<c>> \/ c \in ready)
    /\ ~(queued # {} /\ running = <<c>>)
    /\ c \in ready => queued = {} /\ running # <<c>>

Work == INSTANCE Executor
  WITH todo <- running \o tasks, answered <- ready, stopping <- must_exit

\* The queue implements the executor its clients rely on: first in, first out,
\* each task at most once, an answer only after the execution or a refusal, and
\* every task executed unless the thread is being stopped.
ExecutorSpec == Work!Spec
=============================================================================
