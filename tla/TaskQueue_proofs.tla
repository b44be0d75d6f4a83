-------------------------- MODULE TaskQueue_proofs --------------------------
(***************************************************************************)
(* The task queue for any number of clients and pushes: no wake-up is      *)
(* lost, every task has one outcome, and the queue is a first in first out *)
(* executor.  That tasks are executed at all (Executor's Served) needs     *)
(* fairness and is only model-checked.                                     *)
(***************************************************************************)
EXTENDS TaskQueue, Integers, TLAPS

Inv == QueueTypeOK /\ NoLostWakeup /\ OneOutcome

\* What OneOutcome says of one client.
queued(c) == {i \in DOMAIN tasks : tasks[i] = c}
Outcome(c) ==
  /\ \A i, j \in queued(c) : i = j
  /\ cpc[c] = "wait" <=> (queued(c) # {} \/ running = <<c>> \/ c \in ready)
  /\ ~(queued(c) # {} /\ running = <<c>>)
  /\ c \in ready => queued(c) = {} /\ running # <<c>>

LEMMA OutcomeOfEach == OneOutcome <=> \A c \in Client : Outcome(c)
  BY DEF OneOutcome, Outcome, queued

LEMMA OutcomeOfEachNext == OneOutcome' <=> \A c \in Client : Outcome(c)'
  BY DEF OneOutcome, Outcome, queued

\* Appending a task queues it once more, and nothing else.
LEMMA QueuedAppend ==
  ASSUME NEW s \in Seq(Client), NEW d \in Client, NEW c \in Client
  PROVE  {i \in DOMAIN Append(s, d) : Append(s, d)[i] = c}
           = {i \in DOMAIN s : s[i] = c} \cup (IF c = d THEN {Len(s) + 1} ELSE {})
<1> DEFINE a == Append(s, d)
<1>1. Len(s) \in Nat /\ DOMAIN s = 1 .. Len(s)
  OBVIOUS
<1>2. DOMAIN a = 1 .. Len(s) + 1 /\ a[Len(s) + 1] = d /\ \A i \in 1 .. Len(s) : a[i] = s[i]
  OBVIOUS
<1> HIDE DEF a
<1>3. \A i : i \in 1 .. Len(s) + 1 <=> i \in 1 .. Len(s) \/ i = Len(s) + 1
  BY <1>1
<1>4. Len(s) + 1 \notin 1 .. Len(s)
  BY <1>1
<1>5. {i \in DOMAIN a : a[i] = c}
        = {i \in DOMAIN s : s[i] = c} \cup (IF c = d THEN {Len(s) + 1} ELSE {})
  BY <1>1, <1>2, <1>3, <1>4
<1> QED BY <1>5 DEF a

\* Taking the first task away moves every other one forward by one place.
LEMMA TailOf ==
  ASSUME NEW s \in Seq(Client), s # <<>>
  PROVE  /\ Tail(s) \in Seq(Client) /\ Head(s) \in Client /\ Head(s) = s[1]
         /\ Len(s) \in Nat \ {0} /\ DOMAIN s = 1 .. Len(s)
         /\ DOMAIN Tail(s) = 1 .. Len(s) - 1
         /\ \A i \in DOMAIN Tail(s) : Tail(s)[i] = s[i + 1]
  OBVIOUS

-----------------------------------------------------------------------------
LEMMA InitInv == Init => Inv
<1> SUFFICES ASSUME Init PROVE Inv
  OBVIOUS
<1>1. QueueTypeOK
  <2>1. <<>> \in Seq(Client)
    OBVIOUS
  <2>2. cpc \in [Client -> {"idle", "checked", "wait"}]
    BY DEF Init
  <2>3. tpc # "task" /\ tpc \in {"epoll_wait", "run_tasks", "task", "check", "ended"}
    BY DEF Init
  <2> QED BY <2>1, <2>2, <2>3, Zenon DEF Init, QueueTypeOK
<1>2. NoLostWakeup
  BY DEF Init, NoLostWakeup
<1>3. OneOutcome
  <2>1. \A c \in Client : queued(c) = {} /\ cpc[c] = "idle" /\ running # <<c>>
    <3> SUFFICES ASSUME NEW c \in Client
                 PROVE  queued(c) = {} /\ cpc[c] = "idle" /\ running # <<c>>
      OBVIOUS
    <3>1. <<>> # <<c>> /\ DOMAIN <<>> = {}
      OBVIOUS
    <3>2. queued(c) = {}
      BY <3>1 DEF Init, queued
    <3> QED BY <3>1, <3>2 DEF Init
  <2> QED BY <2>1, OutcomeOfEach DEF Outcome, Init
<1> QED BY <1>1, <1>2, <1>3 DEF Inv

LEMMA TypeNext == QueueTypeOK /\ [Next]_vars => QueueTypeOK'
<1> SUFFICES ASSUME QueueTypeOK, [Next]_vars PROVE QueueTypeOK'
  OBVIOUS
<1> USE DEF QueueTypeOK
<1>1. ASSUME NEW c \in Client, Refused(c) PROVE QueueTypeOK'
  BY <1>1 DEF Refused, Call, tvars
<1>2. ASSUME NEW c \in Client, Checked(c) PROVE QueueTypeOK'
  BY <1>2 DEF Checked, Call, tvars
<1>3. ASSUME NEW c \in Client, Push(c) PROVE QueueTypeOK'
  <2>1. must_exit' \in BOOLEAN
    BY <1>3, TaskQueueAssumption DEF Push
  <2> QED BY <1>3, <2>1 DEF Push, tvars
<1>4. ASSUME NEW c \in Client, Wait(c) PROVE QueueTypeOK'
  BY <1>4 DEF Wait, tvars
<1>5. CASE EpollWait
  BY <1>5 DEF EpollWait
<1>6. CASE Pop
  BY <1>6, TailOf DEF Pop
<1>7. CASE Empty
  BY <1>7 DEF Empty, cvars
<1>8. CASE RunTask
  <2>1. PICK c \in Client : running = <<c>>
    BY <1>8 DEF RunTask
  <2> QED BY <1>8, <2>1 DEF RunTask
<1>9. CASE CheckExit
  BY <1>9 DEF CheckExit, cvars
<1>10. CASE UNCHANGED vars
  BY <1>10 DEF vars
<1> QED BY <1>1, <1>2, <1>3, <1>4, <1>5, <1>6, <1>7, <1>8, <1>9, <1>10 DEF Next, Thread

\* The thread acknowledges before it empties the queue, so a task that is pushed
\* after it has found the queue empty leaves a notification behind.
LEMMA WakeupNext ==
  QueueTypeOK /\ NoLostWakeup /\ [Next]_vars => NoLostWakeup'
<1> SUFFICES ASSUME QueueTypeOK, NoLostWakeup, [Next]_vars PROVE NoLostWakeup'
  OBVIOUS
<1> USE DEF NoLostWakeup
<1>1. ASSUME NEW c \in Client, Refused(c) \/ Checked(c) \/ Wait(c) PROVE NoLostWakeup'
  BY <1>1 DEF Refused, Checked, Wait, tvars
<1>2. ASSUME NEW c \in Client, Push(c) PROVE NoLostWakeup'
  BY <1>2 DEF Push
<1>3. CASE EpollWait \/ Pop \/ RunTask
  BY <1>3 DEF EpollWait, Pop, RunTask
<1>4. CASE Empty
  BY <1>4 DEF Empty, cvars
<1>5. CASE CheckExit
  BY <1>5 DEF CheckExit, cvars
<1>6. CASE UNCHANGED vars
  BY <1>6 DEF vars
<1> QED BY <1>1, <1>2, <1>3, <1>4, <1>5, <1>6 DEF Next, Thread

-----------------------------------------------------------------------------
LEMMA OutcomeStays ==
  ASSUME NEW c \in Client, Outcome(c), tasks' = tasks, running' = running,
         cpc'[c] = cpc[c], c \in ready' <=> c \in ready
  PROVE  Outcome(c)'
  BY DEF Outcome, queued

LEMMA OutcomePush ==
  ASSUME QueueTypeOK, NEW d \in Client, Push(d), NEW c \in Client, Outcome(c)
  PROVE  Outcome(c)'
<1>1. /\ tasks \in Seq(Client) /\ tasks' = Append(tasks, d) /\ cpc[d] = "checked"
      /\ running' = running /\ ready' = ready
      /\ cpc \in [Client -> {"idle", "checked", "wait"}]
      /\ cpc' = [cpc EXCEPT ![d] = "wait"]
  BY DEF QueueTypeOK, Push, tvars
<1>2. queued(c)' = queued(c) \cup (IF c = d THEN {Len(tasks) + 1} ELSE {})
  BY <1>1, QueuedAppend DEF queued
<1>3. CASE c = d
  <2>1. queued(c) = {} /\ running # <<c>> /\ c \notin ready
    BY <1>1, <1>3 DEF Outcome
  <2>2. queued(c)' = {Len(tasks) + 1} /\ cpc'[c] = "wait"
    BY <1>1, <1>2, <1>3, <2>1
  <2> QED BY <1>1, <2>1, <2>2 DEF Outcome
<1>4. CASE c # d
  <2>1. queued(c)' = queued(c) /\ cpc'[c] = cpc[c]
    BY <1>1, <1>2, <1>4
  <2> QED BY <1>1, <2>1 DEF Outcome
<1> QED BY <1>3, <1>4

LEMMA OutcomePop ==
  ASSUME QueueTypeOK, Pop, NEW c \in Client, Outcome(c)
  PROVE  Outcome(c)'
<1>1. /\ tasks \in Seq(Client) /\ tasks # <<>> /\ tasks' = Tail(tasks)
      /\ running = <<>> /\ running' = <<Head(tasks)>>
      /\ cpc' = cpc /\ ready' = ready
  BY DEF QueueTypeOK, Pop
<1>2. /\ Head(tasks) = tasks[1]
      /\ Len(tasks) \in Nat \ {0} /\ DOMAIN tasks = 1 .. Len(tasks)
      /\ DOMAIN Tail(tasks) = 1 .. Len(tasks) - 1
      /\ \A i \in DOMAIN Tail(tasks) : Tail(tasks)[i] = tasks[i + 1]
  BY <1>1, TailOf
<1>3. \A i : i \in queued(c)' <=> i \in 1 .. Len(tasks) - 1 /\ tasks[i + 1] = c
  BY <1>1, <1>2 DEF queued
<1>4. \A i \in queued(c)' : i \in Int /\ i + 1 \in queued(c) /\ i + 1 # 1
  BY <1>2, <1>3 DEF queued
<1>5. \A i, j \in queued(c)' : i = j
  <2> SUFFICES ASSUME NEW i \in queued(c)', NEW j \in queued(c)' PROVE i = j
    OBVIOUS
  <2>1. i + 1 = j + 1
    BY <1>4 DEF Outcome
  <2> QED BY <1>4, <2>1
<1>6. <<>> # <<c>> /\ (<<Head(tasks)>> = <<c>> <=> Head(tasks) = c)
  OBVIOUS
<1>7. CASE Head(tasks) = c
  <2>1. 1 \in queued(c)
    BY <1>2, <1>7 DEF queued
  <2>2. queued(c)' = {}
    BY <1>4, <2>1 DEF Outcome
  <2>3. c \notin ready /\ cpc[c] = "wait"
    BY <2>1 DEF Outcome
  <2> QED BY <1>1, <1>6, <1>7, <2>2, <2>3 DEF Outcome
<1>8. CASE Head(tasks) # c
  <2>1. \A i \in queued(c) : i - 1 \in queued(c)'
    <3> SUFFICES ASSUME NEW i \in queued(c) PROVE i - 1 \in queued(c)'
      OBVIOUS
    <3>1. i \in 1 .. Len(tasks) /\ tasks[i] = c /\ i # 1
      BY <1>2, <1>8 DEF queued
    <3>2. i - 1 \in 1 .. Len(tasks) - 1 /\ (i - 1) + 1 = i
      BY <1>2, <3>1
    <3> QED BY <1>3, <3>1, <3>2
  <2>2. queued(c)' # {} <=> queued(c) # {}
    BY <1>4, <2>1
  <2>3. running # <<c>> /\ running' # <<c>>
    BY <1>1, <1>6, <1>8
  <2> QED BY <1>1, <1>5, <2>2, <2>3 DEF Outcome
<1> QED BY <1>7, <1>8

LEMMA OutcomeRun ==
  ASSUME QueueTypeOK, RunTask, NEW c \in Client, Outcome(c)
  PROVE  Outcome(c)'
<1>1. PICK d \in Client : running = <<d>>
  BY DEF QueueTypeOK, RunTask
<1>2. /\ ready' = ready \cup {d} /\ running' = <<>> /\ tasks' = tasks /\ cpc' = cpc
  BY <1>1 DEF RunTask
<1>3. queued(c)' = queued(c) /\ running' # <<c>> /\ (running = <<c>> <=> c = d)
  BY <1>1, <1>2 DEF queued
<1> QED BY <1>2, <1>3 DEF Outcome

\* The queue, the thread and the futures hand a task over to each other in one
\* step each: it is never in two places, and never nowhere.
LEMMA OutcomeNext ==
  QueueTypeOK /\ OneOutcome /\ [Next]_vars => OneOutcome'
<1> SUFFICES ASSUME QueueTypeOK, OneOutcome, [Next]_vars, NEW c \in Client
             PROVE  Outcome(c)'
  BY OutcomeOfEachNext
<1>0. Outcome(c) /\ cpc \in [Client -> {"idle", "checked", "wait"}]
  BY OutcomeOfEach DEF QueueTypeOK
<1>1. ASSUME NEW d \in Client, Refused(d) PROVE Outcome(c)'
  <2>1. /\ cpc[d] = "idle" /\ ready' = ready \cup {d} /\ cpc' = [cpc EXCEPT ![d] = "wait"]
        /\ tasks' = tasks /\ running' = running
    BY <1>1 DEF Refused, Call, tvars
  <2>2. queued(c)' = queued(c)
    BY <2>1 DEF queued
  <2> QED BY <1>0, <2>1, <2>2 DEF Outcome
<1>2. ASSUME NEW d \in Client, Checked(d) PROVE Outcome(c)'
  <2>1. /\ cpc[d] = "idle" /\ ready' = ready /\ cpc' = [cpc EXCEPT ![d] = "checked"]
        /\ tasks' = tasks /\ running' = running
    BY <1>2 DEF Checked, Call, tvars
  <2>2. queued(c)' = queued(c)
    BY <2>1 DEF queued
  <2> QED BY <1>0, <2>1, <2>2 DEF Outcome
<1>3. ASSUME NEW d \in Client, Push(d) PROVE Outcome(c)'
  BY <1>0, <1>3, OutcomePush
<1>4. ASSUME NEW d \in Client, Wait(d) PROVE Outcome(c)'
  <2>1. /\ cpc[d] = "wait" /\ d \in ready /\ ready' = ready \ {d}
        /\ cpc' = [cpc EXCEPT ![d] = "idle"] /\ tasks' = tasks /\ running' = running
    BY <1>4 DEF Wait, tvars
  <2>2. queued(c)' = queued(c)
    BY <2>1 DEF queued
  <2> QED BY <1>0, <2>1, <2>2 DEF Outcome
<1>5. CASE EpollWait \/ Empty \/ CheckExit
  BY <1>0, <1>5, OutcomeStays DEF EpollWait, Empty, CheckExit, cvars
<1>6. CASE Pop
  BY <1>0, <1>6, OutcomePop
<1>7. CASE RunTask
  BY <1>0, <1>7, OutcomeRun
<1>8. CASE UNCHANGED vars
  BY <1>0, <1>8, OutcomeStays DEF vars
<1> QED BY <1>1, <1>2, <1>3, <1>4, <1>5, <1>6, <1>7, <1>8 DEF Next, Thread

LEMMA Invariance == Spec => []Inv
<1>1. Inv /\ [Next]_vars => Inv'
  BY TypeNext, WakeupNext, OutcomeNext DEF Inv
<1> QED BY InitInv, <1>1, PTL DEF Spec

\* The states of the task queue of a thread (task.h).
THEOREM QueueType == Spec => []QueueTypeOK
<1>1. Inv => QueueTypeOK
  BY DEF Inv
<1> QED BY Invariance, <1>1, PTL

\* No thread sleeps while tasks wait for it (push_task_, run_tasks), however
\* many threads push.
THEOREM Wakeup == Spec => []NoLostWakeup
<1>1. Inv => NoLostWakeup
  BY DEF Inv
<1> QED BY Invariance, <1>1, PTL

\* A client that waits for a future has its task in exactly one place: queued,
\* being executed, or answered (push_task_, run_tasks).
THEOREM Outcomes == Spec => []OneOutcome
<1>1. Inv => OneOutcome
  BY DEF Inv
<1> QED BY Invariance, <1>1, PTL

-----------------------------------------------------------------------------
(* The queue implements the executor.                                      *)

LEMMA SequenceFacts ==
  ASSUME NEW s \in Seq(Client), NEW c \in Client, NEW d \in Client
  PROVE  /\ <<>> \o s = s
         /\ <<>> \o Append(s, c) = Append(<<>> \o s, c)
         /\ <<d>> \o Append(s, c) = Append(<<d>> \o s, c)
         /\ <<d>> \o s # <<>> /\ Head(<<d>> \o s) = d /\ Tail(<<d>> \o s) = s
         /\ s # <<>> => <<Head(s)>> \o Tail(s) = s
<1>1. s # <<>> => <<Head(s)>> \o Tail(s) = s
  <2> SUFFICES ASSUME s # <<>> PROVE <<Head(s)>> \o Tail(s) = s
    OBVIOUS
  <2> DEFINE t == <<Head(s)>> \o Tail(s)
  <2>1. /\ Head(s) \in Client /\ Head(s) = s[1] /\ Tail(s) \in Seq(Client)
        /\ Len(s) \in Nat \ {0} /\ Len(Tail(s)) = Len(s) - 1
        /\ \A i \in 1 .. Len(s) - 1 : Tail(s)[i] = s[i + 1]
    OBVIOUS
  <2>2. /\ t \in Seq(Client) /\ Len(t) = Len(s) /\ t[1] = s[1]
        /\ \A i \in 2 .. Len(s) : t[i] = Tail(s)[i - 1]
    BY <2>1
  <2> HIDE DEF t
  <2>3. \A i \in 1 .. Len(s) : t[i] = s[i]
    <3> SUFFICES ASSUME NEW i \in 1 .. Len(s) PROVE t[i] = s[i]
      OBVIOUS
    <3>1. CASE i = 1
      BY <2>2, <3>1
    <3>2. CASE i # 1
      <4>1. i \in 2 .. Len(s) /\ i - 1 \in 1 .. Len(s) - 1 /\ (i - 1) + 1 = i
        BY <2>1, <3>2
      <4> QED BY <2>1, <2>2, <4>1
    <3> QED BY <3>1, <3>2
  <2>4. t = s
    BY <2>2, <2>3
  <2> QED BY <2>4 DEF t
<1> QED BY <1>1

LEMMA Accepted ==
  ASSUME Inv, NEW c \in Client, Push(c)
  PROVE  Work!Accept(c)
<1>1. /\ tasks \in Seq(Client) /\ tasks' = Append(tasks, c) /\ cpc[c] = "checked"
      /\ running' = running /\ ready' = ready
  BY DEF Inv, QueueTypeOK, Push, tvars
<1>2. ready = ready \ {c}
  <2>1. c \notin ready
    BY <1>1, OutcomeOfEach DEF Inv, Outcome
  <2> QED BY <2>1
<1>3. running = <<>> \/ \E d \in Client : running = <<d>>
  BY DEF Inv, QueueTypeOK
<1>4. running \o Append(tasks, c) = Append(running \o tasks, c)
  BY <1>1, <1>3, SequenceFacts
<1>5. must_exit' \in {must_exit, TRUE}
  BY DEF Inv, QueueTypeOK, Push
<1> QED BY <1>1, <1>2, <1>4, <1>5 DEF Work!Accept

LEMMA Executed ==
  ASSUME Inv, RunTask
  PROVE  Work!Execute
<1>1. PICK d \in Client : running = <<d>>
  BY DEF Inv, QueueTypeOK, RunTask
<1>2. /\ tasks \in Seq(Client) /\ tasks' = tasks /\ ready' = ready \cup {d}
      /\ running' = <<>> /\ must_exit' = must_exit
  BY <1>1 DEF Inv, QueueTypeOK, RunTask
<1>3. /\ running \o tasks # <<>> /\ Head(running \o tasks) = d
      /\ (running \o tasks)' = Tail(running \o tasks)
  BY <1>1, <1>2, SequenceFacts
<1> QED BY <1>2, <1>3 DEF Work!Execute

LEMMA StepImplements ==
  Inv /\ [Next]_vars => [Work!Next]_(Work!vars)
<1> SUFFICES ASSUME Inv, [Next]_vars PROVE [Work!Next]_(Work!vars)
  OBVIOUS
<1>1. ASSUME NEW c \in Client, Refused(c) PROVE Work!Refuse(c)
  BY <1>1 DEF Refused, tvars, Work!Refuse
<1>2. ASSUME NEW c \in Client, Checked(c) PROVE UNCHANGED Work!vars
  BY <1>2 DEF Checked, tvars, Work!vars
<1>3. ASSUME NEW c \in Client, Push(c) PROVE Work!Accept(c)
  BY <1>3, Accepted
<1>4. ASSUME NEW c \in Client, Wait(c) PROVE Work!Read(c)
  BY <1>4 DEF Wait, tvars, Work!Read
<1>5. CASE EpollWait \/ Empty \/ CheckExit
  BY <1>5 DEF EpollWait, Empty, CheckExit, cvars, Work!vars
<1>6. CASE Pop
  <2>1. /\ tasks \in Seq(Client) /\ tasks # <<>> /\ running = <<>>
        /\ running' = <<Head(tasks)>> /\ tasks' = Tail(tasks)
        /\ ready' = ready /\ must_exit' = must_exit
    BY <1>6 DEF Inv, QueueTypeOK, Pop
  <2>2. Head(tasks) \in Client
    BY <2>1, TailOf
  <2>3. running \o tasks = tasks /\ (running \o tasks)' = tasks
    BY <2>1, <2>2, SequenceFacts
  <2> QED BY <2>1, <2>3 DEF Work!vars
<1>7. CASE RunTask
  BY <1>7, Executed DEF Work!Next
<1>8. CASE UNCHANGED vars
  BY <1>8 DEF vars, Work!vars
<1> QED BY <1>1, <1>2, <1>3, <1>4, <1>5, <1>6, <1>7, <1>8 DEF Next, Thread, Work!Next

\* The queue is a first in first out executor for any number of threads: a step
\* of push_task_ or run_tasks is a step of Executor or is not visible to a client.
THEOREM QueueIsExecutor == Spec => Work!Safety
<1>1. Init => Work!Init
  <2> SUFFICES ASSUME Init PROVE Work!Init
    OBVIOUS
  <2>1. running \o tasks = <<>>
    BY DEF Init
  <2> QED BY <2>1 DEF Init, Work!Init
<1> QED BY <1>1, StepImplements, Invariance, PTL DEF Spec, Work!Safety

=============================================================================
