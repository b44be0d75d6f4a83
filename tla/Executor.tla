------------------------------ MODULE Executor ------------------------------
(***************************************************************************)
(* What a thread with a task queue promises to the threads that give it    *)
(* work: accepted tasks are executed one at a time, in the order in which  *)
(* they were accepted, each at most once; a client gets its answer when    *)
(* its task has been executed, or when it was refused because the thread   *)
(* has been told to stop.  Once told to stop, the thread may leave what it *)
(* has not executed yet.                                                   *)
(***************************************************************************)
EXTENDS Sequences, Naturals

CONSTANT Client

VARIABLES todo,      \* accepted and not yet executed, the running one first
          answered,  \* clients that have their answer
          stopping   \* told to stop

vars == <<todo, answered, stopping>>

Init == todo = <<>> /\ answered = {} /\ stopping = FALSE

Accept(c) ==
  /\ todo' = Append(todo, c)
  /\ answered' = answered \ {c}
  /\ stopping' \in {stopping, TRUE}

Refuse(c) ==
  /\ stopping
  /\ answered' = answered \cup {c}
  /\ UNCHANGED <<todo, stopping>>

Execute ==
  /\ todo # <<>>
  /\ todo' = Tail(todo)
  /\ answered' = answered \cup {Head(todo)}
  /\ UNCHANGED stopping

\* The client has read its answer.
Read(c) ==
  /\ answered' = answered \ {c}
  /\ UNCHANGED <<todo, stopping>>

Next == Execute \/ \E c \in Client : Accept(c) \/ Refuse(c) \/ Read(c)

\* As long as the thread has not been told to stop, every accepted task is
\* executed.
Served == \A c \in Client :
  (\E i \in DOMAIN todo : todo[i] = c) ~> (stopping \/ c \in answered)

Safety == Init /\ [][Next]_vars

Spec == Safety /\ Served
=============================================================================
