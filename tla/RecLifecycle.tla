---------------------------- MODULE RecLifecycle ----------------------------
(***************************************************************************)
(* What the user is promised about recordings, without processes, threads, *)
(* tuners and live buffers: the life of a recording between the moment it  *)
(* is scheduled and the moment it is over.                                 *)
(*                                                                         *)
(* Guide entries change, so a recording may move from one key to another   *)
(* key that overlaps it.  "lost" is the set of events whose record was     *)
(* overwritten from a copy that was no longer current: for those the code  *)
(* promises nothing but that they are over in the end.                     *)
(***************************************************************************)
EXTENDS Naturals

CONSTANTS Key, Event, From, To, overlapping(_, _)

VARIABLES clock, st, lost

Pending == {"SCHEDULED", "IN_PROGRESS"}

\* One recording goes from a to b.
Schedule(k, a, b) == a \notin Pending /\ b = "SCHEDULED"
Cancel(k, a, b)   == a = "SCHEDULED" /\ b = "NONE"
Begin(k, a, b)    == a = "SCHEDULED" /\ b = "IN_PROGRESS" /\ From[k] <= clock
Miss(k, a, b)     == a = "SCHEDULED" /\ b = "FAILED" /\ To[k] <= clock
Complete(k, a, b) == a = "IN_PROGRESS" /\ b = "FINISHED"
Resume(k, a, b)   == a = "IN_PROGRESS" /\ b = "SCHEDULED"

Goes(k, a, b) ==
  \/ a = b \/ Schedule(k, a, b) \/ Cancel(k, a, b) \/ Begin(k, a, b)
  \/ Miss(k, a, b) \/ Complete(k, a, b) \/ Resume(k, a, b)

\* The recording of j follows the guide to k.
Moves(j, k) ==
  /\ st[j] \in Pending /\ overlapping(j, k)
  /\ st'[j] = "NONE" /\ st'[k] = st[j]

Moved == {j \in Key : \E k \in Key \ {j} : Moves(j, k) \/ Moves(k, j)}

Init == clock = 0 /\ st = [k \in Key |-> "NONE"] /\ lost = {}

Next ==
  /\ clock' \in {clock, clock + 1}
  /\ clock' # clock => st' = st
  /\ lost \subseteq lost'
  /\ \A k \in Key : Event[k] \in lost' \/ k \in Moved \/ Goes(k, st[k], st'[k])

\* Nothing stays pending after its time: no recording goes on for ever, and none
\* stays scheduled that can no longer be made.
Over == \A k \in Key : st[k] \in Pending ~> st[k] \notin Pending

Safety == Init /\ [][Next]_<<clock, st, lost>>

Spec == Safety /\ Over
=============================================================================
