------------------------------ MODULE BestPath ------------------------------
(***************************************************************************)
(* The choice of an LNB and of one of its connections: the loops over the  *)
(* LNBs and connections in find_fe_and_lnb_for_tuning_to_mux and           *)
(* find_fe_and_lnb_for_tuning_to_band of src/src/neumodb/devdb/fe_find.cc. *)
(* FeSubscribe lets any usable path be chosen; here the usable ones        *)
(* (everything is allowed and find_best_fe_for_lnb returns a frontend) are *)
(* given, in the order in which the loops visit them, and one is picked.   *)
(***************************************************************************)
EXTENDS Integers, Sequences

CONSTANTS
  MaxPath,          \* bound on the number of usable paths
  LnbPriority,      \* priorities given to networks or LNBs
  PathPriority,     \* priorities of connections
  FePriority,       \* priorities of frontends, the reuse bonus included
  DishMovePenalty   \* subscription_options_t.dish_move_penalty

\* The priorities are 16 bit integers, far above INT_MIN, which stands for
\* "nothing found yet" in the code; the model has best = 0 instead.
ASSUME BestPathAssumption ==
  /\ MaxPath \in Nat /\ DishMovePenalty \in Nat
  /\ LnbPriority \subseteq Nat
  /\ PathPriority \subseteq Int /\ FePriority \subseteq Int

Unspecified == -1

\* One iteration of the inner loop: the priority of the network, or else of
\* the LNB, of the connection and of the best frontend for this path.
Candidate == [lnb: LnbPriority \cup {Unspecified}, path: PathPriority,
              fe: FePriority, move: BOOLEAN]

VARIABLES
  paths,          \* the usable paths
  n,              \* number of paths looked at so far
  best,           \* index of best_rf_path, best_lnb and best_fe, or 0
  best_lnb_prio,
  best_path_prio, \* best_rf_path_prio
  best_fe_prio

vars == <<paths, n, best, best_lnb_prio, best_path_prio, best_fe_prio>>

-----------------------------------------------------------------------------
penalty(c) == IF c.move THEN DishMovePenalty ELSE 0

specified(c) == c.lnb >= 0

\* The tests, in the order of the code, that pass over a path.
better_lnb_known(c)  == specified(c) /\ c.lnb - penalty(c) < best_lnb_prio
better_path_known(c) == /\ \/ ~specified(c)
                           \/ c.lnb - penalty(c) = best_lnb_prio
                        /\ best_path_prio >= c.path
better_fe_known(c)   == /\ ~specified(c) \/ best_path_prio = c.path
                        /\ c.fe - penalty(c) <= best_fe_prio

\* Mutants of passed_over: the initial priorities are 0 instead of INT_MIN, the
\* priority of the LNB is not tested, the connections are compared in reverse.
initially_0(c) == better_lnb_known(c) \/ better_path_known(c) \/ better_fe_known(c)
ignore_lnb(c)  == best # 0 /\ (better_path_known(c) \/ better_fe_known(c))
lowest_path(c) == best # 0 /\ best_path_prio <= c.path

passed_over(c) ==
  best # 0 /\ (better_lnb_known(c) \/ better_path_known(c) \/ better_fe_known(c))

\* A priority of the LNB that is not specified is replaced by the frontend's.
Consider ==
  /\ n < Len(paths)
  /\ n' = n + 1
  /\ LET c == paths[n + 1]
     IN  IF passed_over(c)
         THEN UNCHANGED <<best, best_lnb_prio, best_path_prio, best_fe_prio>>
         ELSE /\ best' = n + 1
              /\ best_fe_prio' = c.fe - penalty(c)
              /\ best_lnb_prio' = (IF specified(c) THEN c.lnb ELSE c.fe) - penalty(c)
              /\ best_path_prio' = c.path
  /\ UNCHANGED paths

Init ==
  /\ paths \in UNION {[1..k -> Candidate] : k \in 0..MaxPath}
  /\ n = 0 /\ best = 0
  /\ best_lnb_prio = 0 /\ best_path_prio = 0 /\ best_fe_prio = 0

Next == Consider

Spec == Init /\ [][Next]_vars

-----------------------------------------------------------------------------
(* Properties, of the choice among the paths looked at so far.             *)

\* The best path has been looked at, the recorded priorities are its own, and
\* a subscription never fails while there is a usable path: one of any
\* priority, even a penalised one, is taken when nothing else is there.
PathFound ==
  /\ best \in 0..n /\ n \in 0..Len(paths)
  /\ best = 0 <=> n = 0
  /\ best # 0 => LET c == paths[best]
                 IN  /\ best_fe_prio = c.fe - penalty(c)
                     /\ best_path_prio = c.path
                     /\ specified(c) => best_lnb_prio = c.lnb - penalty(c)

AllSpecified == \A i \in DOMAIN paths : specified(paths[i])

PathPrioritiesDiffer ==
  \A i, j \in DOMAIN paths : paths[i].path = paths[j].path => i = j

\* When all LNBs have priorities and no two connections the same one, the
\* result does not depend on the order of the database: the LNB with the
\* highest priority, less the penalty, and then the best connection.
LnbThenConnection ==
  AllSpecified /\ PathPrioritiesDiffer =>
    \A i \in 1..n :
       \/ paths[i].lnb - penalty(paths[i]) < best_lnb_prio
       \/ /\ paths[i].lnb - penalty(paths[i]) = best_lnb_prio
          /\ paths[i].path <= best_path_prio

\* When no LNB has a priority, no path is left for which both the connection
\* and the frontend, less the penalty, have a higher priority.
NotDominated ==
  (\A i \in DOMAIN paths : ~specified(paths[i])) =>
    \A i \in 1..n : \/ paths[i].path <= best_path_prio
                    \/ paths[i].fe - penalty(paths[i]) <= best_fe_prio
=============================================================================
