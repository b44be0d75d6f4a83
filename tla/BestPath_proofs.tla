-------------------------- MODULE BestPath_proofs --------------------------
(***************************************************************************)
(* What the choice of an LNB and connection guarantees, for any number of  *)
(* usable paths and any priorities.                                        *)
(***************************************************************************)
EXTENDS BestPath, TLAPS

PathType ==
  /\ paths \in Seq(Candidate)
  /\ best_lnb_prio \in Int /\ best_path_prio \in Int /\ best_fe_prio \in Int

\* The priority of the LNB that is remembered is that of the best path.
Inv == PathType /\ PathFound /\ LnbThenConnection /\ NotDominated

LEMMA InitInv == Init => Inv
<1> SUFFICES ASSUME Init PROVE Inv
  OBVIOUS
<1>1. paths \in Seq(Candidate)
  BY DEF Init
<1>2. n = 0 /\ best = 0 /\ Len(paths) \in Nat
  BY <1>1 DEF Init
<1>3. PathType
  BY <1>1 DEF Init, PathType
<1>4. PathFound
  BY <1>2 DEF PathFound
<1>5. LnbThenConnection /\ NotDominated
  BY <1>2 DEF LnbThenConnection, NotDominated
<1> QED BY <1>3, <1>4, <1>5 DEF Inv

LEMMA CandidateType ==
  ASSUME PathType, NEW i \in DOMAIN paths
  PROVE  /\ paths[i].lnb \in Int /\ paths[i].path \in Int
         /\ paths[i].fe \in Int /\ penalty(paths[i]) \in Int
<1>1. paths[i] \in Candidate
  BY DEF PathType
<1>2. /\ paths[i].lnb \in LnbPriority \cup {-1} /\ paths[i].path \in PathPriority
      /\ paths[i].fe \in FePriority
  BY <1>1 DEF Candidate, Unspecified
<1>3. penalty(paths[i]) \in Int
  <2>1. DishMovePenalty \in Int /\ 0 \in Int
    BY BestPathAssumption
  <2> QED BY <2>1 DEF penalty
<1>4. paths[i].lnb \in Int
  <2>1. -1 \in Int
    OBVIOUS
  <2>2. LnbPriority \subseteq Int
    BY BestPathAssumption
  <2> QED BY <1>2, <2>1, <2>2
<1> QED BY <1>2, <1>3, <1>4, BestPathAssumption

\* A path is compared with the best one so far only, so what the invariant says
\* of the older ones has to follow from transitivity.
LEMMA NextInv == Inv /\ [Next]_vars => Inv'
<1> SUFFICES ASSUME Inv, [Next]_vars PROVE Inv'
  OBVIOUS
<1>1. CASE UNCHANGED vars
  BY <1>1 DEF Inv, PathType, PathFound, LnbThenConnection, NotDominated,
     AllSpecified, PathPrioritiesDiffer, specified, penalty, vars
<1>2. CASE Consider
  <2> DEFINE c == paths[n + 1]
  <2>1. /\ n \in Nat /\ Len(paths) \in Nat /\ n < Len(paths) /\ n' = n + 1
        /\ best \in 0..n /\ paths' = paths /\ DOMAIN paths = 1..Len(paths)
    BY <1>2 DEF Inv, PathType, PathFound, Consider
  <2>2. n + 1 \in DOMAIN paths /\ (best # 0 => best \in DOMAIN paths)
    BY <2>1
  <2>3. /\ c.lnb \in Int /\ c.path \in Int /\ c.fe \in Int /\ penalty(c) \in Int
    BY <2>2, CandidateType DEF Inv
  <2>4. \A i \in 1..n' : i \in 1..n \/ i = n + 1
    BY <2>1
  <2>5. PathType'
    BY <1>2, <2>1, <2>3 DEF Inv, PathType, Consider
  <2>6. PathFound'
    <3>1. CASE passed_over(c)
      BY <1>2, <2>1, <3>1 DEF Inv, PathFound, Consider, passed_over, penalty, specified
    <3>2. CASE ~passed_over(c)
      BY <1>2, <2>1, <3>2 DEF Inv, PathFound, Consider, penalty, specified
    <3> QED BY <3>1, <3>2
  <2>7. LnbThenConnection'
    <3> SUFFICES ASSUME AllSpecified, PathPrioritiesDiffer, NEW i \in 1..n'
                 PROVE  \/ paths[i].lnb - penalty(paths[i]) < best_lnb_prio'
                        \/ /\ paths[i].lnb - penalty(paths[i]) = best_lnb_prio'
                           /\ paths[i].path <= best_path_prio'
      BY <2>1 DEF LnbThenConnection, AllSpecified, PathPrioritiesDiffer, specified, penalty
    <3>1. /\ i \in DOMAIN paths /\ paths[i].lnb \in Int /\ paths[i].path \in Int
          /\ penalty(paths[i]) \in Int
      BY <2>1, CandidateType DEF Inv
    <3>2. specified(c) /\ (best # 0 => specified(paths[best]))
      BY <2>2 DEF AllSpecified
    <3>3. best # 0 => best_path_prio # c.path
      BY <2>1, <2>2 DEF Inv, PathFound, PathPrioritiesDiffer
    <3>4. i \in 1..n => \/ paths[i].lnb - penalty(paths[i]) < best_lnb_prio
                        \/ /\ paths[i].lnb - penalty(paths[i]) = best_lnb_prio
                           /\ paths[i].path <= best_path_prio
      BY DEF Inv, LnbThenConnection
    <3>5. i \in 1..n \/ i = n + 1
      BY <2>4
    <3>6. i \in 1..n => best # 0
      BY <2>1 DEF Inv, PathFound
    <3>7. best_lnb_prio \in Int /\ best_path_prio \in Int
      BY DEF Inv, PathType
    <3>8. CASE passed_over(c)
      <4>1. best_lnb_prio' = best_lnb_prio /\ best_path_prio' = best_path_prio
        BY <1>2, <3>8 DEF Consider
      <4>2. /\ best # 0
            /\ \/ c.lnb - penalty(c) < best_lnb_prio
               \/ c.lnb - penalty(c) = best_lnb_prio /\ c.path <= best_path_prio
        BY <3>8, <3>2, <3>3, <3>7, <2>3
           DEF passed_over, better_lnb_known, better_path_known, better_fe_known
      <4> QED BY <4>1, <4>2, <3>4, <3>5
    <3>9. CASE ~passed_over(c)
      <4>1. best_lnb_prio' = c.lnb - penalty(c) /\ best_path_prio' = c.path
        BY <1>2, <3>9, <3>2 DEF Consider
      <4>2. best # 0 => \/ c.lnb - penalty(c) > best_lnb_prio
                        \/ /\ c.lnb - penalty(c) = best_lnb_prio
                           /\ c.path > best_path_prio
        BY <3>9, <3>2, <3>7, <2>3 DEF passed_over, better_lnb_known, better_path_known
      <4> QED BY <4>1, <4>2, <3>1, <3>4, <3>5, <3>6, <3>7, <2>3
    <3> QED BY <3>8, <3>9
  <2>8. NotDominated'
    <3> SUFFICES ASSUME \A i \in DOMAIN paths : ~specified(paths[i]), NEW i \in 1..n'
                 PROVE  \/ paths[i].path <= best_path_prio'
                        \/ paths[i].fe - penalty(paths[i]) <= best_fe_prio'
      BY <2>1 DEF NotDominated, specified, penalty
    <3>1. /\ i \in DOMAIN paths /\ paths[i].fe \in Int /\ paths[i].path \in Int
          /\ penalty(paths[i]) \in Int
      BY <2>1, CandidateType DEF Inv
    <3>2. ~specified(c)
      BY <2>2
    <3>3. i \in 1..n => /\ best # 0
                        /\ \/ paths[i].path <= best_path_prio
                           \/ paths[i].fe - penalty(paths[i]) <= best_fe_prio
      BY <2>1 DEF Inv, NotDominated, PathFound
    <3>4. i \in 1..n \/ i = n + 1
      BY <2>4
    <3>5. best_fe_prio \in Int /\ best_path_prio \in Int
      BY DEF Inv, PathType
    <3>6. CASE passed_over(c)
      <4>1. best_fe_prio' = best_fe_prio /\ best_path_prio' = best_path_prio
        BY <1>2, <3>6 DEF Consider
      <4>2. c.path <= best_path_prio \/ c.fe - penalty(c) <= best_fe_prio
        BY <3>6, <3>2, <3>5, <2>3
           DEF passed_over, better_lnb_known, better_path_known, better_fe_known
      <4> QED BY <4>1, <4>2, <3>3, <3>4
    <3>7. CASE ~passed_over(c)
      <4>1. best_fe_prio' = c.fe - penalty(c) /\ best_path_prio' = c.path
        BY <1>2, <3>7 DEF Consider
      <4>2. best # 0 => c.fe - penalty(c) > best_fe_prio /\ c.path > best_path_prio
        BY <3>7, <3>2, <3>5, <2>3 DEF passed_over, better_path_known, better_fe_known
      <4> QED BY <4>1, <4>2, <3>1, <3>3, <3>4, <3>5, <2>3
    <3> QED BY <3>6, <3>7
  <2> QED BY <2>5, <2>6, <2>7, <2>8 DEF Inv
<1> QED BY <1>1, <1>2 DEF Next

\* For every list of usable paths a path is chosen, with the priorities that the
\* loop remembers for it (find_fe_and_lnb_for_tuning_to_mux never fails while a
\* usable path exists).
THEOREM AlwaysFound == Spec => []PathFound
<1>1. Inv => PathFound
  BY DEF Inv
<1> QED BY InitInv, NextInv, <1>1, PTL DEF Spec

\* With priorities for all LNBs and no two connections of equal priority, the
\* loop computes the maximum of LNB priority less penalty, then connection
\* priority, whatever the order of the database.
THEOREM OrderIndependent == Spec => []LnbThenConnection
<1>1. Inv => LnbThenConnection
  BY DEF Inv
<1> QED BY InitInv, NextInv, <1>1, PTL DEF Spec

\* Without priorities for LNBs, no path that is passed over beats the chosen one
\* both in connection and in frontend priority.
THEOREM Undominated == Spec => []NotDominated
<1>1. Inv => NotDominated
  BY DEF Inv
<1> QED BY InitInv, NextInv, <1>1, PTL DEF Spec
=============================================================================
