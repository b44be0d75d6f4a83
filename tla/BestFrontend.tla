---------------------------- MODULE BestFrontend ----------------------------
(***************************************************************************)
(* The choice of a frontend among the usable ones: the loops over the      *)
(* frontends in find_best_fe_for_lnb and find_best_fe_for_dvtdbc of        *)
(* src/src/neumodb/devdb/fe_find.cc.  FeSubscribe lets any usable frontend *)
(* be chosen; here the usable ones (all tests up to and including the      *)
(* check for conflicts passed) are given, in the order in which the        *)
(* database returns them, and the loop picks one of them.                  *)
(***************************************************************************)
EXTENDS Integers, Sequences

CONSTANTS
  MaxFe,      \* bound on the number of usable frontends
  Priority    \* the values of fe_t.priority

ASSUME BestFrontendAssumption == MaxFe \in Nat /\ Priority \subseteq Int

(***************************************************************************)
(* The fields of fe_t on which the choice depends; ours means that the     *)
(* frontend is the one that the caller's subscription is about to release. *)
(***************************************************************************)
Frontend == [fft: BOOLEAN, sweep: BOOLEAN, priority: Priority, ours: BOOLEAN]

VARIABLES
  fes,            \* the usable frontends
  need_spectrum,
  prefer_ours,    \* TRUE in find_best_fe_for_lnb, FALSE for cable
  n,              \* number of frontends looked at so far
  best            \* index of best_fe, or 0

vars == <<fes, need_spectrum, prefer_ours, n, best>>

-----------------------------------------------------------------------------
\* Mutant of better_for_spectrum: fft no longer beats sweep.
by_priority(fe, old) == fe.priority > old.priority

\* Whether fe replaces the best one found so far, when a spectrum is needed.
better_for_spectrum(fe, old) ==
  IF fe.fft
  THEN \/ ~old.fft
       \/ fe.priority > old.priority
       \/ fe.priority = old.priority /\ fe.ours /\ prefer_ours
  ELSE fe.sweep /\ ~old.fft /\ fe.priority > old.priority

\* Mutant of better_for_tuning: a tie is decided in favour of the later one.
not_worse(fe, old) == fe.priority >= old.priority

\* Otherwise frontends with capabilities that are not needed are avoided.
better_for_tuning(fe, old) ==
  \/ old.fft /\ ~fe.fft
  \/ old.sweep /\ ~fe.fft /\ ~fe.sweep
  \/ fe.priority > old.priority
  \/ fe.priority = old.priority /\ fe.ours /\ prefer_ours

usable_as_first(fe) == need_spectrum => fe.fft \/ fe.sweep

\* One iteration of the loop.
Consider ==
  /\ n < Len(fes)
  /\ n' = n + 1
  /\ LET fe == fes[n + 1]
     IN  best' = IF \/ best = 0 /\ usable_as_first(fe)
                    \/ best # 0 /\ IF need_spectrum
                                   THEN better_for_spectrum(fe, fes[best])
                                   ELSE better_for_tuning(fe, fes[best])
                 THEN n + 1 ELSE best
  /\ UNCHANGED <<fes, need_spectrum, prefer_ours>>

Init ==
  /\ fes \in UNION {[1..k -> Frontend] : k \in 0..MaxFe}
  /\ \A i, j \in DOMAIN fes : fes[i].ours /\ fes[j].ours => i = j
  /\ need_spectrum \in BOOLEAN /\ prefer_ours \in BOOLEAN
  /\ n = 0 /\ best = 0

Next == Consider

Spec == Init /\ [][Next]_vars

-----------------------------------------------------------------------------
(* Properties, of the choice among the frontends looked at so far.         *)

can_do(fe) == fe.fft \/ fe.sweep

\* For a spectrum, a frontend with fft is chosen whenever there is one, and
\* none of the same kind has a higher priority; nothing is chosen only if no
\* frontend can do a spectrum.
SpectrumChoice ==
  need_spectrum =>
    IF best = 0 THEN \A i \in 1..n : ~can_do(fes[i])
    ELSE /\ can_do(fes[best])
         /\ \A i \in 1..n :
               /\ fes[i].fft => fes[best].fft
               /\ fes[i].fft = fes[best].fft /\ can_do(fes[i])
                     => fes[i].priority <= fes[best].priority

\* Among frontends with the same capabilities the one with the highest
\* priority is chosen, and the one of the subscription itself in case of a tie:
\* tuning never leaves its frontend for an equivalent one.
StaysOnOwnFrontend ==
  /\ ~need_spectrum
  /\ \A i, j \in 1..n : fes[i].fft = fes[j].fft /\ fes[i].sweep = fes[j].sweep
  => \A i \in 1..n :
        /\ best # 0 /\ fes[i].priority <= fes[best].priority
        /\ prefer_ours /\ fes[i].ours /\ fes[i].priority = fes[best].priority
              => best = i
=============================================================================
