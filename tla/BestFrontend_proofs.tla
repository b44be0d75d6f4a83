------------------------ MODULE BestFrontend_proofs ------------------------
(***************************************************************************)
(* What the choice of a frontend guarantees, for any number of usable      *)
(* frontends and any priorities.                                           *)
(***************************************************************************)
EXTENDS BestFrontend, TLAPS

FesType ==
  /\ fes \in Seq(Frontend)
  /\ need_spectrum \in BOOLEAN /\ prefer_ours \in BOOLEAN
  /\ n \in 0..Len(fes) /\ best \in 0..n

\* Only one frontend can be the one that the subscription leaves.
OursUnique == \A i, j \in DOMAIN fes : fes[i].ours /\ fes[j].ours => i = j

Inv == FesType /\ OursUnique /\ SpectrumChoice /\ StaysOnOwnFrontend

LEMMA InitInv == Init => Inv
<1> SUFFICES ASSUME Init PROVE Inv
  OBVIOUS
<1>1. fes \in Seq(Frontend) /\ Len(fes) \in Nat
  BY DEF Init
<1>2. FesType /\ OursUnique
  BY <1>1 DEF Init, FesType, OursUnique
<1>3. SpectrumChoice /\ StaysOnOwnFrontend
  BY DEF Init, SpectrumChoice, StaysOnOwnFrontend
<1> QED BY <1>2, <1>3 DEF Inv

LEMMA PriorityType ==
  ASSUME FesType, NEW i \in DOMAIN fes
  PROVE  fes[i].priority \in Int /\ fes[i].fft \in BOOLEAN
<1>1. fes[i] \in Frontend
  BY DEF FesType
<1>2. fes[i].priority \in Priority /\ fes[i].fft \in BOOLEAN
  BY <1>1 DEF Frontend
<1> QED BY <1>2, BestFrontendAssumption

LEMMA NextInv == Inv /\ [Next]_vars => Inv'
<1> SUFFICES ASSUME Inv, [Next]_vars PROVE Inv'
  OBVIOUS
<1>1. CASE UNCHANGED vars
  BY <1>1 DEF Inv, FesType, OursUnique, SpectrumChoice, StaysOnOwnFrontend, can_do, vars
<1>2. CASE Consider
  <2> DEFINE fe == fes[n + 1]
  <2>1. /\ n \in Nat /\ Len(fes) \in Nat /\ n < Len(fes) /\ n' = n + 1
        /\ best \in 0..n /\ fes' = fes /\ DOMAIN fes = 1..Len(fes)
        /\ need_spectrum' = need_spectrum /\ prefer_ours' = prefer_ours
        /\ best' \in {best, n + 1}
    BY <1>2 DEF Inv, FesType, Consider
  <2>2. n + 1 \in DOMAIN fes /\ (best # 0 => best \in DOMAIN fes)
    BY <2>1
  <2>3. /\ fe.priority \in Int /\ (best # 0 => fes[best].priority \in Int)
        /\ fe.fft \in BOOLEAN /\ (best # 0 => fes[best].fft \in BOOLEAN)
    BY <2>2, PriorityType DEF Inv
  <2>4. \A i \in 1..n' : i \in DOMAIN fes /\ (i \in 1..n \/ i = n + 1)
    BY <2>1
  <2>5. FesType' /\ OursUnique'
    BY <2>1 DEF Inv, FesType, OursUnique
  <2>6. SpectrumChoice'
    <3> SUFFICES ASSUME need_spectrum PROVE SpectrumChoice'
      BY <2>1 DEF SpectrumChoice
    <3>1. CASE best = 0
      <4>1. \A i \in 1..n : ~can_do(fes[i])
        BY <3>1 DEF Inv, SpectrumChoice
      <4>2. best' = IF can_do(fe) THEN n + 1 ELSE 0
        BY <1>2, <3>1 DEF Consider, usable_as_first, can_do
      <4> QED BY <2>1, <2>3, <2>4, <4>1, <4>2 DEF SpectrumChoice, can_do
    <3>2. CASE best # 0
      <4> DEFINE old == fes[best]
      <4>1. /\ can_do(old)
            /\ \A i \in 1..n :
                  /\ fes[i].fft => old.fft
                  /\ fes[i].fft = old.fft /\ can_do(fes[i])
                        => fes[i].priority <= old.priority
        BY <3>2 DEF Inv, SpectrumChoice
      <4>2. \A i \in 1..n' : fes[i].priority \in Int
        BY <2>4, PriorityType DEF Inv
      <4>3. CASE better_for_spectrum(fe, old)
        <5>1. best' = n + 1 /\ n + 1 # 0
          BY <1>2, <2>1, <3>2, <4>3 DEF Consider
        <5>2. /\ can_do(fe) /\ (old.fft => fe.fft)
              /\ fe.fft = old.fft => old.priority <= fe.priority
          BY <2>3, <3>2, <4>1, <4>3 DEF better_for_spectrum, can_do
        <5>3. \A i \in 1..n' : /\ fes[i].fft => fe.fft
                               /\ fes[i].fft = fe.fft /\ can_do(fes[i])
                                     => fes[i].priority <= fe.priority
          <6> SUFFICES ASSUME NEW i \in 1..n'
                       PROVE  /\ fes[i].fft => fe.fft
                              /\ fes[i].fft = fe.fft /\ can_do(fes[i])
                                    => fes[i].priority <= fe.priority
            OBVIOUS
          <6>1. CASE i = n + 1
            BY <6>1, <2>3
          <6>2. CASE i \in 1..n
            <7>1. fes[i].fft => fe.fft
              BY <6>2, <4>1, <5>2
            <7>2. ASSUME fes[i].fft = fe.fft, can_do(fes[i])
                  PROVE  fes[i].priority <= fe.priority
              <8>1. CASE fe.fft = old.fft
                BY <6>2, <7>2, <8>1, <4>1, <4>2, <5>2, <2>3, <3>2
              <8>2. CASE fe.fft # old.fft
                <9>1. fe.fft /\ ~old.fft
                  BY <2>3, <3>2, <4>3, <8>2, <5>2 DEF better_for_spectrum
                <9> QED BY <9>1, <7>2, <6>2, <4>1
              <8> QED BY <8>1, <8>2
            <7> QED BY <7>1, <7>2
          <6> QED BY <6>1, <6>2, <2>4
        <5> QED BY <2>1, <5>1, <5>2, <5>3 DEF SpectrumChoice, can_do
      <4>4. CASE ~better_for_spectrum(fe, old)
        <5>1. best' = best
          BY <1>2, <3>2, <4>4 DEF Consider
        <5>2. /\ fe.fft => old.fft
              /\ fe.fft = old.fft /\ can_do(fe) => fe.priority <= old.priority
          BY <2>3, <3>2, <4>4 DEF better_for_spectrum, can_do
        <5> QED BY <2>1, <2>4, <3>2, <4>1, <5>1, <5>2 DEF SpectrumChoice, can_do
      <4> QED BY <4>3, <4>4
    <3> QED BY <3>1, <3>2
  <2>7. StaysOnOwnFrontend'
    <3> SUFFICES ASSUME ~need_spectrum,
                        \A i, j \in 1..(n+1) : /\ fes[i].fft = fes[j].fft
                                               /\ fes[i].sweep = fes[j].sweep,
                        NEW i \in 1..(n+1)
                 PROVE  /\ best' # 0 /\ fes[i].priority <= fes[best'].priority
                        /\ /\ prefer_ours /\ fes[i].ours
                           /\ fes[i].priority = fes[best'].priority
                           => best' = i
      BY <2>1 DEF StaysOnOwnFrontend
    <3>1. i \in DOMAIN fes /\ fes[i].priority \in Int /\ (i \in 1..n \/ i = n + 1)
      BY <2>1, <2>4, PriorityType DEF Inv
    <3>2. CASE best = 0
      <4>1. n = 0
        <5>1. \A k \in 1..n : best # 0
          BY <2>1 DEF Inv, StaysOnOwnFrontend
        <5>2. n # 0 => 1 \in 1..n
          BY <2>1
        <5> QED BY <3>2, <5>1, <5>2
      <4>2. best' = 1 /\ i = 1
        BY <1>2, <3>2, <4>1 DEF Consider, usable_as_first
      <4> QED BY <3>1, <4>2
    <3>3. CASE best # 0
      <4> DEFINE old == fes[best]
      <4>1. /\ fe.fft = old.fft /\ fe.sweep = old.sweep
        BY <2>1, <3>3
      <4>2. i \in 1..n => /\ fes[i].priority <= old.priority
                          /\ prefer_ours /\ fes[i].ours /\ fes[i].priority = old.priority
                                => best = i
        BY <2>1, <3>3 DEF Inv, StaysOnOwnFrontend
      <4>3. CASE better_for_tuning(fe, old)
        <5>1. best' = n + 1
          BY <1>2, <3>3, <4>3 DEF Consider
        <5>2. \/ fe.priority > old.priority
              \/ fe.priority = old.priority /\ fe.ours /\ prefer_ours
          BY <4>1, <4>3 DEF better_for_tuning
        <5>3. fes[i].ours /\ fe.ours => i = n + 1
          BY <2>2, <3>1 DEF Inv, OursUnique
        <5> QED BY <2>1, <2>3, <3>1, <3>3, <4>2, <5>1, <5>2, <5>3
      <4>4. CASE ~better_for_tuning(fe, old)
        <5>1. best' = best
          BY <1>2, <3>3, <4>4 DEF Consider
        <5>2. /\ fe.priority <= old.priority
              /\ ~(fe.priority = old.priority /\ fe.ours /\ prefer_ours)
          BY <2>3, <3>3, <4>4 DEF better_for_tuning
        <5> QED BY <3>1, <3>3, <4>2, <5>1, <5>2
      <4> QED BY <4>3, <4>4
    <3> QED BY <3>2, <3>3
  <2> QED BY <2>5, <2>6, <2>7 DEF Inv
<1> QED BY <1>1, <1>2 DEF Next

\* For a spectrum, find_best_fe_for_lnb returns a frontend with fft if one is
\* usable, and the one of highest priority of its kind.
THEOREM SpectrumFrontend == Spec => []SpectrumChoice
<1>1. Inv => SpectrumChoice
  BY DEF Inv
<1> QED BY InitInv, NextInv, <1>1, PTL DEF Spec

\* A subscription that retunes never leaves its frontend for an equivalent one.
THEOREM OwnFrontend == Spec => []StaysOnOwnFrontend
<1>1. Inv => StaysOnOwnFrontend
  BY DEF Inv
<1> QED BY InitInv, NextInv, <1>1, PTL DEF Spec
=============================================================================
