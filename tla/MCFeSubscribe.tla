--------------------------- MODULE MCFeSubscribe ---------------------------
(***************************************************************************)
(* Small installations for FeSubscribe.                                    *)
(*                                                                         *)
(* "Shared": two cards.  Card 1 has two demodulators (frontends 1 and 2)   *)
(* behind its single rf input, card 2 has one (frontend 3).  LNB 1 is on   *)
(* the rotating dish 0 and wired to both cards, LNB 2 is on the fixed dish *)
(* 1 and wired to card 1 only, so that both LNBs compete for the tuner of  *)
(* card 1.  Satellite 5 is seen by both LNBs, satellite 9 only by LNB 1    *)
(* after moving the dish.                                                  *)
(***************************************************************************)
EXTENDS FeSubscribe, TLC

CONSTANTS h5, v5, h9, c1, pk, news, film, sport, p1, p2, p3, a, b, c

Symmetry == Permutations(Proc) \cup Permutations(SubId)

demod(card, adapter, inputs) ==
  [card |-> card, adapter |-> adapter, rf_inputs |-> inputs, dvbs |-> TRUE,
   dvbc |-> FALSE, multistream |-> TRUE, blindscan |-> TRUE, fft |-> TRUE,
   sweep |-> FALSE, priority |-> 0]

path(l, card, i) == [lnb |-> l, card |-> card, rf_input |-> i]

plain == [rf_coupler_id |-> None, unicable |-> FALSE, rotor |-> TRUE]

dvbs(sat, pol, band) == [sat |-> sat, pol |-> pol, band |-> band, peak |-> FALSE,
                         multistream |-> FALSE, dvbs |-> TRUE]

option(may_move, allowed, keep) ==
  [may_move |-> may_move, blind |-> FALSE, allowed |-> allowed, keep |-> keep]

-----------------------------------------------------------------------------
(* The muxes and services.                                                 *)

AllMuxInfo ==
  [m \in {h5, v5, h9, c1, pk} |->
     CASE m = h5 -> dvbs(5, "H", "low")
       [] m = v5 -> dvbs(5, "V", "high")
       [] m = h9 -> dvbs(9, "H", "low")
       [] m = c1 -> [dvbs(50, NONE, NONE) EXCEPT !.dvbs = FALSE]
       [] m = pk -> [dvbs(5, "H", "low") EXCEPT !.peak = TRUE]]

AllServiceMux == [s \in {news, film, sport} |-> IF s = sport THEN v5 ELSE h5]
OnlyH5 == [s \in {news, film} |-> h5]
NoServices == [s \in {} |-> h5]
OnlyNews == [s \in {news} |-> h5]

-----------------------------------------------------------------------------
(* "Shared".                                                               *)

SharedFe  == <<demod(1, 1, {0}), demod(1, 2, {0}), demod(2, 3, {0})>>
SharedPaths == {path(1, 1, 0), path(1, 2, 0), path(2, 1, 0)}
SharedPathInfo == [r \in SharedPaths |-> plain]
SharedLnb ==
  <<[dish |-> 0, usals_pos |-> 1, networks |-> (5 :> 1 @@ 9 :> 3),
     unicable_channels |-> <<>>, pols |-> {"H", "V"}],
    [dish |-> 1, usals_pos |-> 1, networks |-> (5 :> 1),
     unicable_channels |-> <<>>, pols |-> {"H", "V"}]>>

Unknown == {None}
StayOptions == {option(FALSE, SharedPaths, FALSE)}
KeepOptions == {option(FALSE, SharedPaths, k) : k \in BOOLEAN}
MoveOptions == {option(TRUE, SharedPaths, FALSE)}
BothOptions == {option(m, SharedPaths, FALSE) : m \in BOOLEAN}
SharedBands == {[sat |-> 5, pol |-> "H", band |-> "low"]}
ControlLnb1 == {[path |-> path(1, 1, 0), move_to |-> t, blind |-> FALSE] :
                  t \in {None, 9}}

-----------------------------------------------------------------------------
(* "Unicable": LNB 3 on the fixed dish 1 is a unicable LNB with two user   *)
(* bands, wired to card 3.  Card 3 has three adapters; frontends 1 and 2   *)
(* share an adapter, and frontend 4 also receives cable.                   *)

UnicableFe ==
  <<demod(3, 1, {0}), demod(3, 1, {0}), demod(3, 2, {0}),
    [demod(3, 3, {0}) EXCEPT !.dvbc = TRUE]>>
UnicablePaths == {path(3, 3, 0)}
UnicablePathInfo == [r \in UnicablePaths |-> [plain EXCEPT !.unicable = TRUE]]
UnicableLnb ==
  3 :> [dish |-> 1, usals_pos |-> 1, networks |-> (5 :> 1),
        unicable_channels |-> <<1, 2>>, pols |-> {"H", "V"}]
UnicableOptions == {option(FALSE, UnicablePaths, k) : k \in BOOLEAN}
\* The second request names an LNB that is not in the database.
ControlLnb3 == {[path |-> path(l, 3, 0), move_to |-> None, blind |-> FALSE] :
                  l \in {3, 4}}
=============================================================================
