------------------------------- MODULE Devdb -------------------------------
(***************************************************************************)
(* The part of the device database (src/src/neumodb/devdb) on which the    *)
(* reservation of frontends, tuners, LNBs and dishes rests: the hardware   *)
(* as the user configured it (constants of this module), the reservation   *)
(* record fe_t.sub that is stored for every frontend, and the predicates   *)
(* on two such records that decide whether they can coexist.               *)
(*                                                                         *)
(* Frontends are numbered in the order of their database key, because the  *)
(* code scans them in that order and the order matters (see                *)
(* FeSubscribe!last_scanned).  Positions are in whole steps instead of     *)
(* 1/100 degree.  sat_pos_none, -1 for "no owner", "no dish", ... are all  *)
(* written None.                                                           *)
(***************************************************************************)
EXTENDS Integers, Sequences

CONSTANTS
  NumFe,       \* number of frontends
  FeInfo,      \* [Fe -> static part of fe_t]
  Lnb,         \* LNBs (natural numbers)
  LnbInfo,     \* [Lnb -> static part of lnb_t]
  RfPath,      \* the connections of all LNBs, as rf_path_t records
  PathInfo,    \* [RfPath -> the other fields of the lnb_connection_t]
  Dish,        \* dish numbers (natural numbers)
  Positioner,  \* the dishes that are on a positioner
  Mux,         \* muxes of the channel database
  MuxInfo,     \* [Mux -> the fields of the mux that matter here]
  NoMux,       \* the empty mux_key_t
  Service,     \* services
  ServiceMux,  \* [Service -> Mux]
  NoService,   \* the null pointer to a service
  Pos,         \* usals positions a dish can have
  Tolerance    \* sat_pos_tolerance

Fe    == 1..NumFe
NoFe  == 0
None  == -1
NoLnb == -1
NONE  == "NONE"      \* fe_polarisation_t::NONE and sat_sub_band_t::NONE

NoPath == [lnb |-> NoLnb, card |-> None, rf_input |-> None]

FeType == [card: Nat, adapter: Nat, rf_inputs: SUBSET Nat, dvbs: BOOLEAN,
           dvbc: BOOLEAN, multistream: BOOLEAN, blindscan: BOOLEAN,
           fft: BOOLEAN, sweep: BOOLEAN, priority: Nat]

(***************************************************************************)
(* Every dish of an LNB that is not on a positioner has a fixed position;  *)
(* networks maps a satellite to the usals position the dish needs for it.  *)
(***************************************************************************)
ASSUME HardwareAssumption ==
  /\ NumFe \in Nat
  /\ FeInfo \in [Fe -> FeType]
  /\ Lnb \subseteq Nat /\ Dish \subseteq Nat /\ Positioner \subseteq Dish
  /\ \A l \in Lnb : /\ LnbInfo[l].dish \in Dish
                    /\ LnbInfo[l].usals_pos \in Pos
                    /\ LnbInfo[l].unicable_channels \in Seq(Nat)
                    /\ \A s \in DOMAIN LnbInfo[l].networks :
                          LnbInfo[l].networks[s] \in Pos
  /\ RfPath \subseteq [lnb: Lnb, card: Nat, rf_input: Nat]
  /\ \A r \in RfPath : /\ PathInfo[r].rf_coupler_id \in Nat \cup {None}
                       /\ PathInfo[r].unicable \in BOOLEAN
                       /\ PathInfo[r].rotor \in BOOLEAN

ASSUME ChannelAssumption ==
  /\ NoMux \notin Mux /\ NoService \notin Service
  /\ ServiceMux \in [Service -> Mux]
  /\ \A m \in Mux :
        /\ MuxInfo[m].dvbs \in BOOLEAN /\ MuxInfo[m].peak \in BOOLEAN
        /\ MuxInfo[m].multistream \in BOOLEAN /\ MuxInfo[m].sat \in Nat
        /\ MuxInfo[m].dvbs => MuxInfo[m].pol # NONE /\ MuxInfo[m].band # NONE
  /\ Pos \subseteq Nat /\ Tolerance \in Nat

-----------------------------------------------------------------------------
(* The reservation record: fe_subscription_t with its list of subscribers. *)

NoSub ==
  [owner |-> None, config_id |-> None, rf_path |-> NoPath, sat_pos |-> None,
   pol |-> NONE, band |-> NONE, usals_pos |-> None, dish_usals_pos |-> None,
   dish_id |-> None, rf_coupler_id |-> None, mux_key |-> NoMux,
   unicable_ch |-> None, subs |-> <<>>]

\* subscription_data_t: one subscriber of a frontend
Entry(id, has_mux, service) ==
  [subscription_id |-> id, has_mux |-> has_mux, service |-> service]

may_move_dish(s) == s.dish_usals_pos = None

may_change_lnb(s) ==
  s.usals_pos = None \/ s.sat_pos = None \/ s.pol = NONE \/ s.band = NONE

is_exclusive(s) == may_change_lnb(s) \/ may_move_dish(s)

-----------------------------------------------------------------------------
(* What two reservations have in common.                                   *)

\* Mutant of same_dish: dish 0 is taken for "no dish".
same_dish_not_0(t, s) == t.dish_id = s.dish_id /\ s.dish_id > 0

same_rf_path(t, s)    == t.rf_path = s.rf_path
same_dish(t, s)       == t.dish_id = s.dish_id /\ s.dish_id >= 0
same_rf_coupler(t, s) == t.rf_coupler_id = s.rf_coupler_id /\ s.rf_coupler_id >= 0
same_tuner(t, s)      == /\ t.rf_path.card = s.rf_path.card
                         /\ t.rf_path.rf_input = s.rf_path.rf_input
same_sat_band_pol(t, s) ==
  t.usals_pos = s.usals_pos /\ t.pol = s.pol /\ t.band = s.band

(***************************************************************************)
(* The tests of one iteration of check_for_resource_conflicts: t is the    *)
(* reservation found on a frontend in use, s the desired one.              *)
(***************************************************************************)
conflicts(t, s, is_unicable_connection) ==
  \/ /\ is_exclusive(t) \/ is_exclusive(s)
     /\ \/ same_rf_path(t, s) \/ same_dish(t, s)
        \/ same_tuner(t, s)   \/ same_rf_coupler(t, s)
  \/ same_dish(t, s) /\ (may_move_dish(t) \/ may_move_dish(s))
  \/ same_rf_path(t, s) /\ ~same_sat_band_pol(t, s) /\ ~is_unicable_connection
  \/ /\ same_tuner(t, s)
     /\ \/ ~same_rf_path(t, s)
        \/ ~same_sat_band_pol(t, s) /\ ~is_unicable_connection

\* The counters of resource_subscription_counts_t that can_control_lnb tests.
shares_lnb_control(t, s) ==
  same_rf_path(t, s) \/ same_tuner(t, s) \/ same_rf_coupler(t, s)

-----------------------------------------------------------------------------
(* Removing a subscriber from a reservation.                               *)

\* Index of the first entry of a subscription; only used where there is one.
entry_index(subs, id) ==
  CHOOSE i \in DOMAIN subs :
     /\ subs[i].subscription_id = id
     /\ \A j \in 1..(i-1) : subs[j].subscription_id # id

erase(subs, i) == SubSeq(subs, 1, i-1) \o SubSeq(subs, i+1, Len(subs))

holds(s, id) == \E i \in DOMAIN s.subs : s.subs[i].subscription_id = id

\* Mutants of unsubscribe_helper: the record is never cleared, or always.
unsubscribe_never_clears(s, id) ==
  [s EXCEPT !.subs = erase(s.subs, entry_index(s.subs, id))]
unsubscribe_always_clears(s, id) == NoSub

\* The last subscriber to leave clears the whole reservation.
unsubscribe_helper(s, id) ==
  LET left == erase(s.subs, entry_index(s.subs, id))
  IN  IF left = <<>> THEN NoSub ELSE [s EXCEPT !.subs = left]
=============================================================================
