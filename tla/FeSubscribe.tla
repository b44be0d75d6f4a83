---------------------------- MODULE FeSubscribe ----------------------------
(***************************************************************************)
(* Reservation of frontends by the processes that share one device         *)
(* database: src/src/neumodb/devdb/fe_subscribe.cc and fe_find.cc, the     *)
(* cleaning of the database by a starting process (devmanager.cc) and the  *)
(* movement of a dish (dish::schedule_move).                               *)
(*                                                                         *)
(* Every operation of the code runs inside one LMDB write transaction, so  *)
(* it is one atomic action here.  An operation is described by the set of  *)
(* its possible outcomes: the new content of the database and the returned *)
(* subscribe_ret_t, or the assertion that fails.  A failing assertion      *)
(* kills the process and the transaction is never committed.               *)
(*                                                                         *)
(* Which of the usable frontends is picked depends on priorities; here any *)
(* usable one may be; BestPath and BestFrontend model the choice.          *)
(***************************************************************************)
EXTENDS Devdb, FiniteSets

CONSTANTS
  Proc,         \* process ids; a pid is never used again
  SubId,        \* subscription ids, unique per process
  MuxOptions,   \* the subscription_options_t of subscriptions to a mux
  BandOptions,  \* the subscription_options_t of scans of a satellite band
  BandRequest,  \* the (sat, pol, band) that can be scanned
  LnbRequest,   \* requests for exclusive control: a path and, if a spectrum
                \* is needed, the satellite to move to (else None)
  MotorTarget,  \* positions that a user can drive a dish to (may hold None)
  MaxInstances  \* bound on the number of processes alive at the same time

OptionType == [may_move: BOOLEAN, blind: BOOLEAN, allowed: SUBSET RfPath,
               keep: BOOLEAN]

ASSUME RequestAssumption ==
  /\ None \notin Proc /\ None \notin SubId /\ MaxInstances \in Nat
  /\ MuxOptions \subseteq OptionType /\ BandOptions \subseteq OptionType
  /\ \A b \in BandRequest : b.pol # NONE /\ b.band # NONE /\ b.sat \in Nat
  /\ \A q \in LnbRequest : q.move_to \in Nat \cup {None} /\ q.blind \in BOOLEAN
  /\ MotorTarget \subseteq Pos \cup {None}

VARIABLES
  sub,             \* [Fe -> reservation]: fe_t.sub in the database
  dish_pos,        \* [Positioner -> Pos]: lnb_t.usals_pos of the LNBs on it
  target,          \* [Positioner -> Pos or None]: dish_t.target_usals_pos
  status,          \* [Proc -> {"new", "alive", "dead"}]
  failed_assert    \* label of the last assertion that failed

vars == <<sub, dish_pos, target, status, failed_assert>>

NoFailure == "none"

-----------------------------------------------------------------------------
(* Reading the database.                                                   *)

\* A reservation counts while the process that owns it exists.
is_subscribed(f) == sub[f].owner # None /\ status[sub[f].owner] = "alive"

lnb_usals_pos(l) ==
  IF LnbInfo[l].dish \in Positioner THEN dish_pos[LnbInfo[l].dish]
                                    ELSE LnbInfo[l].usals_pos

has_network(l, sat) == sat \in DOMAIN LnbInfo[l].networks

\* How far the dish must be rotated to receive sat.
usals_move_amount(l, sat) ==
  LET d == LnbInfo[l].networks[sat] - lnb_usals_pos(l)
  IN  IF LnbInfo[l].dish \notin Positioner THEN 0
      ELSE IF d < 0 THEN -d ELSE d

\* The frontend of a subscription: a set with the first one found, or NoFe.
fe_for_subscription(p, id) ==
  LET found == {f \in Fe : sub[f].owner = p /\ holds(sub[f], id)}
  IN  IF found = {} THEN {NoFe} ELSE {f \in found : \A g \in found : f <= g}

\* Mutant of fe_key_to_release: the other subscriptions are forgotten.
release_although_shared(old, id) == old

\* The old frontend, when no other subscription remains on it.
fe_key_to_release(old, id) ==
  IF old # NoFe /\ \A i \in DOMAIN sub[old].subs :
                       sub[old].subs[i].subscription_id = id
  THEN old ELSE NoFe

\* Mutant of unsubscribed: a subscription stays on its old frontend.
stay_subscribed(old, id) == sub

\* The database after the subscription has left its old frontend.
unsubscribed(old, id) ==
  IF old = NoFe THEN sub
  ELSE [sub EXCEPT ![old] = unsubscribe_helper(sub[old], id)]

-----------------------------------------------------------------------------
(* Conflicts with the other frontends in use.                              *)

\* The frontends whose reservation check_for_resource_conflicts looks at.
others_in_use(rel) == {f \in Fe : is_subscribed(f) /\ f # rel}

\* Mutant of check_for_resource_conflicts: other processes are ignored.
check_own_reservations(s, rel, is_unicable_connection) ==
  \A f \in others_in_use(rel) :
     sub[f].owner = s.owner => ~conflicts(sub[f], s, is_unicable_connection)

check_for_resource_conflicts(s, rel, is_unicable_connection) ==
  \A f \in others_in_use(rel) : ~conflicts(sub[f], s, is_unicable_connection)

can_control_lnb(s, rel) ==
  ~ \E f \in others_in_use(rel) : shares_lnb_control(sub[f], s)

(***************************************************************************)
(* use_counts.owner and use_counts.config_id are overwritten in every      *)
(* iteration of the loop, so they are those of the last frontend in use,   *)
(* whether or not it shares anything with the new reservation.             *)
(***************************************************************************)
last_scanned(rel) ==
  LET others == others_in_use(rel)
  IN  IF others = {} THEN {NoFe} ELSE {f \in others : \A g \in others : g <= f}

counts_owner(last)     == IF last = NoFe THEN None ELSE sub[last].owner
counts_config_id(last) == IF last = NoFe THEN None ELSE sub[last].config_id

\* Mutant of free_unicable_channels: channels in use are not left out.
all_unicable_channels(l, rel) == DOMAIN LnbInfo[l].unicable_channels

\* Unicable channels of an LNB that no reservation on this LNB uses.
free_unicable_channels(l, rel) ==
  LET chs == LnbInfo[l].unicable_channels
  IN  {i \in DOMAIN chs : \A f \in others_in_use(rel) :
         sub[f].rf_path.lnb = l => sub[f].unicable_ch # chs[i]}

select_unicable_ch(r, rel) ==
  IF ~PathInfo[r].unicable THEN {None}
  ELSE LET free == free_unicable_channels(r.lnb, rel)
       IN  {LnbInfo[r.lnb].unicable_channels[i] :
              i \in {i \in free : \A j \in free : i <= j}}

-----------------------------------------------------------------------------
(* Choosing a frontend.                                                    *)

\* Mutant of adapter_in_use: only the first frontend of the adapter is looked at.
first_fe_in_use(a) ==
  \E f \in Fe : /\ FeInfo[f].adapter = a /\ is_subscribed(f)
                /\ \A g \in Fe : FeInfo[g].adapter = a => f <= g

adapter_in_use(a) == \E f \in Fe : FeInfo[f].adapter = a /\ is_subscribed(f)

is_our_subscription(f, rel) == f = rel /\ Len(sub[f].subs) <= 1

\* The record with which check_for_resource_conflicts is called.
desired(p, r, sat, pol, band, usals_pos) ==
  LET lnb == LnbInfo[r.lnb]
  IN  [owner |-> p, config_id |-> None, rf_path |-> r, sat_pos |-> sat,
       pol |-> pol, band |-> band, usals_pos |-> usals_pos,
       dish_usals_pos |-> IF lnb.dish \in Positioner THEN usals_pos
                                                      ELSE lnb.usals_pos,
       dish_id |-> lnb.dish, rf_coupler_id |-> PathInfo[r].rf_coupler_id,
       mux_key |-> NoMux, unicable_ch |-> None, subs |-> <<>>]

(***************************************************************************)
(* find_best_fe_for_lnb can return any of these, depending on priorities:  *)
(* free (or about to be freed by this subscription), with the features     *)
(* that are needed, and without a conflict.                                *)
(***************************************************************************)
find_best_fe_for_lnb(r, rel, s, blind, multistream, spectrum) ==
  {f \in Fe :
     /\ ~is_subscribed(f) \/ is_our_subscription(f, rel)
     /\ FeInfo[f].card = r.card
     /\ FeInfo[f].dvbs /\ r.rf_input \in FeInfo[f].rf_inputs
     /\ blind       => FeInfo[f].blindscan
     /\ multistream => FeInfo[f].multistream
     /\ spectrum    => FeInfo[f].fft \/ FeInfo[f].sweep
     /\ is_our_subscription(f, rel) \/ ~adapter_in_use(FeInfo[f].adapter)
     /\ check_for_resource_conflicts(s, rel, PathInfo[r].unicable)
     /\ select_unicable_ch(r, rel) # {}}

\* The paths to an LNB that can receive sat with this polarisation.
usable_paths(sat, pol, o) ==
  {r \in o.allowed :
     /\ pol \in LnbInfo[r.lnb].pols /\ has_network(r.lnb, sat)
     /\ usals_move_amount(r.lnb, sat) > Tolerance
           => o.may_move /\ PathInfo[r].rotor}

desired_for_mux(p, r, m) ==
  desired(p, r, MuxInfo[m].sat, MuxInfo[m].pol, MuxInfo[m].band,
          lnb_usals_pos(r.lnb))

(***************************************************************************)
(* The call of find_best_fe_for_lnb passes mux.k.sat_pos in the place of   *)
(* need_multistream, so multistream support is asked for exactly when the  *)
(* satellite is not at 0.0 degrees, and need_multistream in the place of   *)
(* sat_pos, which is only ever compared to None.                           *)
(***************************************************************************)
find_fe_and_lnb_for_tuning_to_mux(p, rel, m, o) ==
  {c \in [fe: Fe, path: usable_paths(MuxInfo[m].sat, MuxInfo[m].pol, o)] :
     c.fe \in find_best_fe_for_lnb(c.path, rel, desired_for_mux(p, c.path, m),
                                  o.blind, MuxInfo[m].sat # 0, FALSE)}

\* band NONE in the desired record forces exclusive access.
find_fe_and_lnb_for_tuning_to_band(p, rel, b, o) ==
  {c \in [fe: Fe, path: usable_paths(b.sat, b.pol, o)] :
     c.fe \in find_best_fe_for_lnb(c.path, rel,
                desired(p, c.path, b.sat, b.pol, NONE, lnb_usals_pos(c.path.lnb)),
                o.blind, FALSE, TRUE)}

find_best_fe_for_dvtdbc(rel, m, o) ==
  {f \in Fe : /\ FeInfo[f].dvbc
              /\ ~is_subscribed(f) \/ is_our_subscription(f, rel)
              /\ o.blind => FeInfo[f].blindscan
              /\ MuxInfo[m].multistream => FeInfo[f].multistream}

-----------------------------------------------------------------------------
(* Outcomes of an operation.  old and new are the frontends in the         *)
(* returned subscribe_ret_t, reuse its sub_to_reuse.                       *)

Ret(failed, old, new, reuse) ==
  [failed |-> failed, old |-> old, new |-> new, reuse |-> reuse]

Failed(old) == Ret(TRUE, old, NoFe, None)

Outcome(db, pos, tgt, ret) ==
  [sub |-> db, dish_pos |-> pos, target |-> tgt, ret |-> ret,
   failed_assert |-> NoFailure]

\* No dish moves.
Stationary(db, ret) == Outcome(db, dish_pos, target, ret)

Abort(label) ==
  [Stationary(sub, Failed(NoFe)) EXCEPT !.failed_assert = label]

\* Nothing was found: the old reservation is given up unless it is to be kept.
NotFound(old, id, keep) ==
  IF keep THEN Stationary(sub, Failed(NoFe))
          ELSE Stationary(unsubscribed(old, id), Failed(old))

schedule_move(d, pos) ==
  IF target[d] = pos THEN dish_pos ELSE [dish_pos EXCEPT ![d] = pos]

(***************************************************************************)
(* next_config_id++.  Only the equality of configuration numbers matters,  *)
(* so the number never used before is represented by the smallest one that *)
(* no reservation of this process has.                                     *)
(***************************************************************************)
next_config_id(p) ==
  LET unused == {n \in 0..NumFe : \A f \in Fe : sub[f].owner = p => sub[f].config_id # n}
  IN  {n \in unused : \A k \in unused : n <= k}

(***************************************************************************)
(* Reserving frontend f, whose record is base once the subscription has    *)
(* left its old frontend.  The first user of a path, tuner or coupler gets *)
(* a new configuration number; a later one takes owner and number from the *)
(* frontend that was scanned last.                                         *)
(***************************************************************************)
reserve(p, master, last, n, fields) ==
  IF master
  THEN [fields EXCEPT !.owner = p, !.config_id = n]
  ELSE [fields EXCEPT !.owner = counts_owner(last),
                      !.config_id = counts_config_id(last)]

\* The assertions on the record found, in the order of the code.
reserve_failure(p, base, master, last) ==
  IF master
  THEN IF base.config_id = None /\ base.owner = None THEN NoFailure
                                                      ELSE "stale_reservation"
  ELSE IF /\ base.config_id \in {None, counts_config_id(last)}
          /\ base.owner \in {None, counts_owner(last)}
       THEN IF counts_owner(last) = p THEN NoFailure ELSE "foreign_owner"
       ELSE "stale_reservation"

(***************************************************************************)
(* The part that subscribe_mux, subscribe_sat_band and subscribe_rf_path   *)
(* have in common once a frontend and a path are found: leave the old      *)
(* frontend, reserve the new one, and schedule the move of the dish.       *)
(***************************************************************************)
ReserveWith(p, id, old, f, s, fields, sat, may_move, last, n) ==
  LET rel     == fe_key_to_release(old, id)
      db      == unsubscribed(old, id)
      l       == fields.rf_path.lnb
      d       == LnbInfo[l].dish
      master  == can_control_lnb(s, rel)
      failure == reserve_failure(p, db[f], master, last)
      moves   == /\ master /\ may_move /\ d \in Positioner /\ has_network(l, sat)
                 /\ lnb_usals_pos(l) # LnbInfo[l].networks[sat]
      no_dish == /\ master /\ d \in Positioner
                 /\ sat # None /\ ~has_network(l, sat)
  IN  IF failure # NoFailure THEN Abort(failure)
      ELSE Outcome(
             [db EXCEPT ![f] = reserve(p, master, last, n, fields)],
             IF moves THEN schedule_move(d, LnbInfo[l].networks[sat]) ELSE dish_pos,
             IF moves THEN [target EXCEPT ![d] = LnbInfo[l].networks[sat]] ELSE target,
             IF no_dish THEN Failed(old) ELSE Ret(FALSE, old, f, None))

Reserved(p, id, old, f, s, fields, sat, may_move) ==
  {ReserveWith(p, id, old, f, s, fields, sat, may_move, last, n) :
     last \in last_scanned(fe_key_to_release(old, id)), n \in next_config_id(p)}

-----------------------------------------------------------------------------
(* Subscribing to a mux, and possibly to a service on it.                  *)

\* Mutant of fes_on_mux: the mux key is not compared.
fes_on_any_mux(p, o, m) ==
  {f \in Fe : /\ sub[f].owner = p
              /\ MuxInfo[m].dvbs => sub[f].rf_path \in o.allowed}

\* The frontends of this process that already are tuned to m.  The key of a
\* frequency peak is not unique, so such a tuned mux is never reused.
fes_on_mux(p, o, m) ==
  {f \in Fe : /\ sub[f].owner = p /\ sub[f].mux_key = m /\ ~MuxInfo[m].peak
              /\ MuxInfo[m].dvbs => sub[f].rf_path \in o.allowed}

\* Mutant of matching_existing_subscription: the service always has to match.
matching_service(p, o, m, service, match_mux_only) ==
  UNION {{[fe |-> f, idx |-> i] :
            i \in {i \in DOMAIN sub[f].subs : sub[f].subs[i].service = service}} :
         f \in fes_on_mux(p, o, m)}

\* The first frontend and entry that match, as a set.
matching_existing_subscription(p, o, m, service, match_mux_only) ==
  LET matches == UNION {{[fe |-> f, idx |-> i] :
                           i \in {i \in DOMAIN sub[f].subs :
                                   \/ match_mux_only
                                   \/ sub[f].subs[i].service = service}} :
                        f \in fes_on_mux(p, o, m)}
  IN  {x \in matches : \A y \in matches :
         x.fe < y.fe \/ (x.fe = y.fe /\ x.idx <= y.idx)}

(***************************************************************************)
(* Adding the subscription to entry x of a tuned frontend.  The id of the  *)
(* subscription to reuse is read through a reference into fe.sub.subs      *)
(* after our own entry was removed from it, so it is the one that moved    *)
(* into that slot, or the old one if the slot is now past the end.         *)
(***************************************************************************)
subscribe_fe_in_use(id, old, x, service, o, dvbs, ret_old) ==
  LET f    == x.fe
      db   == unsubscribed(old, id)
      left == db[f].subs
      rec  == [sub[f] EXCEPT !.subs = Append(left, Entry(id, TRUE, service))]
      slot == IF x.idx <= Len(left) THEN left[x.idx] ELSE sub[f].subs[x.idx]
  IN  IF /\ dvbs /\ Len(left) # 1
         /\ o.may_move \/ may_move_dish(sub[f]) \/ may_change_lnb(sub[f])
      THEN Abort("reuse_of_exclusive")
      ELSE Stationary([db EXCEPT ![f] = rec],
                      Ret(FALSE, ret_old, f, slot.subscription_id))

\* The same service is already in use: nothing changes, or it is shared.
reuse_service(id, old, x, service, o, dvbs) ==
  IF sub[x.fe].subs[x.idx].subscription_id = id
  THEN Stationary(sub, Ret(FALSE, x.fe, x.fe, id))
  ELSE subscribe_fe_in_use(id, old, x, service, o, dvbs,
                           IF old = x.fe THEN NoFe ELSE old)

\* The record of a frontend tuned to m, owner and config_id still to be set.
mux_record(base, p, r, m, ch, id, service) ==
  [desired_for_mux(p, r, m) EXCEPT
     !.unicable_ch = ch, !.mux_key = m,
     !.subs = Append(base.subs, Entry(id, TRUE, service))]

tune_dvbs_mux(p, id, old, m, service, o) ==
  LET rel    == fe_key_to_release(old, id)
      db     == unsubscribed(old, id)
      choice == find_fe_and_lnb_for_tuning_to_mux(p, rel, m, o)
  IN  IF choice = {} THEN {NotFound(old, id, o.keep)}
      ELSE UNION {UNION {
             Reserved(p, id, old, c.fe, desired_for_mux(p, c.path, m),
                      mux_record(db[c.fe], p, c.path, m, ch, id, service),
                      MuxInfo[m].sat, o.may_move) :
             ch \in select_unicable_ch(c.path, rel)} : c \in choice}

\* There is no check for conflicts, and the adapter may be in use.
reserve_fe_for_dvbc_or_dvbt_mux(p, id, old, f, m, service, n) ==
  LET db  == unsubscribed(old, id)
      rec == [db[f] EXCEPT
                !.owner = p, !.config_id = n,
                !.rf_path = [lnb |-> NoLnb, card |-> FeInfo[f].card, rf_input |-> 0],
                !.pol = NONE, !.band = NONE, !.sat_pos = MuxInfo[m].sat,
                !.usals_pos = MuxInfo[m].sat, !.rf_coupler_id = None,
                !.mux_key = m,
                !.subs = Append(db[f].subs, Entry(id, TRUE, service))]
  IN  IF db[f].owner # None THEN Abort("stale_reservation")
      ELSE Stationary([db EXCEPT ![f] = rec], Ret(FALSE, old, f, None))

tune_dvbc_mux(p, id, old, m, service, o) ==
  LET choice == find_best_fe_for_dvtdbc(fe_key_to_release(old, id), m, o)
  IN  IF choice = {} THEN {NotFound(old, id, o.keep)}
      ELSE {reserve_fe_for_dvbc_or_dvbt_mux(p, id, old, f, m, service, n) :
              f \in choice, n \in next_config_id(p)}

subscribe_mux_from(p, id, old, m, service, o) ==
  LET same_service == IF service = NoService THEN {}
                      ELSE matching_existing_subscription(p, o, m, service, FALSE)
      same_mux == matching_existing_subscription(p, o, m, service, TRUE)
      dvbs     == MuxInfo[m].dvbs
  IN  IF same_service # {}
      THEN {reuse_service(id, old, x, service, o, dvbs) : x \in same_service}
      ELSE IF same_mux # {}
      THEN {subscribe_fe_in_use(id, old, x, service, o, dvbs, old) : x \in same_mux}
      ELSE IF dvbs THEN tune_dvbs_mux(p, id, old, m, service, o)
                   ELSE tune_dvbc_mux(p, id, old, m, service, o)

subscribe_mux(p, id, m, service, o) ==
  UNION {subscribe_mux_from(p, id, old, m, service, o) :
           old \in fe_for_subscription(p, id)}

-----------------------------------------------------------------------------
(* Exclusive use of an LNB: for scanning a band, or for controlling it.    *)

\* reserve_fe_lnb_for_sat_band; unicable_ch is left as it was.
lnb_record(base, s, id) ==
  [s EXCEPT !.unicable_ch = base.unicable_ch,
            !.subs = Append(base.subs, Entry(id, FALSE, NoService))]

subscribe_sat_band_from(p, id, old, b, o) ==
  LET rel    == fe_key_to_release(old, id)
      db     == unsubscribed(old, id)
      choice == find_fe_and_lnb_for_tuning_to_band(p, rel, b, o)
      checked(r) == desired(p, r, b.sat, b.pol, NONE, lnb_usals_pos(r.lnb))
      stored(r)  == desired(p, r, b.sat, b.pol, b.band,
                            IF o.may_move THEN None ELSE lnb_usals_pos(r.lnb))
  IN  IF choice = {} THEN {NotFound(old, id, o.keep)}
      ELSE UNION {Reserved(p, id, old, c.fe, checked(c.path),
                           lnb_record(db[c.fe], stored(c.path), id),
                           b.sat, o.may_move) : c \in choice}

subscribe_sat_band(p, id, b, o) ==
  UNION {subscribe_sat_band_from(p, id, old, b, o) :
           old \in fe_for_subscription(p, id)}

\* After subscribe_lnb_ has released the old frontend in vain, it is released
\* once more, which is only harmless when others still use it.
rf_path_not_found(old, id) ==
  IF old = NoFe THEN Stationary(sub, Failed(NoFe))
  ELSE IF unsubscribed(old, id)[old].subs = <<>> THEN Abort("double_unsubscribe")
  ELSE Stationary(unsubscribed(old, id), Failed(NoFe))

subscribe_rf_path_from(p, id, old, q) ==
  LET rel    == fe_key_to_release(old, id)
      db     == unsubscribed(old, id)
      s      == desired(p, q.path, None, NONE, NONE, None)
      choice == find_best_fe_for_lnb(q.path, rel, s, q.blind, FALSE,
                                     q.move_to # None)
  IN  IF q.path.lnb \notin Lnb
      THEN {Stationary(unsubscribed(old, id), Failed(old))}
      ELSE IF q.path \notin RfPath \/ choice = {}
      THEN {rf_path_not_found(old, id)}
      ELSE UNION {Reserved(p, id, old, f, s, lnb_record(db[f], s, id),
                           q.move_to, TRUE) : f \in choice}

subscribe_rf_path(p, id, q) ==
  UNION {subscribe_rf_path_from(p, id, old, q) : old \in fe_for_subscription(p, id)}

-----------------------------------------------------------------------------
(* The actions.                                                            *)

Commit(p, out) ==
  /\ sub' = out.sub /\ dish_pos' = out.dish_pos /\ target' = out.target
  /\ IF out.failed_assert = NoFailure
     THEN UNCHANGED <<status, failed_assert>>
     ELSE /\ status' = [status EXCEPT ![p] = "dead"]
          /\ failed_assert' = out.failed_assert

SubscribeMux(p, id, m, o) ==
  status[p] = "alive" /\ \E out \in subscribe_mux(p, id, m, NoService, o) : Commit(p, out)

SubscribeService(p, id, service, o) ==
  /\ status[p] = "alive"
  /\ \E out \in subscribe_mux(p, id, ServiceMux[service], service, o) : Commit(p, out)

SubscribeSatBand(p, id, b, o) ==
  status[p] = "alive" /\ \E out \in subscribe_sat_band(p, id, b, o) : Commit(p, out)

SubscribeLnb(p, id, q) ==
  status[p] = "alive" /\ \E out \in subscribe_rf_path(p, id, q) : Commit(p, out)

Unsubscribe(p, id) ==
  /\ status[p] = "alive"
  /\ \E old \in fe_for_subscription(p, id) \ {NoFe} :
        Commit(p, Stationary(unsubscribed(old, id), Failed(old)))

\* Mutant of PositionerCmd: an unknown position is stored.
StorePosition(p, id, pos) ==
  /\ status[p] = "alive"
  /\ \E f \in fe_for_subscription(p, id) \ {NoFe} :
        LET d == sub[f].dish_id
        IN  /\ sub[f].rf_path \in RfPath /\ d \in Positioner /\ target[d] # pos
            /\ Commit(p, Outcome(sub, schedule_move(d, pos),
                                 [target EXCEPT ![d] = pos], Failed(NoFe)))

(***************************************************************************)
(* Driving the motor of the dish of a subscribed LNB.  A position that is  *)
(* not known (None) runs into assert(target_usals_pos != sat_pos_none).    *)
(***************************************************************************)
PositionerCmd(p, id, pos) ==
  /\ status[p] = "alive"
  /\ \E f \in fe_for_subscription(p, id) \ {NoFe} :
        LET r == sub[f].rf_path
            d == sub[f].dish_id
        IN  /\ r \in RfPath /\ d \in Positioner /\ PathInfo[r].rotor
            /\ target[d] # pos
            /\ Commit(p, IF pos = None THEN Abort("unknown_position")
                         ELSE Outcome(sub, schedule_move(d, pos),
                                      [target EXCEPT ![d] = pos], Failed(NoFe)))

\* The device manager writes a record without reservation for every frontend.
Start(p) ==
  /\ status[p] = "new"
  /\ Cardinality({q \in Proc : status[q] = "alive"}) < MaxInstances
  /\ status' = [status EXCEPT ![p] = "alive"]
  /\ sub' = [f \in Fe |-> NoSub]
  /\ UNCHANGED <<dish_pos, target, failed_assert>>

Crash(p) ==
  /\ status[p] = "alive"
  /\ status' = [status EXCEPT ![p] = "dead"]
  /\ UNCHANGED <<sub, dish_pos, target, failed_assert>>

\* An orderly exit ends all subscriptions of the process first.
Exit(p) ==
  /\ status[p] = "alive"
  /\ status' = [status EXCEPT ![p] = "dead"]
  /\ sub' = [f \in Fe |-> IF sub[f].owner = p THEN NoSub ELSE sub[f]]
  /\ UNCHANGED <<dish_pos, target, failed_assert>>

-----------------------------------------------------------------------------
Init ==
  /\ sub = [f \in Fe |-> NoSub]
  /\ dish_pos \in [Positioner -> Pos]
  /\ target \in [Positioner -> Pos \cup {None}]
  /\ \A d \in Positioner : target[d] \in {None, dish_pos[d]}
  /\ status = [p \in Proc |-> "new"]
  /\ failed_assert = NoFailure

Subscribe(p, id) ==
  \/ \E m \in Mux, o \in MuxOptions : SubscribeMux(p, id, m, o)
  \/ \E s \in Service, o \in MuxOptions : SubscribeService(p, id, s, o)
  \/ \E b \in BandRequest, o \in BandOptions : SubscribeSatBand(p, id, b, o)
  \/ \E q \in LnbRequest : SubscribeLnb(p, id, q)

Next ==
  \E p \in Proc :
    \/ Start(p) \/ Crash(p) \/ Exit(p)
    \/ \E id \in SubId : \/ Subscribe(p, id) \/ Unsubscribe(p, id)
                        \/ \E pos \in MotorTarget : PositionerCmd(p, id, pos)

Spec == Init /\ [][Next]_vars

-----------------------------------------------------------------------------
(* Properties.                                                             *)

SubType ==
  [owner: Proc \cup {None}, config_id: Nat \cup {None},
   rf_path: RfPath \cup [lnb: {NoLnb}, card: Nat \cup {None}, rf_input: {0, None}],
   sat_pos: Nat \cup {None}, pol: {NONE} \cup {MuxInfo[m].pol : m \in Mux}
                                        \cup {b.pol : b \in BandRequest},
   band: {NONE} \cup {MuxInfo[m].band : m \in Mux} \cup {b.band : b \in BandRequest},
   usals_pos: Nat \cup {None}, dish_usals_pos: Pos \cup {None},
   dish_id: Dish \cup {None}, rf_coupler_id: Nat \cup {None},
   mux_key: Mux \cup {NoMux}, unicable_ch: Nat \cup {None},
   subs: Seq([subscription_id: SubId, has_mux: BOOLEAN,
              service: Service \cup {NoService}])]

Labels == {NoFailure, "stale_reservation", "foreign_owner", "reuse_of_exclusive",
           "double_unsubscribe", "unknown_position"}

\* Every variable has its type: the fields of fe_subscription_t, the dish
\* positions and the process table stay within their declared ranges.
TypeOK ==
  /\ sub \in [Fe -> SubType]
  /\ dish_pos \in [Positioner -> Pos] /\ target \in [Positioner -> Pos \cup {None}]
  /\ status \in [Proc -> {"new", "alive", "dead"}]
  /\ failed_assert \in Labels

\* A stored reservation is whole or absent: unsubscribe_helper clears the
\* record exactly when its last subscriber leaves, and no operation, failed
\* one or aborted one leaves an owner without subscribers or the reverse.
RecordWhole ==
  \A f \in Fe : sub[f] # NoSub => /\ sub[f].owner # None
                                  /\ sub[f].config_id # None
                                  /\ sub[f].subs # <<>>

\* A reservation without mux (LNB control, band scan) has one subscriber:
\* assert(fe.sub.subs.size() == 1) in unsubscribe_helper.
LnbReservationUnique ==
  \A f \in Fe : \A i \in DOMAIN sub[f].subs :
     ~sub[f].subs[i].has_mux => Len(sub[f].subs) = 1 /\ sub[f].mux_key = NoMux

\* A subscription has at most one entry in the whole database, although
\* subscribing moves it from one frontend to another: otherwise it would be
\* "impossible to unsubscribe, as that is done by subscription_id".
UniqueSubscription ==
  \A f, g \in Fe : \A i \in DOMAIN sub[f].subs, j \in DOMAIN sub[g].subs :
     /\ sub[f].owner = sub[g].owner
     /\ sub[f].subs[i].subscription_id = sub[g].subs[j].subscription_id
     => f = g /\ i = j

SatelliteInUse == {f \in Fe : is_subscribed(f) /\ sub[f].rf_path \in RfPath}

\* No two live satellite reservations, of whatever processes, ever conflict
\* over an LNB, a tuner, a coupler or a dish, in whatever order they were
\* made and in spite of dead owners and reservations that are replaced.
NoConflict ==
  \A f, g \in SatelliteInUse : f # g =>
     ~conflicts(sub[f], sub[g], PathInfo[sub[g].rf_path].unicable)

\* Two live reservations on a unicable LNB never have the same user band.
UnicableDistinct ==
  \A f, g \in SatelliteInUse :
     /\ f # g /\ sub[f].rf_path.lnb = sub[g].rf_path.lnb
     /\ sub[f].unicable_ch # None
     => sub[f].unicable_ch # sub[g].unicable_ch

\* The frontends of one adapter share their demodulator: two of them are
\* never tuned to a satellite at the same time.
AdapterShared ==
  \A f, g \in SatelliteInUse :
     FeInfo[f].adapter = FeInfo[g].adapter => f = g

\* A subscriber of a service is on a frontend that is tuned to its mux.
ServiceOnTunedMux ==
  \A f \in Fe : \A i \in DOMAIN sub[f].subs :
     sub[f].subs[i].service # NoService
       => sub[f].mux_key = ServiceMux[sub[f].subs[i].service]

\* A process never occupies two frontends with one mux (peaks excepted, whose
\* keys are not unique): a second subscriber joins the frontend in use.  Only
\* meant for callers that allow every rf path.
NoDuplicateTuning ==
  \A f, g \in Fe :
     /\ sub[f].owner # None /\ sub[f].owner = sub[g].owner
     /\ sub[f].mux_key = sub[g].mux_key /\ sub[f].mux_key \in Mux
     /\ ~MuxInfo[sub[f].mux_key].peak
     => f = g

\* No assertion of the reservation code fails.
NoAssertFails == failed_assert = NoFailure

NoStart == \A p \in Proc : status'[p] = "alive" => status[p] = "alive"

\* While two subscriptions share a frontend, neither can retune it, release it
\* or move it to another LNB: after any step (but a start, or the end of its
\* own process) the frontend still has its owner, its path and its mux.
SharersKeepTuning ==
  [][NoStart => \A f \in Fe :
       /\ Len(sub[f].subs) >= 2 /\ is_subscribed(f) /\ status'[sub[f].owner] = "alive"
       => /\ sub'[f].owner = sub[f].owner /\ sub'[f].rf_path = sub[f].rf_path
          /\ sub'[f].mux_key = sub[f].mux_key]_vars

\* A dish is held still for a reservation that may not move it: as long as
\* such a reservation stays, no other reservation, of any process, makes the
\* dish move ("afterwards dish may not be moved").
DishHeldStill ==
  [][\A f \in Fe :
       /\ is_subscribed(f) /\ ~may_move_dish(sub[f]) /\ sub[f].dish_id \in Positioner
       /\ sub'[f] = sub[f]
       => dish_pos'[sub[f].dish_id] = dish_pos[sub[f].dish_id]]_vars
=============================================================================
