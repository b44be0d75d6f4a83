------------------------------ MODULE Receiver ------------------------------
(***************************************************************************)
(* The receiver thread (receiver.cc) above the reservations of             *)
(* FeSubscribe: which active adapter, with its tuner thread, serves which  *)
(* subscription, and which services run on it (tune.cc,                    *)
(* active_adapter.cc).                                                     *)
(*                                                                         *)
(* The receiver thread executes one task at a time, so the reservation, the*)
(* release of the old adapter and the tuning, for which it waits, are one  *)
(* step; only the undoing of a failed LNB reservation is a transaction of  *)
(* its own.  An active adapter is named by its frontend.                   *)
(***************************************************************************)
EXTENDS FeSubscribe

VARIABLES
  adapter,    \* adapter[p][id]: active_adapters, NoFe when there is no entry
  tuners,     \* tuners[p]: frontends whose tuner thread runs
  services,   \* services[p][f][id]: subscribed_active_services of the adapter
  retired,    \* retired[p]: ids that were cleared; the next id is a new one
  undoing     \* undoing[p]: subscription whose failure is to be undone

rvars == <<adapter, tuners, services, retired, undoing>>

Idle(p, id) == status[p] = "alive" /\ undoing[p] = None /\ id \notin retired[p]

-----------------------------------------------------------------------------
(* What happens to the adapters of a process: a record of its map, threads *)
(* and services, and the first assertion that fails.                       *)

Adapters(p) == [adapter |-> adapter[p], tuners |-> tuners[p],
                services |-> services[p], failed |-> NoFailure]

Fail(s, label) == IF s.failed = NoFailure THEN [s EXCEPT !.failed = label] ELSE s

is_new_aa(ret) == ret.old = NoFe \/ ret.new = NoFe \/ ret.old # ret.new

\* tuner_thread_t::exit: the tuner thread ends, and its services with it.
stop_tuner(s, f) ==
  [s EXCEPT !.tuners = @ \ {f}, !.services[f] = [i \in SubId |-> NoService]]

\* Variant: the tuner is stopped although others use the adapter.
release_and_stop(s, id, left) ==
  LET f == s.adapter[id]
  IN  IF f = NoFe THEN Fail(s, "no_adapter")
      ELSE [stop_tuner(s, f) EXCEPT !.adapter[id] = NoFe]

\* Variant: the entries of all users of the adapter are erased.
release_everyone(s, id, left) ==
  LET f == s.adapter[id]
  IN  IF f = NoFe THEN Fail(s, "no_adapter")
      ELSE [s EXCEPT !.adapter = [i \in SubId |-> IF s.adapter[i] = f THEN NoFe
                                                 ELSE s.adapter[i]]]

\* left: the subscriptions that remain on the old frontend.
release_active_adapter(s, id, left) ==
  LET f == s.adapter[id]
  IN  IF f = NoFe THEN Fail(s, "no_adapter")
      ELSE [(IF left = <<>> THEN stop_tuner(s, f) ELSE s) EXCEPT !.adapter[id] = NoFe]

\* The subscriptions left on the old frontend when this one had left it.
left_on(old, id) == IF old = NoFe THEN <<>> ELSE unsubscribed(old, id)[old].subs

find_or_create_active_adapter(s, id, ret) ==
  IF ret.reuse \notin {None, id}
  THEN IF s.adapter[ret.reuse] = NoFe THEN Fail(s, "no_adapter_to_reuse")
       ELSE [s EXCEPT !.adapter[id] = s.adapter[ret.reuse]]
  ELSE IF s.adapter[id] # NoFe THEN s
  ELSE IF ~is_new_aa(ret) THEN Fail(s, "no_adapter_to_retune")
  ELSE IF ret.new \in s.tuners THEN Fail(s, "two_tuners")
  ELSE [s EXCEPT !.adapter[id] = ret.new, !.tuners = @ \cup {ret.new}]

\* Variant: the old adapter is not released.
subscribe_without_release(p, id, ret) ==
  IF ret.failed THEN Adapters(p)
  ELSE find_or_create_active_adapter(Adapters(p), id, ret)

\* The reservation is followed by the release of the old adapter, if it is
\* no longer needed, and the search for the new one.
receiver_subscribe(p, id, ret) ==
  LET s == Adapters(p)
      released == IF ret.old # NoFe /\ is_new_aa(ret)
                  THEN release_active_adapter(s, id, left_on(ret.old, id)) ELSE s
  IN  IF ret.failed \/ released.failed # NoFailure THEN released
      ELSE find_or_create_active_adapter(released, id, ret)

\* tune_mux: the old service is removed when the adapter stays the same.
tune_mux(s, id, ret) ==
  IF is_new_aa(ret) THEN s ELSE [s EXCEPT !.services[s.adapter[id]][id] = NoService]

\* tune_service: a service that the adapter already has for this subscription
\* is taken to be the wanted one.
tune_service(s, id, service) ==
  LET f == s.adapter[id]
  IN  IF service = NoService \/ s.services[f][id] # NoService THEN s
      ELSE [s EXCEPT !.services[f][id] = service]

\* Variant: the old service is removed too late.
tuned_late(s, id, ret, service) ==
  IF ret.failed \/ s.failed # NoFailure THEN s
  ELSE tune_mux(tune_service(s, id, service), id, ret)

tuned(s, id, ret, service) ==
  IF ret.failed \/ s.failed # NoFailure THEN s
  ELSE tune_service(tune_mux(s, id, ret), id, service)

\* The outcome out of the database and the result s for the adapters take
\* effect, unless an assertion of either fails: then the process dies.
Apply(p, out, s) ==
  LET label == IF out.failed_assert # NoFailure THEN out.failed_assert ELSE s.failed
  IN  /\ Commit(p, IF label = NoFailure THEN out ELSE Abort(label))
      /\ IF label = NoFailure
         THEN /\ adapter' = [adapter EXCEPT ![p] = s.adapter]
              /\ tuners' = [tuners EXCEPT ![p] = s.tuners]
              /\ services' = [services EXCEPT ![p] = s.services]
         ELSE UNCHANGED <<adapter, tuners, services>>

-----------------------------------------------------------------------------
(* The tasks of the receiver thread.                                       *)

\* Tuning to a mux, for a user or for a scan.
RcvSubscribeMux(p, id, m, o) ==
  /\ Idle(p, id)
  /\ \E out \in subscribe_mux(p, id, m, NoService, o) :
        Apply(p, out, tuned(receiver_subscribe(p, id, out.ret), id, out.ret, NoService))
  /\ UNCHANGED <<retired, undoing>>

\* Viewing, recording or streaming a service.
RcvSubscribeService(p, id, service, o) ==
  /\ Idle(p, id) /\ ~o.keep
  /\ \E out \in subscribe_mux(p, id, ServiceMux[service], service, o) :
        Apply(p, out, tuned(receiver_subscribe(p, id, out.ret), id, out.ret, service))
  /\ UNCHANGED <<retired, undoing>>

\* A spectrum for a scan of a band; services are left alone.
RcvSubscribeSatBand(p, id, b, o) ==
  /\ Idle(p, id)
  /\ \E out \in subscribe_sat_band(p, id, b, o) :
        Apply(p, out, receiver_subscribe(p, id, out.ret))
  /\ UNCHANGED <<retired, undoing>>

\* A failed reservation, or a failure of the tuner, is undone afterwards.
RcvSubscribeLnb(p, id, q) ==
  /\ Idle(p, id)
  /\ \E out \in subscribe_rf_path(p, id, q), tune_error \in BOOLEAN :
        /\ Apply(p, out, receiver_subscribe(p, id, out.ret))
        /\ undoing' = [undoing EXCEPT ![p] =
              IF out.ret.failed \/ tune_error THEN id ELSE None]
  /\ UNCHANGED retired

unsubscribe(p, id) ==
  /\ status[p] = "alive"
  /\ \E old \in fe_for_subscription(p, id) :
        Apply(p, Stationary(unsubscribed(old, id), Failed(old)),
              IF old = NoFe THEN Adapters(p)
              ELSE release_active_adapter(Adapters(p), id, left_on(old, id)))
  /\ retired' = [retired EXCEPT ![p] = @ \cup {id}]
  /\ undoing' = [undoing EXCEPT ![p] = None]

RcvUnsubscribe(p, id) == Idle(p, id) /\ unsubscribe(p, id)

RcvUndo(p) == undoing[p] # None /\ unsubscribe(p, undoing[p])

RcvPositionerCmd(p, id, pos) ==
  /\ Idle(p, id) /\ adapter[p][id] # NoFe
  /\ PositionerCmd(p, id, pos) /\ UNCHANGED rvars

NoAdapters(p) ==
  /\ adapter' = [adapter EXCEPT ![p] = [id \in SubId |-> NoFe]]
  /\ tuners' = [tuners EXCEPT ![p] = {}]
  /\ services' = [services EXCEPT ![p] = [f \in Fe |-> [id \in SubId |-> NoService]]]
  /\ UNCHANGED <<retired, undoing>>

RcvStart(p) == Start(p) /\ UNCHANGED rvars

RcvCrash(p) == Crash(p) /\ NoAdapters(p)

\* Entries of the map that stand for no reservation.
leftover(p) == {id \in SubId : adapter[p][id] # NoFe /\ fe_for_subscription(p, id) = {NoFe}}

\* receiver_thread_t::exit ends every subscription, then stops the tuner of
\* every entry that is left: stop_running asserts that it was not stopped yet.
RcvExit(p) ==
  /\ status[p] = "alive" /\ undoing[p] = None
  /\ status' = [status EXCEPT ![p] = "dead"]
  /\ sub' = [f \in Fe |-> IF sub[f].owner = p THEN NoSub ELSE sub[f]]
  /\ failed_assert' = IF leftover(p) = {} THEN failed_assert ELSE "stopped_twice"
  /\ UNCHANGED <<dish_pos, target>>
  /\ NoAdapters(p)

-----------------------------------------------------------------------------
RcvInit ==
  /\ Init
  /\ adapter = [p \in Proc |-> [id \in SubId |-> NoFe]]
  /\ tuners = [p \in Proc |-> {}]
  /\ services = [p \in Proc |-> [f \in Fe |-> [id \in SubId |-> NoService]]]
  /\ retired = [p \in Proc |-> {}]
  /\ undoing = [p \in Proc |-> None]

RcvNext ==
  \E p \in Proc :
    \/ RcvStart(p) \/ RcvCrash(p) \/ RcvExit(p) \/ RcvUndo(p)
    \/ \E id \in SubId :
         \/ \E m \in Mux, o \in MuxOptions : RcvSubscribeMux(p, id, m, o)
         \/ \E s \in Service, o \in MuxOptions : RcvSubscribeService(p, id, s, o)
         \/ \E b \in BandRequest, o \in BandOptions : RcvSubscribeSatBand(p, id, b, o)
         \/ \E q \in LnbRequest : RcvSubscribeLnb(p, id, q)
         \/ RcvUnsubscribe(p, id)
         \/ \E pos \in MotorTarget : RcvPositionerCmd(p, id, pos)

RcvSpec == RcvInit /\ [][RcvNext]_<<vars, rvars>>

-----------------------------------------------------------------------------
(* Properties.                                                             *)

Users(p, f) == {id \in SubId : sub[f].owner = p /\ holds(sub[f], id)}

\* The adapters follow the reservations (release_active_adapter,
\* find_or_create_active_adapter): a subscription that holds a frontend is
\* served by the active adapter of that frontend and of no other one, through
\* every change of mux, service, LNB or sharing, failed ones included.
ServedByReserved ==
  \A p \in Proc, f \in Fe : status[p] = "alive" =>
     \A id \in Users(p, f) : adapter[p][id] = f

\* A tuner thread runs exactly while its frontend is reserved: none is stopped
\* while a sharing subscription needs it, and none keeps a frontend open that
\* the database shows as free for other processes.
TunerIffReserved ==
  \A p \in Proc : status[p] = "alive" =>
     tuners[p] = {f \in Fe : Users(p, f) # {}}

\* None of the assertions on the map of adapters fails: assert(found) in
\* release_active_adapter and find_or_create_active_adapter, assert(is_new_aa()).
AdapterFound ==
  failed_assert \notin {"no_adapter", "no_adapter_to_reuse", "no_adapter_to_retune",
                        "two_tuners"}

\* Who reserved a service has one (tune_service): the adapter of the frontend
\* runs some service for every subscription whose reservation names one.
ServiceRuns ==
  \A p \in Proc, f \in Fe : status[p] = "alive" =>
     \A i \in DOMAIN sub[f].subs :
        sub[f].owner = p /\ sub[f].subs[i].service # NoService
          => services[p][f][sub[f].subs[i].subscription_id] # NoService
=============================================================================
