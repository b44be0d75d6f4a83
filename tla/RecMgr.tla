------------------------------- MODULE RecMgr -------------------------------
(***************************************************************************)
(* The recording manager (recmgr.cc) of one or more program instances that *)
(* share the recordings database recdb and the programme guide epgdb, with *)
(* the parts of the receiver and tuner threads a recording goes through:   *)
(*                                                                         *)
(*   - the user toggles recordings, and housekeeping, once a second, stops *)
(*     recordings whose time is over and starts those whose time has come; *)
(*   - starting is an asynchronous task of the receiver thread (rq), which *)
(*     reserves an adapter and has the tuner open a live buffer on disk;   *)
(*   - stopping waits for the tuner, which takes the recording out of the  *)
(*     live buffer; then recmgr links its files in the recordings          *)
(*     directory (disk), stores the recording as finished and unsubscribes *)
(*     through the receiver thread;                                        *)
(*   - a tuner that receives a programme guide entry updates the recording *)
(*     that matches it (upd), as its read transaction shows it: that of    *)
(*     its first guide entry, because it is never reset (rtxn);            *)
(*   - a process crashes, fails an assertion or exits, and the next one    *)
(*     repairs both databases and saves what is in its live buffers.       *)
(*                                                                         *)
(* A guide entry is a key: an event of a service with its start time.  Two *)
(* keys with the same event are the entry before and after the broadcaster *)
(* moved the event.  Times are abstract: Start and End are those of the    *)
(* event, From and To include the pre and post record times.               *)
(***************************************************************************)
EXTENDS Integers, FiniteSets, Sequences

CONSTANTS
  Key,            \* the keys of guide entries and of the recordings made for them
  Anonymous,      \* keys made by the user for a time range, not from the guide
  Autorec,        \* keys that match an automatic recording rule
  Event,          \* Event[k]: event_id of the guide entry
  Start, End,     \* start_time and end_time of the event
  From, To,       \* start_time - pre_record_time, end_time + post_record_time
  Pid,            \* process ids
  MaxAlive,       \* instances of the program that run at the same time
  MaxTime,        \* bound on the clock
  MaxEvents       \* bound on toggles, guide entries, crashes and exits

ASSUME RecMgrAssumption ==
  /\ IsFiniteSet(Key)
  /\ Anonymous \subseteq Key /\ Autorec \subseteq Key \ Anonymous
  /\ Start \in [Key -> Nat] /\ End \in [Key -> Nat]
  /\ From \in [Key -> Nat] /\ To \in [Key -> Nat]
  /\ \A k \in Key : From[k] <= Start[k] /\ Start[k] < End[k] /\ End[k] <= To[k]
  /\ Pid \subseteq Nat \ {0} /\ MaxAlive \in Nat \ {0}
  /\ MaxTime \in Nat /\ MaxEvents \in Nat

VARIABLES
  now,     \* the clock
  alive,   \* the processes that run
  rec,     \* recdb: rec[k], the recording with key k
  epg,     \* epgdb: recording status of the guide entry with key k
  hk,      \* hk[p]: the recordings that housekeeping has still to handle
  pend,    \* pend[p]: what is left of stop_recording or update_recording
  rq,      \* rq[p]: tasks of the receiver thread
  aa,      \* aa[p]: subscriptions with an active adapter
  lb,      \* live buffers: live_service records and what is on disk
  disk,    \* keys for which a finished recording is in the recordings directory
  rtxn,    \* rtxn[p]: the recdb that read transactions of the tuners of p show
  upd,     \* upd[p]: a tuner of p between reading recdb and storing
  taken,   \* history: events whose record was replaced behind its recorder's back
  events   \* number of bounded events so far

vars == <<now, alive, rec, epg, hk, pend, rq, aa, lb, disk, rtxn, upd, taken, events>>

NoPid == 0
NoSub == 0
NoRec == [status |-> "NONE", owner |-> NoPid, sub |-> NoSub]
Scheduled == [NoRec EXCEPT !.status = "SCHEDULED"]
Active == {"SCHEDULED", "IN_PROGRESS"}

Idle == [stop |-> {}, start |-> {}, fail |-> {}]
NoPend == [key |-> NoPid, status |-> "NONE", task |-> <<>>]
NoUpd == [key |-> NoPid]

-----------------------------------------------------------------------------
(* recdb::rec::best_matching.                                              *)

\* The events share at least half of the duration of one of them.
overlapping(j, k) ==
  LET s == IF Start[j] < Start[k] THEN Start[k] ELSE Start[j]
      e == IF End[j] < End[k] THEN End[j] ELSE End[k]
  IN  /\ e - s > 0
      /\ \/ e - s >= (End[k] - Start[k]) \div 2
         \/ e - s >= (End[j] - Start[j]) \div 2

earliest(S) == CHOOSE k \in S : \A j \in S : Start[k] <= Start[j]

candidates(db, k, anonymous) ==
  {j \in Key : /\ (j \in Anonymous) = anonymous
               /\ db[j].status \in Active
               /\ overlapping(j, k)}

\* In recdb as db shows it: the perfect match; otherwise the first one of the same
\* event; otherwise the first one.  {} when there is none.
best_matching(db, k, anonymous) ==
  LET C == candidates(db, k, anonymous)
      same == {j \in C : Event[j] = Event[k]}
  IN  IF k \in C THEN {k}
      ELSE IF same # {} THEN {earliest(same)}
      ELSE IF C # {} THEN {earliest(C)} ELSE {}

-----------------------------------------------------------------------------
(* A process that fails an assertion or dereferences a null pointer is     *)
(* gone; what it had in memory is gone too, databases and files stay.      *)

Dies(p) ==
  /\ alive' = alive \ {p}
  /\ hk' = [hk EXCEPT ![p] = Idle]
  /\ pend' = [pend EXCEPT ![p] = NoPend]
  /\ rq' = [rq EXCEPT ![p] = <<>>]
  /\ aa' = [aa EXCEPT ![p] = {}]
  /\ rtxn' = [rtxn EXCEPT ![p] = {}]
  /\ upd' = [upd EXCEPT ![p] = NoUpd]

\* subscribe_ret_t::next_subscription_id: an id this process has not used.
subs_of(p) == aa[p] \cup {rec[k].sub : k \in {j \in Key : rec[j].owner = p}}
                    \cup {b.sub : b \in {c \in lb : c.owner = p}}
                    \cup {rq[p][i].sub : i \in DOMAIN rq[p]}
next_subscription_id(p) ==
  CHOOSE s \in 1 .. Cardinality(subs_of(p)) + 1 : s \notin subs_of(p)

\* No tuner holds the epgdb write transaction.
epgdb_free == \A p \in Pid : upd[p] = NoUpd

\* recmgr of p is between two operations.
Ready(p) == p \in alive /\ hk[p] = Idle /\ pend[p] = NoPend

-----------------------------------------------------------------------------
(* Housekeeping.                                                           *)

\* The records a read transaction shows at this moment that are to be stopped
\* and to be started.  next_recording_event_time starts as the smallest time
\* and only ever decreases, so the body always runs.
housekeeping(r) ==
  [stop  |-> {<<k, r[k]>> : k \in {j \in Key : r[j].status = "IN_PROGRESS" /\ To[j] < now}},
   fail  |-> {<<k, r[k]>> : k \in {j \in Key : /\ r[j].status = "SCHEDULED"
                                               /\ From[j] <= now /\ To[j] <= now}},
   start |-> {<<k, r[k]>> : k \in {j \in Key : /\ r[j].status = "SCHEDULED"
                                               /\ From[j] <= now /\ now < To[j]}}]

Housekeeping(p) ==
  /\ Ready(p)
  /\ hk' = [hk EXCEPT ![p] = housekeeping(rec)]
  /\ UNCHANGED <<now, alive, rec, epg, pend, rq, aa, lb, disk, rtxn, upd, taken, events>>

buffer(p, s) == {b \in lb : b.owner = p /\ b.sub = s}

\* stop_recording(r) for the record r of key k, r as read by the caller: the part
\* that the tuner and service threads do.
stop_recording(p, k, r) ==
  \/ /\ r.owner # p
     /\ UNCHANGED <<alive, pend, rq, aa, lb, upd>>
  \/ \* find_active_adapter returns a null pointer
     /\ r.owner = p /\ r.sub \notin aa[p]
     /\ alive' = alive \ {p} /\ UNCHANGED lb
  \/ \* the live buffer has the recording, and forgets it
     /\ r.owner = p /\ r.sub \in aa[p]
     /\ \E b \in buffer(p, r.sub) :
          /\ k \in b.recs
          /\ lb' = (lb \ {b}) \cup {[b EXCEPT !.recs = @ \ {k}]}
     /\ pend' = [pend EXCEPT ![p] = [key |-> k, status |-> "COPYING",
                                     task |-> <<[op |-> "unsubscribe", key |-> k, sub |-> r.sub]>>]]
     /\ UNCHANGED <<alive, rq, aa, upd>>
  \/ \* it does not: a default record is stored, which epgdb does not know
     /\ r.owner = p /\ r.sub \in aa[p]
     /\ \A b \in buffer(p, r.sub) : k \notin b.recs
     /\ alive' = alive \ {p} /\ UNCHANGED lb

\* The events of a copy that is no longer what recdb holds, and of the key k
\* under which it is stored.
stale_at(w, k) == IF rec[w[1]] = w[2] THEN {} ELSE {Event[w[1]], Event[k]}
stale(w) == stale_at(w, w[1])

\* The part of stop_recording that a dying process leaves to Dies.
Finish(p, h) ==
  IF p \in alive' THEN hk' = [hk EXCEPT ![p] = h] /\ UNCHANGED rtxn ELSE Dies(p)

\* mpm_copylist_t::run, in recmgr's own thread: the files of the recording are
\* linked when the live buffer has already forgotten it.
LinkFiles(p) ==
  /\ p \in alive /\ pend[p].status = "COPYING"
  /\ disk' = disk \cup {pend[p].key}
  /\ pend' = [pend EXCEPT ![p].status = "LINKED"]
  /\ UNCHANGED <<now, alive, rec, epg, hk, rq, aa, lb, rtxn, upd, taken, events>>

\* update_recording of the recording that was stopped, its first transaction.
StoreFinished(p) ==
  /\ p \in alive /\ pend[p].status = "LINKED"
  /\ LET k == pend[p].key
         was == [status |-> "IN_PROGRESS", owner |-> p, sub |-> pend[p].task[1].sub]
     IN  /\ rec' = [rec EXCEPT ![k] = [NoRec EXCEPT !.status = "FINISHED"]]
         /\ taken' = taken \cup stale(<<k, was>>)
  /\ pend' = [pend EXCEPT ![p].status = "FINISHED"]
  /\ UNCHANGED <<now, alive, epg, hk, rq, aa, lb, disk, rtxn, upd, events>>

HousekeepingStop(p) ==
  /\ p \in alive /\ pend[p] = NoPend
  /\ \E w \in hk[p].stop :
       /\ stop_recording(p, w[1], w[2])
       /\ Finish(p, [hk[p] EXCEPT !.stop = @ \ {w}])
  /\ UNCHANGED <<now, rec, epg, disk, taken, events>>

\* start_recordings, too late.  Only recdb is told.
HousekeepingFail(p) ==
  /\ p \in alive /\ pend[p] = NoPend /\ hk[p].stop = {}
  /\ \E w \in hk[p].fail :
       /\ rec' = [rec EXCEPT ![w[1]] = [w[2] EXCEPT !.status = "FAILED"]]
       /\ hk' = [hk EXCEPT ![p].fail = @ \ {w}]
       /\ taken' = taken \cup stale(w)
  /\ UNCHANGED <<now, alive, epg, pend, rq, aa, lb, disk, rtxn, upd, events>>

HousekeepingStart(p) ==
  /\ p \in alive /\ pend[p] = NoPend /\ hk[p].stop = {}
  /\ \E w \in hk[p].start :
       LET s == next_subscription_id(p) IN
       /\ rec' = [rec EXCEPT ![w[1]] =
                    [status |-> "IN_PROGRESS", owner |-> p, sub |-> s]]
       /\ pend' = [pend EXCEPT ![p] =
                     [key |-> w[1], status |-> "IN_PROGRESS",
                      task |-> <<[op |-> "start", key |-> w[1], sub |-> s]>>]]
       /\ hk' = [hk EXCEPT ![p].start = @ \ {w}]
       /\ taken' = taken \cup stale(w)
  /\ UNCHANGED <<now, alive, epg, rq, aa, lb, disk, rtxn, upd, events>>

-----------------------------------------------------------------------------
(* update_epg_recording_status, the second transaction of update_recording *)
(* and of delete_recording.  It asserts that the entry exists and that it  *)
(* is not anonymous, unless nothing changes; delete_recording ("NONE")     *)
(* asserts neither.  The caller then pushes its task.                      *)

epg_update_fails(d) ==
  /\ d.status # "NONE"
  /\ \/ epg[d.key] = "absent"
     \/ d.key \in Anonymous /\ epg[d.key] # d.status

UpdateEpgStatus(p) ==
  /\ p \in alive /\ pend[p] # NoPend /\ epgdb_free
  /\ pend[p].status \notin {"COPYING", "LINKED"}
  /\ LET d == pend[p] IN
     \/ /\ epg_update_fails(d)
        /\ Dies(p)
        /\ UNCHANGED epg
     \/ /\ ~epg_update_fails(d)
        /\ epg' = IF epg[d.key] = "absent" THEN epg
                  ELSE [epg EXCEPT ![d.key] = d.status]
        /\ rq' = [rq EXCEPT ![p] = @ \o d.task]
        /\ pend' = [pend EXCEPT ![p] = NoPend]
        /\ UNCHANGED <<alive, hk, aa, rtxn, upd>>
  /\ UNCHANGED <<now, rec, lb, disk, taken, events>>

-----------------------------------------------------------------------------
(* toggle_recording.                                                       *)

not_ours_and_active(p, j) == rec[j].owner \in alive \ {p}

\* What the lookups find: a recording of another running instance is an error,
\* after which an anonymous recording is looked for as well.
toggle_target(p, k) ==
  LET first == best_matching(rec, k, FALSE) IN
  IF k \notin Anonymous /\ \A j \in first : ~not_ours_and_active(p, j)
  THEN first ELSE best_matching(rec, k, TRUE)

Request(p, k) ==
  /\ Ready(p) /\ events < MaxEvents
  /\ k \in Anonymous \/ epg[k] # "absent"
  /\ events' = events + 1

\* delete_schedrec: remove the recording, then housekeeping.
ToggleDelete(p, k) ==
  /\ Request(p, k)
  /\ \E j \in toggle_target(p, k) :
       /\ ~not_ours_and_active(p, j) /\ rec[j].status = "SCHEDULED"
       /\ rec' = [rec EXCEPT ![j] = NoRec]
       /\ pend' = [pend EXCEPT ![p] = [key |-> j, status |-> "NONE", task |-> <<>>]]
  /\ hk' = [hk EXCEPT ![p] = housekeeping(rec')]
  /\ UNCHANGED <<now, alive, epg, rq, aa, lb, disk, rtxn, upd, taken>>

ToggleStop(p, k) ==
  /\ Request(p, k)
  /\ \E j \in toggle_target(p, k) :
       /\ ~not_ours_and_active(p, j) /\ rec[j].status = "IN_PROGRESS"
       /\ stop_recording(p, j, rec[j])
       /\ Finish(p, Idle)
  /\ UNCHANGED <<now, rec, epg, disk, taken>>

\* Records in progress that are replaced although their recorder runs.
taken_by(new, K) ==
  {Event[k] : k \in {j \in K : /\ rec[j].status = "IN_PROGRESS" /\ rec[j].owner \in alive
                               /\ new[j] # rec[j]}}

\* new_schedrec; recdb::new_recording asserts that the entry is not in progress.
ToggleNew(p, k) ==
  /\ Request(p, k)
  /\ k \notin Anonymous /\ toggle_target(p, k) = {} /\ epgdb_free
  /\ \/ /\ epg[k] = "IN_PROGRESS"
        /\ Dies(p)
        /\ UNCHANGED <<rec, epg, taken>>
     \/ /\ epg[k] # "IN_PROGRESS"
        /\ rec' = [rec EXCEPT ![k] = Scheduled]
        /\ epg' = [epg EXCEPT ![k] = "SCHEDULED"]
        /\ taken' = taken \cup taken_by(rec', Key)
        /\ hk' = [hk EXCEPT ![p] = housekeeping(rec')]
        /\ UNCHANGED <<alive, pend, rq, aa, rtxn, upd>>
  /\ UNCHANGED <<now, lb, disk>>

\* new_anonymous_schedrec: also schedules the guide entries that begin shortly
\* before the anonymous recording and are not marked as scheduled.
ToggleNewAnonymous(p, k) ==
  /\ Request(p, k)
  /\ k \in Anonymous /\ toggle_target(p, k) = {} /\ epgdb_free
  /\ LET near == {j \in Key \ Anonymous : /\ epg[j] \notin {"absent", "SCHEDULED"}
                                          /\ Start[j] <= Start[k]}
         new == near \cup {k}
     IN  /\ rec' = [j \in Key |-> IF j \in new THEN Scheduled ELSE rec[j]]
         /\ epg' = [j \in Key |-> IF j \in new THEN "SCHEDULED" ELSE epg[j]]
  /\ taken' = taken \cup taken_by(rec', Key)
  /\ hk' = [hk EXCEPT ![p] = housekeeping(rec')]
  /\ UNCHANGED <<now, alive, pend, rq, aa, lb, disk, rtxn, upd>>

-----------------------------------------------------------------------------
(* A tuner of p receives the guide entry k.  It holds the write lock of    *)
(* epgdb all the time; recdb is read first, and locked for writing when    *)
(* the copies are stored.                                                  *)

\* A tuner thread begins its read transaction with its first guide entry.
\* Every update opens it more often than it closes it, so it is never renewed,
\* and later entries are compared with the recdb of that moment.
EpgRead(p, k) ==
  /\ p \in alive /\ epgdb_free /\ events < MaxEvents
  /\ k \notin Anonymous
  /\ \E db \in {rec} \cup rtxn[p] :
       LET named == best_matching(db, k, FALSE)
           found == IF named # {} THEN named ELSE best_matching(db, k, TRUE)
       IN  /\ upd' = [upd EXCEPT ![p] =
                        [key |-> k, found |-> {<<j, db[j]>> : j \in found}, old |-> db[k]]]
           /\ rtxn' = [rtxn EXCEPT ![p] = @ \cup {db}]
  /\ events' = events + 1
  /\ UNCHANGED <<now, alive, rec, epg, hk, pend, rq, aa, lb, disk, taken>>

\* Status that on_epg_update_check_recordings gives to the guide entry.
marked(u) == IF u.found = {} THEN "NONE" ELSE (CHOOSE w \in u.found : TRUE)[2].status

\* on_epg_update_check_recordings: a matching recording follows the guide entry
\* to its new key; for a matching anonymous one a named recording is added.
checked_recordings(u) ==
  IF u.found = {} THEN rec
  ELSE LET w == CHOOSE w \in u.found : TRUE IN
       IF w[1] \in Anonymous
       THEN [rec EXCEPT ![u.key] = Scheduled, ![w[1]] = w[2]]
       ELSE [[rec EXCEPT ![w[1]] = NoRec] EXCEPT ![u.key] = w[2]]

\* on_epg_update_check_autorecs adds a recording unless the read transaction
\* showed one.
checked_autorecs(u) ==
  IF u.key \in Autorec /\ u.old = NoRec
  THEN [checked_recordings(u) EXCEPT ![u.key] = Scheduled]
  ELSE checked_recordings(u)

\* recdb::new_recording asserts that the entry is not in progress.
epg_store_fails(u) ==
  /\ marked(u) = "IN_PROGRESS"
  /\ \/ \E w \in u.found : w[1] \in Anonymous
     \/ u.key \in Autorec /\ u.old = NoRec

EpgStore(p) ==
  /\ p \in alive /\ upd[p] # NoUpd
  /\ LET u == upd[p] IN
     \/ /\ epg_store_fails(u)
        /\ Dies(p)
        /\ UNCHANGED <<rec, epg, taken>>
     \/ /\ ~epg_store_fails(u)
        /\ rec' = checked_autorecs(u)
        /\ epg' = [j \in Key |->
                     IF j = u.key
                     THEN IF u.key \in Autorec /\ marked(u) = "NONE"
                          THEN "SCHEDULED" ELSE marked(u)
                     ELSE IF j \notin Anonymous /\ Event[j] = Event[u.key]
                          THEN "absent" ELSE epg[j]]
        /\ taken' = taken \cup (UNION {stale_at(w, u.key) : w \in u.found})
                          \cup taken_by(rec', Key \ {w[1] : w \in u.found})
        /\ upd' = [upd EXCEPT ![p] = NoUpd]
        /\ UNCHANGED <<alive, hk, pend, rq, aa, rtxn>>
  /\ UNCHANGED <<now, lb, disk, events>>
-----------------------------------------------------------------------------
(* The receiver thread runs its tasks in order.                            *)

\* start_recording: the mux may be unknown or no adapter may be free; on
\* success the tuner opens a live buffer that contains the recording.
StartTask(p) ==
  /\ p \in alive /\ rq[p] # <<>> /\ Head(rq[p]).op = "start"
  /\ LET t == Head(rq[p]) IN
     \/ UNCHANGED <<aa, lb>>
     \/ /\ aa' = [aa EXCEPT ![p] = @ \cup {t.sub}]
        /\ lb' = lb \cup {[owner |-> p, sub |-> t.sub, recs |-> {t.key}]}
  /\ rq' = [rq EXCEPT ![p] = Tail(@)]
  /\ UNCHANGED <<now, alive, rec, epg, hk, pend, disk, rtxn, upd, taken, events>>

\* Variant: the service is released but not the adapter.
UnsubscribeTask_service_only(p) ==
  /\ p \in alive /\ rq[p] # <<>> /\ Head(rq[p]).op = "unsubscribe"
  /\ rq' = [rq EXCEPT ![p] = Tail(@)]
  /\ UNCHANGED <<now, alive, rec, epg, hk, pend, aa, lb, disk, rtxn, upd, taken, events>>

\* unsubscribe: the service thread exits and removes the live buffer; the
\* live_service record keeps saying that the buffer is in use.
UnsubscribeTask(p) ==
  /\ p \in alive /\ rq[p] # <<>> /\ Head(rq[p]).op = "unsubscribe"
  /\ LET s == Head(rq[p]).sub IN
     /\ aa' = [aa EXCEPT ![p] = @ \ {s}]
     /\ lb' = (lb \ buffer(p, s)) \cup {[b EXCEPT !.recs = {}] : b \in buffer(p, s)}
  /\ rq' = [rq EXCEPT ![p] = Tail(@)]
  /\ UNCHANGED <<now, alive, rec, epg, hk, pend, disk, rtxn, upd, taken, events>>

-----------------------------------------------------------------------------
(* Crash, exit and startup.                                                *)

Crash(p) ==
  /\ p \in alive /\ events < MaxEvents
  /\ events' = events + 1
  /\ Dies(p)
  /\ UNCHANGED <<now, rec, epg, lb, disk, taken>>

\* receiver_thread_t::exit: recmgr finishes what it is doing and stops, then
\* the tuner threads stop; every service thread removes its live buffer.
Exit(p) ==
  /\ Ready(p) /\ upd[p] = NoUpd /\ events < MaxEvents
  /\ events' = events + 1
  /\ lb' = {IF b.owner = p THEN [b EXCEPT !.recs = {}] ELSE b : b \in lb}
  /\ Dies(p)
  /\ UNCHANGED <<now, rec, epg, disk, taken>>

\* Variants of restarted: one forgets the owner of a recording that goes on, one
\* leaves the recordings of the crashed process alone.
restarted_keeps_owner(k) ==
  IF rec[k].status # "IN_PROGRESS" THEN rec[k] ELSE [rec[k] EXCEPT !.status = "SCHEDULED"]
restarted_not(k) == rec[k]

\* recmgr_thread_t::startup for one recording.
restarted(k) ==
  IF rec[k].status # "IN_PROGRESS" THEN rec[k]
  ELSE IF To[k] < now THEN [NoRec EXCEPT !.status = "FINISHED"] ELSE Scheduled

\* startup cleans the status of guide entries that are over, then restores the
\* recordings in progress, whoever owns them.
cleaned(k) ==
  IF /\ rec[k].status \in {"FINISHED", "FAILED", "SCHEDULED"}
     /\ End[k] <= now /\ epg[k] # "absent"
  THEN "NONE" ELSE epg[k]

\* remove_old_livebuffers: the recordings found in buffers of dead processes are
\* finalized before the buffers are removed.
finalized_not(old) == {}
finalized(old) == UNION {b.recs : b \in old}

Startup(p) ==
  /\ p \notin alive /\ Cardinality(alive) < MaxAlive
  /\ \A k \in Key : rec[k].owner # p
  /\ \A b \in lb : b.owner # p
  /\ alive' = alive \cup {p}
  /\ rec' = [k \in Key |-> restarted(k)]
  /\ epg' = [k \in Key |-> cleaned(k)]
  /\ taken' = taken \cup taken_by(rec', Key)
  /\ LET old == {b \in lb : b.owner \notin alive} IN
     /\ disk' = disk \cup finalized(old)
     /\ lb' = lb \ old
  /\ UNCHANGED <<now, hk, pend, rq, aa, rtxn, upd, events>>

Tick ==
  /\ now < MaxTime
  /\ now' = now + 1
  /\ UNCHANGED <<alive, rec, epg, hk, pend, rq, aa, lb, disk, rtxn, upd, taken, events>>

-----------------------------------------------------------------------------
Init ==
  /\ now = 0 /\ alive = {} /\ rec = [k \in Key |-> NoRec]
  /\ epg \in [Key -> {"absent", "NONE"}]
  /\ \A k \in Anonymous : epg[k] = "absent"
  /\ \A j, k \in Key : Event[j] = Event[k] /\ j # k => "absent" \in {epg[j], epg[k]}
  /\ hk = [p \in Pid |-> Idle] /\ pend = [p \in Pid |-> NoPend]
  /\ rq = [p \in Pid |-> <<>>] /\ aa = [p \in Pid |-> {}]
  /\ lb = {} /\ disk = {}
  /\ rtxn = [p \in Pid |-> {}] /\ upd = [p \in Pid |-> NoUpd]
  /\ taken = {} /\ events = 0

Manager(p) ==
  \/ Housekeeping(p) \/ HousekeepingStop(p) \/ HousekeepingFail(p)
  \/ HousekeepingStart(p) \/ UpdateEpgStatus(p)
  \/ LinkFiles(p) \/ StoreFinished(p)

Next ==
  \/ Tick
  \/ \E p \in Pid :
       \/ Manager(p)
       \/ StartTask(p) \/ UnsubscribeTask(p) \/ EpgStore(p)
       \/ Crash(p) \/ Exit(p) \/ Startup(p)
       \/ \E k \in Key : \/ ToggleDelete(p, k) \/ ToggleStop(p, k) \/ ToggleNew(p, k)
                         \/ ToggleNewAnonymous(p, k) \/ EpgRead(p, k)

\* The threads run, the timer of recmgr fires, time passes and the program is
\* started again.
Fairness ==
  /\ WF_vars(Tick)
  /\ WF_vars(alive = {} /\ \E p \in Pid : Startup(p))
  /\ \A p \in Pid : /\ WF_vars(Manager(p))
                    /\ WF_vars(StartTask(p) \/ UnsubscribeTask(p))
                    /\ WF_vars(EpgStore(p))

Spec == Init /\ [][Next]_vars /\ Fairness
-----------------------------------------------------------------------------
RecType == [status : {"NONE", "SCHEDULED", "IN_PROGRESS", "FINISHED", "FAILED"},
            owner : Pid \cup {NoPid}, sub : Nat]

\* The states of the recording manager: a recording that is not in progress
\* has neither an owner nor a subscription.
RecTypeOK ==
  /\ now \in 0 .. MaxTime /\ alive \subseteq Pid /\ Cardinality(alive) <= MaxAlive
  /\ rec \in [Key -> RecType]
  /\ epg \in [Key -> {"absent", "NONE", "SCHEDULED", "IN_PROGRESS", "FINISHED"}]
  /\ \A k \in Key : rec[k].status # "IN_PROGRESS" => rec[k].owner = NoPid /\ rec[k].sub = NoSub
  /\ disk \subseteq Key

\* The subscriptions that process p holds, or will hold, for recordings.
recording_subs(p) == aa[p] \cup {rq[p][i].sub : i \in DOMAIN rq[p]}

being_released(p, s) ==
  \/ \E i \in DOMAIN rq[p] : rq[p][i].op = "unsubscribe" /\ rq[p][i].sub = s
  \/ \E i \in DOMAIN pend[p].task : pend[p].task[i].op = "unsubscribe" /\ pend[p].task[i].sub = s

\* No tuner is kept for nothing (stop_recording, start_recordings): every
\* subscription a running process holds for a recording, or is about to make, is
\* that of a recording in progress, which will be stopped, or is being released;
\* unless the record was overwritten from a stale copy or by another instance.
NoOrphanSubscription ==
  taken = {} =>
    \A p \in alive : \A s \in recording_subs(p) :
      \/ being_released(p, s)
      \/ \E k \in Key : rec[k] = [status |-> "IN_PROGRESS", owner |-> p, sub |-> s]

\* What process p has recorded for k is in a live buffer; or the buffer has
\* forgotten it and recmgr is about to link its files.
Buffered(p, k) == \E b \in lb : b.owner = p /\ k \in b.recs
Linking(p, k) == pend[p].key = k /\ pend[p].status = "COPYING"

\* What has been recorded is kept (stop_recording, mpm_copylist_t::run,
\* remove_old_livebuffers): it leaves a live buffer for the recordings directory
\* only, through the hands of recmgr, or because the user ends the program.  A crash
\* leaves it in the buffer, where the next start saves it, however often that one
\* crashes in turn; what the buffer has forgotten is lost when the process ends
\* before recmgr has linked the files, and never otherwise.
DataKept ==
  [][\A p \in Pid : \A k \in Key :
       /\ Buffered(p, k) => k \in disk' \/ Buffered(p, k)' \/ Linking(p, k)' \/ Exit(p)
       /\ Linking(p, k) => k \in disk' \/ Linking(p, k)' \/ p \in alive \ alive']_vars

\* "must be done now to avoid starting the same recording twice" (recmgr.cc:570):
\* no event is being recorded by two subscriptions at the same time.
NotRecordedTwice ==
  \A b, c \in lb :
    /\ b.owner \in alive /\ b.sub \in aa[b.owner]
    /\ c.owner \in alive /\ c.sub \in aa[c.owner]
    /\ b.recs \cap c.recs # {}
    => b = c

Lifecycle == INSTANCE RecLifecycle
  WITH clock <- now, st <- [k \in Key |-> rec[k].status], lost <- taken

\* The recording manager implements the life cycle the user is promised: a
\* recording that was started is never reported as failed, none is finished that
\* was not started, none starts before its time, and whatever crashes, asserts or
\* exits on the way, every one is over in the end.
LifecycleSpec == Lifecycle!Spec
=============================================================================
