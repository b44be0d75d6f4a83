# A formal model of neumoDVB

neumoDVB receives satellite, cable and terrestrial television. Several programs
(viewers, recordings, scans, the positioner dialog), in one process or in several,
compete for the same hardware: demodulators (frontends) on cards, the tuners (rf
inputs) of these cards, LNBs, cables, and dishes, some of them on a motor. This
directory holds TLA+ modules of that competition and of what is built on it
(tuning, recording, scanning, time shifting), TLC configurations that model-check
them on small instances, and proofs checked by TLAPS.
All paths below are relative to the root of the repository.

## 1. Inventory

| Component | State | Operations | Hard behaviour | Correct when |
|---|---|---|---|---|
| reservations, `src/neumodb/devdb/fe_subscribe.cc`, `fe_find.cc` | for each frontend a record `fe_t.sub`: owner, LNB path, satellite, band, dish, mux, list of subscribers | `subscribe_mux`, `subscribe_sat_band`, `subscribe_rf_path`, `unsubscribe` | several processes on one database; crashes; one call leaves one frontend and takes another; many exits | live reservations never conflict; a subscription has one entry; records are whole; sharers keep their tuning |
| choice by priority, `fe_find.cc` | best candidate so far | one scan over LNBs, connections, frontends | order of the database, three priorities, penalties | best candidate, independent of order |
| LNBs and dishes, `devdb_extra.cc` | position of each LNB, target of each dish | `schedule_move`, `end_move`, editing | a dish carries several LNBs, used by several reservations | nobody moves a dish somebody relies on |
| device manager, `src/receiver/devmanager.cc` | adapters seen | start, hot plug | a starting process cleans up after crashed ones | live reservations survive |
| receiver thread, `receiver.cc`, `subscriber.cc` | map from subscription to active adapter | subscribe and unsubscribe of muxes, services, spectra, LNBs, recordings; exit | partial failure after reservation; threads waiting on each other | map and reservations agree |
| tuner threads, `tune.cc`, `active_adapter.cc` | one per active adapter: tune state, services, streams, live buffers | tune, add and remove service, positioner command | tasks that arrive after release; timeouts and retunes | no task on a released adapter |
| task queues, `task.h` | queue, futures, exit flags | push, run, stop, wait | deadlock, tasks pushed while stopping | every waited-for task is answered |
| recording manager, `recmgr.cc` | scheduled, running, finished recordings | schedule, start, stop, toggle, adjust, startup | clock, crash in the middle of a recording, several owners | recordings start, stop and are never run twice |
| scanner and commands, `scan.cc`, `commands.cc` | pending, active and finished muxes; periodic commands | start, next mux, result, abort | results out of order, reuse of subscriptions | every mux is scanned once or reported failed |
| SI stream, `active_si_stream.cc` | completion status of tables | sections, timeouts | order of tables, versions that change | scan ends |
| live buffer and playback, `live_mpm.cc`, `playback_mpm.cc` | file parts, markers | write, rotate, read, transform into recording | reader and writer in parallel | data read is data written |
| channel and EPG databases | muxes, services, events | merge, clean, rename keys | fuzzy keys | no duplicates |
| frontends, conditional access, spectrum analysis, GUI | drivers, server protocol, numerics | I/O | | out of scope |

Components call each other as follows. A user interface or the recording manager
asks the receiver thread to subscribe. The receiver thread opens a write
transaction on the device database and reserves a frontend (the core of this
model), then creates, reuses or releases an active adapter, pushes tasks to its
tuner thread and waits for them. Other processes do the same; they meet only in
the database. A reservation whose owner no longer exists (`kill(pid, 0)` fails)
counts as free.

`PROJECT.json` lists every component with its status, and the hazards: the places
in the code that are hard to test.

## 2. Modules

Every module has one variable per piece of state of the code and one action per
operation, handler or step between two points where other threads may run.

* **Devdb**: the installation (constants with named assumptions), the reservation
  record `NoSub`, and the predicates on two records, above all `conflicts`, which is
  one iteration of `check_for_resource_conflicts`.
* **FeSubscribe**: the reservations. `sub[f]` is `fe_t.sub` in the database,
  `dish_pos` and `target` the positions of the dishes, `status` the processes.
  Each operation of the code runs in one LMDB write transaction, and is one
  action. It is described by the set of its possible outcomes: new database,
  return value (`subscribe_ret_t`), or a failing assertion. The build is a debug
  build, so a failing assertion ends the process and the transaction is not
  committed; `failed_assert` remembers its label.
  Actions: `SubscribeMux`, `SubscribeService`, `SubscribeSatBand`, `SubscribeLnb`,
  `Unsubscribe`, `PositionerCmd` (tuner thread), `Start` (device manager),
  `Crash`, `Exit`.
* **Receiver** extends FeSubscribe with the receiver thread: the map `active_adapters`
  from subscription to adapter (`adapter`), the tuner threads that run (`tuners`) and the
  services on each adapter (`services`). A task of the receiver thread is one step,
  since it waits for the tuner; undoing a failed LNB reservation is a second one. The
  module composes the outcomes of FeSubscribe with what the receiver thread does with
  each of them.
* **BestPath**, **BestFrontend**: the loops that choose one of the usable paths and
  frontends. FeSubscribe allows any usable one, so its properties hold for every
  choice; these two modules say which one is taken.
* **TaskQueue**: one thread with its queue, and the threads that push tasks and wait
  for the futures. The test of `must_exit_` and the insertion are two steps, as in
  `push_task_`; so are popping, running and the test for exit in `run_tasks`.
  **Executor** is what the clients rely on, in four actions.
* **RecMgr**: recdb and the recording status in epgdb (`rec`, `epg`), the recording
  managers of several processes (`hk`, `pend`), the tasks they give to their receiver
  threads (`rq`), live buffers and finished recordings on disk, and the tuners that update
  recordings from the programme guide (`upd`), each from the snapshot of its read transaction (`rtxn`), which
  is begun once and never renewed. Stopping a recording is four steps in three threads: the live buffer
  forgets it (`stop_recording`), recmgr links the files (`LinkFiles`), stores the record (`StoreFinished`), and
  updates the guide and releases the adapter. **RecLifecycle** is what a user is promised
  of one recording: scheduled, in progress, finished or failed, in that order.
* **Scan**: the scanner: the scans with their subscriptions and counters, the scan status
  of each mux in the channel database, the tuner threads that scan, and their reports in
  the queue of the receiver thread. A task that starts subscriptions (`scan_next`) is a loop
  over the muxes that its read transaction shows (`loop.left`), one step per mux
  (`PassOver`, `SubscribeMux`, `ReservationFails`, `EndLoop`), since the receiver waits for a tuner
  and other tuner threads commit meanwhile. The end of a scan is several steps for the same reason.
* **LiveBuffer**: the service thread that writes parts of a live buffer, saves markers
  and publishes the meta_marker, and a player that maps one part, reads, sleeps on the
  condition variable, jumps, and moves on to the next part. `next_data_file` is in two versions, one for
  a file that cannot be created (`no_new_file`). Other players of the service act on what they share with the first one:
  they set and clear the interrupt flag of the meta_marker, and count for the newest part in use.
* **MCFeSubscribe**, **MCReceiver**, **MCTaskQueue**, **MCRecMgr**, **MCScan**: small
  instances. For the reservations, *Shared*: two cards, three frontends; one
  LNB on a rotating dish wired to both cards, one on a fixed dish that competes
  for the tuner of the first card; *Unicable*: four frontends, two of them on one
  adapter, one LNB with two user bands, a cable frontend.
* **FeSubscribe_proofs**, **Receiver_proofs**, **RecMgr_proofs**, **Scan_proofs**,
  **LiveBuffer_proofs**, **TaskQueue_proofs**, **BestPath_proofs**, **BestFrontend_proofs**: proofs.

Definitions called "variant" or "mutant" are wrong versions of the definition below them; replacing one by
the other breaks the property that `PROJECT.json` names, which shows that the property
depends on the code.

### Abstractions

* *Reservations.* Muxes are physically distinct, so the tolerance in comparing frequencies
  and stream ids of keys is not modelled; frequency peaks, whose keys are not unique,
  are (`peak`). Positions are whole numbers; only equality and the tolerance matter. The
  position of an LNB is known (`lnb.usals_pos` is not `sat_pos_none`).
  `next_config_id++` is represented by an unused number, since only equality of
  configuration numbers matters. `allowed_rf_paths`, `allowed_dish_ids` and
  `allowed_card_mac_addresses` are one set of allowed paths. Process ids are not used
  again. (The code can take a new process with the pid of a dead one for its owner.)
  A band scan or LNB control is exclusive, and an exclusive record without conflict
  shares no tuner, path or coupler with any other; so the stricter assertions in the
  `else` branch of `reserve_fe_lnb_for_sat_band` are not reached.
* *Receiver.* An adapter is named by its frontend. Subscription ids that were cleared
  are not used again, as in the code. Streams, playback and scans are separate.
* *Recordings.* Times are small numbers; a key is an event with its start time, so that
  a moved event is another key of the same event. Whether an adapter is free is open. The
  texts of guide entries are left out. `taken` is a history variable: events whose
  record was replaced behind the back of the process that records it. When a tuner stores
  a copy that is no longer right under another key, both events are in it. The hard links of `mpm_copylist_t::run` are
  taken to succeed; the code only logs an error.
* *Scans.* Muxes are names, and which of them match although their keys differ is the constant `Fuzzy`.
  Which bands a frontend reaches is another (`CanTune`); a mux no frontend reaches is refused when the user adds it,
  and not when a tuner finds it. A reservation succeeds when a suitable frontend is free; ids are taken again once
  nothing refers to them, which keeps the state space finite.
* *Live buffer.* A position is a packet number, a time the number of markers saved.
  Only decrypted packets count. One player is modelled in full; where the others are is open, so any part of the
  database may be the newest one in use. That another player fails an assertion, which ends the process,
  is left out. The index database is read in snapshots, as LMDB read transactions are. An empty file that a failed
  `ftruncate` leaves behind has no record, and is not in the model.

## 3. Runs

| Run | Checks | Shows |
|---|---|---|
| sharing | TypeOK, RecordWhole, LnbReservationUnique, UniqueSubscription, NoConflict, ServiceOnTunedMux, NoDuplicateTuning, SharersKeepTuning | three subscriptions of one process, all kinds of requests in any order (42 000 states) |
| processes | NoConflict | three processes, two alive at a time, that start, crash and exit, dish moves and motor commands (57 000 states) |
| single_instance | NoAssertFails, DishHeldStill | one process, restarted after crashes, two subscriptions: muxes and services without moving the dish, band scans that may move it |
| unicable | UnicableDistinct, AdapterShared | user bands and adapters at their limits |
| best_frontend | SpectrumChoice, StaysOnOwnFrontend | all lists of up to three usable frontends |
| best_path | PathFound, LnbThenConnection, NotDominated | all lists of up to three usable paths |
| receiver | ServedByReserved, TunerIffReserved, AdapterFound, ServiceRuns | the receiver thread with two subscriptions on the shared installation, failures, crashes and exit included (60 000 states) |
| task_queue | QueueTypeOK, NoLostWakeup, OneOutcome, ExecutorSpec | clients that push and wait while another thread stops the queue; refinement of Executor, liveness included (5 000 states) |
| recmgr | RecTypeOK, NoOrphanSubscription, DataKept, LifecycleSpec | an event that may be moved, an automatic and an anonymous recording, a clock, crashes, exits and restarts; refinement of RecLifecycle, liveness included (299 000 states) |
| scan | ScanTypeOK, ActiveCounted, NothingLeft, NothingSkipped, SubscriptionFound, ScanEnds | four muxes, two of them alike and one that no frontend reaches, on two frontends, a viewer, muxes found on the way, temporary failures, abort (223 000 states) |
| live_buffer | PartsPartition, ReadsWritten, NewsNotMissed, AbortEnds | a buffer of up to three parts that loses old ones, fails to create one and has a recording, a player that is opened and jumps, and other players that set and clear the interrupt flag (147 000 states) |

One run is expected to be refuted, with an entry under "findings":

| Run | Statement | Why it fails |
|---|---|---|
| recorded_twice | NotRecordedTwice | a tuner that updates a recording from the programme guide stores a copy it read before the recording manager started it; the record says SCHEDULED again and the recording is started a second time |

Bounds. *Reservations*: two frontends on a shared tuner and a third one elsewhere are enough for
every pair of reservations the code compares (same path, same tuner, same dish,
nothing in common); three subscriptions are enough for two sharers and an outsider;
three processes for a living, a dead and a starting one. Conflicts are pairwise, so
no further kind appears with more, and the theorems cover any number. The number of
processes alive is bounded by `MaxInstances`, candidates by `MaxFe` and `MaxPath`.
*Task queue*: `MaxPush` pushes per client; the queue has no other state, and the theorems
cover any number of clients. *Recordings*: `MaxTime` covers the time before, during and
after every recording, `MaxEvents` allows a toggle, a guide update and a crash in any
order. *Scans*: two frontends of which one can be taken by a viewer make reservations
fail with and without other subscriptions; the second scan shows what the first
left behind. `MaxNumSubscriptions` is the number of ids, so that the limit of the code, 100,
is not reached (see below). One pair of muxes that match, and one mux out of reach, show each exception
of NothingSkipped and ScanEnds. *Live buffer*: two packets and three parts are enough for a
player that is one or two parts behind, for a part that is removed while it is looked up, and for a
creation that fails before or after one that succeeds; the other players already leave the interrupt flag in any
state for the next client, so one client is enough. The safety properties and the inductive invariant were
checked with three packets as well (1.1 million states).
Deadlock is checked for scans, where the timer always fires. Elsewhere everything may stop:
all processes may have ended, a loop ends, a queue is stopped, or a bound is reached.
Symmetry permutes processes and subscription ids of the reservations, which the code only compares.

### Fairness

* TaskQueue: weak fairness of the thread, which is scheduled by the kernel, and of a client
  that is inside a call. Nobody is obliged to push.
* RecMgr: weak fairness of the clock, of each recording manager (its timer fires every second),
  of the receiver and tuner threads, and of starting the program when no instance runs:
  recordings only end if the user starts the program again. No fairness of toggles, guide
  entries, crashes or exits, whose number is bounded.
* Scan: weak fairness of housekeeping, which is driven by a timer, of the steps of a task that
  has begun, and of the tuner threads, which have a timeout in every state. Strong fairness of
  handling a report and of viewers leaving: the receiver thread is idle again and again, and
  housekeeping comes once a minute at most (`last_house_keeping_time`), so the tasks in its queue
  get their turn. With a viewer who stays on the only frontend, a scan waits, as it should.
* LiveBuffer: weak fairness of the thread of mpv, which reads in a loop until it is told
  to stop. No fairness of the service thread: there may be no signal. Nor of the other players: they may
  take the interrupt meant for this one, and AbortEnds says what is left to it then.

The reservations need no fairness: an operation is one transaction without waiting.

### Abstract specifications

`TaskQueue` implements `Executor` under the mapping *to do = running and queued, answered =
futures that are ready*; TLC checks all of it, and the safety part is proved. `RecMgr`
implements `RecLifecycle` under the mapping *status = status in recdb*: TLC checks the steps
of each recording and that every scheduled recording is over in the end; the steps are
proved as well (`Lifecycle!Safety`). The mapping passes
`taken` on, since an overwritten record may go back from IN_PROGRESS to SCHEDULED.

### Further disagreements seen while modelling

Each is in the model, or was confirmed with TLC on it unless stated otherwise, but has no run of its own.

Reservations:

* *Moving a dish others rely on.* The check for conflicts is made with the old position,
  then `update_dish_helper` moves the dish, also under a reservation that uses it through
  another tuner, although `dbdefs.py:624` says this is allowed only "if no other
  subscriptions conflict".
* *Crashed owner.* A frontend whose owner died counts as free, but its record is not
  cleared, and the next user aborts on `assert(sub.owner <0)` (outcome `stale_reservation`).
* *Failing `subscribe_rf_path`* releases the old frontend twice (`double_unsubscribe`).
* *Second instance.* A starting process overwrites the reservations of a running one.
* *Multistream.* Two arguments are swapped in the call at `fe_find.cc:492`, so that multistream
  support is required for every satellite but 0.0.
* *LNB priority.* The priority of the frontend overrules that of the LNB when connections
  have equal priority (`fe_find.cc:506`).
* *Sharing across processes.* `use_counts.owner` is that of the last frontend scanned;
  a process that shares a tuner with another one stores the other as owner and aborts
  on `assert(fe.sub.owner == getpid())` (outcome `foreign_owner`).
* *Changing service* on a mux used alone, with `may_move_dish`, aborts: the list of
  subscribers is empty where the assertion expects one (`reuse_of_exclusive`).
* *Driving a motor by hand* calls `schedule_move` with `sat_pos_none` and aborts
  (`unknown_position`), and a motor command moves a dish that others hold still.
* *Couplers*: non-exclusive reservations behind one coupler are not compared.
* *Cable*: `find_best_fe_for_dvtdbc` does not test whether the adapter is in use.
* *Frontend priorities* are not consulted for LNBs without priority when connection
  priorities are equal, although a comment says so.

Receiver thread and task queues:

* Two viewers of different services on one mux, one of whom changes to the service of the
  other: `is_new_aa()` is true although the adapter stays, `remove_service` (`tune.cc:575`) is
  skipped, and `tune_service_in_use` returns the old service. ServiceRuns says that *a*
  service runs, not that it is the wanted one.
* A failed `subscribe_rf_path` on a shared frontend returns no `updated_old_dbfe`
  (`fe_subscribe.cc:425`), so the entry in `active_adapters` stays and `exit` stops the tuner
  twice, which asserts (`stopped_twice`).
* Services of a subscription that moves away stay on a shared adapter, although the comment at
  `receiver.cc:164` says they are released.
* `stop_running` pushed between the last look at the queue and the test of `must_exit_`
  makes the thread end without running `exit`, and `stop_running(true)` waits for ever
  (`receiver.cc:113`). The executor leaves open what happens to tasks once a stop was requested.

Recordings:

* Starting an anonymous recording fails the assertion `!existing.k.anonymous`
  (`epgdb_extra.cc:442`); a key that is moved while IN_PROGRESS makes `stop_recording` fail one;
  `stop_recording` dereferences a null pointer when the start had failed. The process ends, and
  LifecycleSpec shows that the recordings recover.
* Toggling a recording of another process reports an error and then inserts a new one over it.
* Startup resets the recordings of another running instance.
* The live buffer forgets a recording, and commits (`tune.cc:230`, `live_mpm.cc:602`), before `copy_list.run()` links
  the files (`recmgr.cc:771`). When the process dies in between, the next start finds an empty buffer and removes
  the only copy. The comment at `live_mpm.cc:403` asks for the opposite order, "provided the rec_t record is not
  deleted in the livebuffer yet. This prevents the recording's data from being deleted before it is
  linked/copied". DataKept says that this window is the only one, besides a clean exit.
* The read transaction of a tuner thread is opened at every guide update and closed at none, so updates are compared with
  recdb as it was at the first one (`tune.cc:259`, `txnmgr.h:303`).
* A clean exit destroys live buffers with recordings in progress (`active_service.cc:132`),
  where a crash would have kept them.
* `remove_live_buffer` never stores `last_use_time` (`tune.cc:785`; seen by reading).

Scans:

* Two scans at once run into `assert(found)` in `scan_t::on_scan_mux_end`, because `is_our_scan` compares
  only the pid (constant `Parallel`).
* A propagating scan that is stopped while a tuner finds a mux leaves it marked PENDING for a
  scan that has gone; the next scan picks it up and does not end. The run lets the user stop
  only scans that do not propagate (`AbortScans`).
* `scan_next` resets `reusable_ssptr` before it returns it, so the subscription is never erased
  from `scan_t.subscriptions`: after `max_num_subscriptions` abandoned ones the scan stalls.
* `mux_is_being_scanned` also accepts a mux that matches a listed one (`matches_physical_fuzzy`, `scan.cc:1138`),
  even when that one's subscription was abandoned: the mux is passed over without being counted as
  pending, the scan ends without trying it, and its end makes it idle. NothingSkipped says that these are the
  only ones.
* A mux that is found on the way and that no frontend can tune stays pending, and the scan never ends: it is given up, with the
  comment "permanent failure [...] => Give up" (`scan.cc:1220`), only while `subscriptions` is empty, and a scan that has found something has
  an entry there for ever. ScanEnds leaves these scans out (`Unreachable`). The other way round, a mux whose
  frontends are all held by viewers is given up when it is the first to be tried (`ReservationFails`).
* Temporary failures are never saved, so the pass over muxes to retry finds none.
* `on_scan_mux_end` resets the scanner when one scan is done, which ends the others.
* `housekeeping` passes the statistics of DVB-T to the DVB-C scan and vice versa (`scan.cc:194`; seen by
  reading).

Live buffer:

* At every change of part the player skips data: the packets that trigger the change are published only
  together with the new part, the player sees another file number and leaves its part. A
  comment at `playback_mpm.cc:472` says "stream must continue where it ended".
* `open_` reads the database and then the meta_marker; a marker saved in between leaves the start
  unset, or beyond what is mapped, and an assertion fails (`OpenPartFails`).
* A jump to a time before the oldest part finds nothing, although a comment says that it goes
  to the next available file (`OpenPartNotFound`).
* A new part, at the end of a recording or by age, when no marker was saved since the last one began trips the assertion in
  `testf` (`NewFileAborts`).
* When a new file cannot be created (`live_mpm.cc:764`), the transaction is undone but the meta_marker keeps the
  next file number, and `process_channel_data` goes on. The database does not have that part: a player that
  leaves its part then fails an assertion (`PartEnd`), and so does the next call of `next_data_file` (`testf`), which closes the
  old part under the new number. The current marker has been set too, and nobody is notified until
  data is published again.
* `was_interrupted` is one flag for all players of a service. The first that wakes clears it (`live_mpm.cc:120`), and
  `must_exit` is not in the condition: a player told to stop may sleep on until data comes (AbortEnds). Or
  the abort of one player wakes another that waits for its first pmt, which asserts.
* `delete_old_data` keeps the parts from the *newest* one any player uses, so that an older player loses
  parts ahead of it, although the comment at `live_mpm.cc:1033` says these are kept to avoid "a gap in
  playback".
* An interrupt that nobody consumed makes the first wait of the next client return without pmt, which
  asserts.
* Recordings do not protect their parts from removal: `file_used_by_recording` reads the wrong database
  (seen by reading).

## 4. Proofs

`FeSubscribe_proofs` proves, for every installation that satisfies the assumptions of
Devdb and FeSubscribe, any number of frontends, processes and subscriptions:

* `Compatibility`: `Spec => []NoConflict`;
* `OneEntryPerSubscription`, `WholeReservations`, `LnbReservation`, `TypeCorrect`;
* `ExclusiveIsMaster`: an exclusive reservation without conflict controls its LNB,
  which justifies leaving out the `else` branch mentioned in section 2.

None of the invariants is inductive alone. The inductive invariant `Inv` (theorem
`Invariance`; its part about the database is `IInv`) joins them: that a reservation is whole is needed to know that a
frontend whose only subscriber leaves is cleared, hence that the frontend ignored by
the check for conflicts really disappears; that a subscription has one entry is needed
to know that leaving removes all of it. A new reservation is compared with the
others in one direction, while NoConflict speaks of both, so symmetry of `conflicts`
is a lemma of its own. The step lemma has one case per action; the operations of the
code are first reduced to facts on the set of their outcomes.

`BestPath_proofs` and `BestFrontend_proofs` prove the properties of the choices for
lists of any length and any priorities: `AlwaysFound`, `OrderIndependent`,
`Undominated`, `SpectrumFrontend`, `OwnFrontend`. The loops compare a candidate with the
best one so far only; the invariants add that the remembered priorities are those of the
best candidate, and the rest is transitivity.

`TaskQueue_proofs` proves for any set of clients and any number of tasks: `QueueType`, `Wakeup`,
`Outcomes`, and `QueueIsExecutor`, that the queue implements the safety part of Executor. Outcomes is
inductive with the types: a client pushes only while it waits for nothing, so its task is
in one place. The refinement has one case per action: inserting is Accept, running is
Execute, a refusal is Refuse, and everything else leaves the executor alone; it needs
the types, to know that the running task is the head of what is to be done.

The second part of `FeSubscribe_proofs` is about what sharing a frontend means. Every operation is
first reduced to one of five effects (`Effect`): an assertion fails, nothing changes, the subscription leaves, it
joins a tuned frontend, or it reserves a free one, with what the code checked on the way. The invariants
follow from the effects (theorem `SharingInvariant`):

* `ServedOnTunedMux`, `UserBandsDistinct` and the action property `SharedTuningKept`, without further hypotheses;
* `MuxTunedOnce`, when subscriptions allow every connection (`AllPathsAllowed`): a subscription
  that may not use the connection of the other one has to tune the mux a second time;
* `AdapterTunedOnce`, when no adapter combines a hybrid satellite and cable frontend with another satellite
  frontend (`SeparateAdapters`): `find_best_fe_for_dvtdbc` does not look at the adapter;
* `AssertCauses`, without hypotheses: what must be the case for each assertion to fail. It gives
  `AssertionsHold`: one process, no mux request that may move a dish, no LNB control and no motor command to an
  unknown position, the requests of run single_instance, fail no assertion on any hardware;
* `DishKeptStill`, when no mux request may move a dish and nobody drives a motor. Section 3
  tells how the code moves a dish otherwise.

`Receiver_proofs` proves `ReservedIsServed`, `TunerRunsWhileReserved`, `AdapterAlwaysFound` and `ReservedServiceRuns` from
one invariant, `RcvInv` (theorem `AdaptersInvariant`): the map of adapters serves every reservation, and every entry stands
for a reservation, unless its subscription was cleared or is about to be undone. The second half is
what makes it inductive: `release_active_adapter` stops a tuner when no other *entry* uses it, so a stale entry would keep
a tuner alive. Two hypotheses, both met by the run: one process at a time (the start of a second one wipes the
reservations of the first, whose adapters stay, so no weaker hypothesis about processes would do), and requests to control an LNB for a satellite that the
LNB knows (`~UnknownNetwork`; for an unknown one `subscribe_rf_path` reserves and then reports a failure).

`LiveBuffer_proofs` proves `LivePartsPartition`, `LiveReadsWritten` and `LiveNewsNotMissed` for any number of packets, parts,
recordings, clients and jumps. The player combines a snapshot of the database with the present
meta_marker, so the invariant (`LiveInvariant`) says of every part the database ever showed what it still
tells: a closed part never changes, an open one has only grown or been closed. The meta_marker may be a
number ahead of the database after a failed creation; so the invariant speaks of the part that is written
(`Written`), the open one of the database, whose packets are those of the meta_marker whatever its number.

`RecMgr_proofs` proves for any number of instances, recordings and guide entries, with crashes, failed assertions, exits and
stale copies: `RecTypes`, `NothingOrphaned`, the action property `RecordedDataKept`, and
`ImplementsLifecycle`, `Spec => Lifecycle!Safety`. Its invariant (`RecInvariant`) has these parts:

* what housekeeping and the tuners copied was right when they read it (`HkInv`, `UpdInv`): a recording to be
  started was scheduled and its time has come, which stays true as the clock only advances;
* the tasks pushed to the receiver thread, followed by the one recmgr is about to push, are
  one sequence `Todo`; in it the subscription of a recording to be started has no adapter, no buffer and no other task, and
  the buffer of one to be released is empty (`QueueInv`). The second fact is why `unsubscribe` loses no data;
* NoOrphanSubscription over `Todo` instead of the queue (`OrphanInv`), since between the two transactions of
  `update_recording` the task exists only in recmgr;
* the read transactions of the tuners, however old, show well-formed records (`SnapshotInv`); that they are
  the present ones is not needed, since what differs is in `taken`;
* a stop that is half done has a key and the task that releases its adapter (`StopInv`), so `LinkFiles` and `StoreFinished` finish
  what `stop_recording` began. DataKept follows a recording through these steps.

In the refinement a guide entry stored from a right copy is a move of the recording, one from a
stale copy adds both events to `lost`, and everything else changes one recording along its life cycle or
schedules some. The first version of this proof failed because the history variable left out the
event of the key under which a stale copy is stored; that was corrected in RecMgr (`stale_at`).

`Scan_proofs` proves `ScanTypes`, `ActiveMuxesCounted`, `NothingLeftBehind`, `NoMuxSkipped` and `SubscriptionAlwaysFound`
for any number of muxes, frontends, subscriptions, viewers and scans after each other. They follow from one
invariant, `ScanInv` (theorem `ScanInvariant`), which TLC checked first on all states of run scan:

* every tuner thread is listed in the subscriptions of its scan, with the same mux (`TunersListed`), and a mux
  that was tried does not wait again (`NotAgain`): `update_mux` passes over it by its mtime. So
  `mux_is_being_scanned` succeeds only for another mux, one that matches a listed one;
* a subscription has one report at most, and only when its tuner is done (`ReportsOnce`); so taking a report
  takes exactly one subscription out of those that are counted (`ActiveInv`);
* what the loop has not yet looked at is in the database as the old read transaction shows it (`Fresh`), because
  tuner threads write only muxes that are tried, or idle and not yet seen; and the subscription that may be
  reused is idle and has no report left (`Reusable`);
* a mux that waits will be looked at (`WaitInv`): it is ahead in the loop, or counted as pending, or
  a report is to come, which starts a loop with a new snapshot; or it matches a listed mux, and
  then always will, as entries are never erased. When the counters are zero at the end of a loop, no
  other mux waits, and no tuner thread is left that could find more. This is the
  argument for NothingSkipped, and the reason why it needs ActiveCounted;
* from then on nobody but the ending scan changes anything (`EndInv`), so it leaves nothing behind.

The hypothesis `OneAtATime` is met by the run and cannot be dropped: the code fails the properties with two scans at
once, and when a scan that adds the muxes it finds is stopped by the user (section 3, "Scans").

Every invariant and action property of the passing runs is now stated by a theorem. Out of reach of the prover and left
to TLC: liveness (ScanEnds, AbortEnds, the leads-to parts of ExecutorSpec and LifecycleSpec), ENABLED, and
recursive definitions. NotRecordedTwice is violated (run recorded_twice), so there is nothing to prove.

## 5. Plan

1. Scans of spectral peaks and bands; several scans at once with their reports.
2. Playback of finished recordings, and a copy of parts that fails half way.
3. `mux_find` against a reference definition; completion of SI tables; hot plug of adapters.

## 6. Not modelled

Drivers (ioctl sequences), conditional access (client of an external server, cryptography), spectrum
analysis (floating point), parsing of SI tables and of transport streams, Huffman tables, the GUI, the
schema upgrade and cursors of the databases, vendored libraries, and the command line tools for drivers.
Periodic scan commands: `housekeeping` in `commands.cc` begins with `return 0;`, so they never run.
Within the modelled parts: streams to the network, automatic recording rules being edited, statistics.
