-------------------------------- MODULE Scan --------------------------------
(***************************************************************************)
(* The scanner of one process (src/src/receiver/scan.cc): scans of muxes,  *)
(* the frontends they reserve, the tuner threads that scan and report, and *)
(* the scan status the channel database keeps of every mux.                *)
(*                                                                         *)
(* The receiver thread runs one task at a time.  A task that starts        *)
(* subscriptions is one step for each mux it looks at, all of them seen    *)
(* through the read transaction it began with, while tuner threads commit  *)
(* their own changes; the end of a scan is several steps, because the      *)
(* channel database is committed before the tuner threads are stopped.     *)
(*                                                                         *)
(* Reservations are abstracted to which frontends are free: FeSubscribe    *)
(* has the whole of them.  Peaks and spectrum bands are left out.          *)
(***************************************************************************)
EXTENDS Integers, Sequences, FiniteSets, Functions

CONSTANTS
  Mux,              \* muxes of the channel database, in database order (integers)
  BandOf,           \* the satellite, polarisation and band of a mux
  Fuzzy,            \* pairs of muxes so close that they may be one and the same
  Fe,               \* frontends
  CanTune,          \* the bands a frontend can be used for
  Scan,             \* scan subscriptions (integers, in order of creation)
  PropagateScans,   \* the scans whose options ask to scan the muxes found
  AbortScans,       \* the scans the user may stop
  Parallel,         \* may the user start a scan while another one runs?
  MaxNumSubscriptions,   \* scanner_t.max_num_subscriptions
  MaxViewings,      \* bound: how often a viewer takes a frontend
  MaxSub            \* bound: subscription ids, recycled once nothing refers to them

ASSUME ScanAssumption ==
  /\ Mux \subseteq Nat /\ Scan \subseteq Nat \ {0}
  /\ PropagateScans \subseteq Scan /\ AbortScans \subseteq Scan
  /\ IsFiniteSet(Mux) /\ IsFiniteSet(Scan) /\ IsFiniteSet(Fe)
  /\ Fuzzy \subseteq SUBSET Mux
  /\ CanTune \in [Fe -> SUBSET Range(BandOf)]
  /\ MaxNumSubscriptions \in Nat /\ MaxViewings \in Nat /\ MaxSub \in Nat
  /\ Parallel \in BOOLEAN

VARIABLES
  chdb,      \* mux -> scan status and scan_id in the channel database
  seen,      \* muxes stored since the scanner was created (mtime >= scan_start_time)
  scans,     \* scan -> its scan_t, for the scans of the scanner
  tuner,     \* subscription -> what its tuner thread is doing
  reports,   \* on_scan_mux_end tasks in the queue of the receiver thread
  loop,      \* the loop over the muxes that the receiver thread is in
  ending,    \* what is left of the task that ends scans
  viewers,   \* frontends that other subscribers use
  viewings,  \* how often one was taken
  trapped    \* has an assertion failed?

vars == <<chdb, seen, scans, tuner, reports, loop, ending, viewers, viewings,
          trapped>>

NoScan == 0             \* scan_id_t{}
Inf == 1000             \* std::numeric_limits<int>::max()

\* The scan, its muxes not yet looked at (as the read transaction shows them),
\* bands in which a reservation failed, the reusable subscriber (0 is none, -1
\* one that has no subscription yet), and in housekeeping the scans that follow
NoLoop == [scan |-> NoScan, left |-> <<>>, skip |-> {}, reuse |-> 0, then |-> {},
           timer |-> FALSE]

\* A scan to be ended, its subscriptions to be stopped, the scans to be ended next
NoEnd == [scan |-> NoScan, left |-> {}, then |-> {}, cleaned |-> FALSE,
          done |-> FALSE, reset |-> FALSE]

\* scan_result_t: all that the scanner tells apart
Results == {"final", "tempfail"}
Idle == [status |-> "idle", scan |-> NoScan]

Init ==
  /\ chdb = [m \in Mux |-> Idle]
  /\ seen = {}
  /\ scans = <<>>
  /\ tuner = <<>>
  /\ reports = <<>>
  /\ loop = NoLoop
  /\ ending = NoEnd
  /\ viewers = {}
  /\ viewings = 0
  /\ trapped = FALSE

-----------------------------------------------------------------------------
(* scan_next: start as many subscriptions as possible.                     *)

\* Variant: what is pending is forgotten
scan_stats_done_inactive(sc) == sc.active = 0

scan_stats_done(sc) == sc.pending + sc.active = 0

insert_or_assign(f, x, v) ==
  [y \in DOMAIN f \cup {x} |-> IF y = x THEN v ELSE f[y]]

is_first(S, x) == x \in S /\ \A y \in S : x <= y

may_retry(sc, reuse) ==
  Cardinality(DOMAIN sc.subs) < sc.maxRetry - (IF reuse = 0 THEN 0 ELSE 1)

\* The muxes that is_our_scan accepts, as of the transaction: those that failed
\* temporarily, unless too many subscriptions are left, and the pending ones
to_scan(db, sc, reuse) ==
  Restrict(db, {m \in Mux :
    /\ db[m].scan # NoScan
    /\ db[m].status = "pending" \/ (db[m].status = "retry" /\ may_retry(sc, reuse))})

\* scan_next of scan s, one of all: muxes that wait are counted anew
StartLoop(db, s, all, reuse, then, timer) ==
  /\ scans' = [all EXCEPT ![s].pending = 0]
  /\ loop' = [scan |-> s, left |-> to_scan(db, all[s], reuse), skip |-> {},
              reuse |-> reuse, then |-> then, timer |-> timer]

\* The next mux of the loop: those to be retried first, then in database order
is_next(m) ==
  /\ m \in DOMAIN loop.left
  /\ \A n \in DOMAIN loop.left :
       \/ loop.left[m].status = loop.left[n].status /\ m <= n
       \/ loop.left[m].status = "retry" /\ loop.left[n].status = "pending"

\* One mux of the loop was looked at
Visited(m, sc, skip, reuse) ==
  /\ scans' = [scans EXCEPT ![loop.scan] = sc]
  /\ loop' = [loop EXCEPT !.left = Restrict(@, DOMAIN @ \ {m}), !.skip = skip,
                          !.reuse = reuse]

\* Same satellite, polarisation and stream, and frequencies within tolerance
matches_physical_fuzzy(m, n) == {m, n} \in Fuzzy

\* A mux with this key, or one that matches it, was subscribed by this scan; a
\* subscription that was abandoned stays in the list
mux_is_being_scanned(sc, m) ==
  \E n \in Range(sc.subs) : m = n \/ matches_physical_fuzzy(m, n)

\* Too many subscriptions, or a reservation for the same band failed
is_deferred(sc, m) ==
  \/ Cardinality(DOMAIN sc.subs)
       >= MaxNumSubscriptions + (IF loop.reuse = 0 THEN 0 ELSE 1)
  \/ BandOf[m] \in loop.skip

PassOver(m) ==
  /\ is_next(m)
  /\ LET sc == scans[loop.scan] IN
     /\ is_deferred(sc, m) \/ mux_is_being_scanned(sc, m)
     /\ Visited(m, IF is_deferred(sc, m) THEN [sc EXCEPT !.pending = @ + 1] ELSE sc,
                loop.skip, loop.reuse)
  /\ UNCHANGED <<chdb, seen, tuner, reports, ending, viewers, viewings, trapped>>

is_tried(m) ==
  /\ is_next(m)
  /\ ~is_deferred(scans[loop.scan], m)
  /\ ~mux_is_being_scanned(scans[loop.scan], m)

frontends_for(m) ==
  {f \in Fe \ viewers :
     /\ BandOf[m] \in CanTune[f]
     /\ \A id \in DOMAIN tuner : tuner[id].fe = f => id = loop.reuse}

\* Subscription ids that nothing refers to
unused_ids ==
  (1 .. MaxSub) \ (DOMAIN tuner \cup {r.sub : r \in Range(reports)}
                   \cup UNION {DOMAIN scans[s].subs : s \in DOMAIN scans})

\* Variant: only a new subscription is entered in scan_t.subscriptions
subscription_unlisted(sc, id, m) ==
  [sc EXCEPT !.subs = IF loop.reuse > 0 THEN Restrict(@, DOMAIN @ \ {id})
                      ELSE insert_or_assign(@, id, m),
             !.active = @ + 1]

subscription_added(sc, id, m) ==
  [sc EXCEPT !.subs = insert_or_assign(@, id, m), !.active = @ + 1]

\* scan_try_mux: subscribe_mux and the tuner's activate_scan, for which the
\* receiver waits
SubscribeMux(m, f, id) ==
  /\ is_tried(m)
  /\ f \in frontends_for(m)
  /\ IF loop.reuse > 0 THEN id = loop.reuse ELSE is_first(unused_ids, id)
  /\ chdb' = [chdb EXCEPT ![m] = [status |-> "active", scan |-> loop.left[m].scan]]
  /\ seen' = seen \cup {m}
  /\ tuner' = insert_or_assign(tuner, id, [fe |-> f, mux |-> m,
                                           scan |-> loop.left[m].scan, done |-> FALSE])
  /\ Visited(m, subscription_added(scans[loop.scan], id, m), loop.skip, 0)
  /\ UNCHANGED <<reports, ending, viewers, viewings, trapped>>

\* Variant: active_muxes, counted before the reservation, is not put back
reservation_failed_counted(sc) ==
  IF DOMAIN sc.subs = {} THEN sc ELSE [sc EXCEPT !.pending = @ + 1, !.active = @ + 1]

reservation_failed(sc) ==
  IF DOMAIN sc.subs = {} THEN sc ELSE [sc EXCEPT !.pending = @ + 1]

\* scan_try_mux: the reservation fails.  Give up when nothing is subscribed, else
\* try this band later
ReservationFails(m) ==
  /\ is_tried(m)
  /\ frontends_for(m) = {}
  /\ LET sc == scans[loop.scan]
         permanently == DOMAIN sc.subs = {} IN
     /\ chdb' = IF permanently THEN [chdb EXCEPT ![m] = Idle] ELSE chdb
     /\ seen' = IF permanently THEN seen \cup {m} ELSE seen
     /\ Visited(m, reservation_failed(sc),
                IF permanently THEN loop.skip ELSE loop.skip \cup {BandOf[m]},
                IF loop.reuse = 0 THEN -1 ELSE loop.reuse)
  /\ UNCHANGED <<tuner, reports, ending, viewers, viewings, trapped>>

\* A subscription that was not reused ends, but stays in scan_t.subscriptions
abandoned == Restrict(tuner, DOMAIN tuner \ {loop.reuse})

AllDone(all) == \A s \in DOMAIN all : scan_stats_done(all[s])

\* unsubscribe_scan of s, which is done or not; when the scanner is reset, its
\* other scans end too
End(s, then, done, reset) ==
  ending' = [NoEnd EXCEPT !.scan = s, !.then = then, !.done = done, !.reset = reset]

\* reset_scanner, after a report when its scan is done, after housekeeping when
\* all of them are: the destructor ends the scans that are left
ResetIfDone ==
  IF loop.timer
  THEN IF AllDone(scans)
       THEN \E s \in DOMAIN scans : /\ is_first(DOMAIN scans, s)
                                    /\ End(s, DOMAIN scans \ {s}, TRUE, TRUE)
       ELSE UNCHANGED ending
  ELSE IF scan_stats_done(scans[loop.scan])
       THEN End(loop.scan, DOMAIN scans \ {loop.scan}, TRUE, TRUE)
       ELSE UNCHANGED ending

\* The end of scan_next, and the housekeeping of the next scan
EndLoop ==
  /\ loop.scan # NoScan /\ DOMAIN loop.left = {}
  /\ tuner' = abandoned
  /\ IF loop.then # {}
     THEN /\ \E s \in loop.then :
               /\ is_first(loop.then, s)
               /\ StartLoop(chdb, s, scans, 0, loop.then \ {s}, TRUE)
          /\ UNCHANGED ending
     ELSE loop' = NoLoop /\ ResetIfDone /\ UNCHANGED scans
  /\ UNCHANGED <<chdb, seen, reports, viewers, viewings, trapped>>

-----------------------------------------------------------------------------
(* Tasks of the receiver thread.                                           *)

ReceiverIdle == loop = NoLoop /\ ending = NoEnd /\ ~trapped

\* housekeeping of every scan, in order
StartHousekeeping(db, all) ==
  \E s \in DOMAIN all : /\ is_first(DOMAIN all, s)
                        /\ StartLoop(db, s, all, 0, DOMAIN all \ {s}, TRUE)

NewScan == [subs |-> <<>>, pending |-> 0, active |-> 0, maxRetry |-> Inf]

\* Some frontend reaches the mux, in use or not
can_subscribe(m) == \E f \in Fe : BandOf[m] \in CanTune[f]

\* scanner_t::add_muxes: muxes that no frontend reaches are refused, and those
\* that are being scanned are left alone
add_muxes(s, M) ==
  [m \in Mux |-> IF m \in M /\ can_subscribe(m) /\ chdb[m].scan = NoScan
                 THEN [chdb[m] EXCEPT !.status = "pending", !.scan = s] ELSE chdb[m]]

\* A scan subscription that nothing refers to
unused_scan(s) ==
  /\ s \notin DOMAIN scans
  /\ \A m \in Mux : chdb[m].scan # s
  /\ \A id \in DOMAIN tuner : tuner[id].scan # s
  /\ \A r \in Range(reports) : r.scan # s

\* receiver_t::scan_muxes, and the housekeeping that scan_now forces; when every
\* mux was refused, the scan stays, without muxes, until the timer
ScanMuxes(s, M) ==
  /\ ReceiverIdle
  /\ Parallel \/ scans = <<>>
  /\ unused_scan(s)
  /\ chdb' = add_muxes(s, M)
  /\ LET all == insert_or_assign(scans, s, NewScan) IN
     \/ /\ \E m \in M : can_subscribe(m)
        /\ StartHousekeeping(add_muxes(s, M), all)
     \/ /\ \A m \in M : ~can_subscribe(m)
        /\ scans' = all /\ loop' = loop
  /\ UNCHANGED <<seen, tuner, reports, ending, viewers, viewings, trapped>>

\* The timer: try what is pending again
Housekeeping ==
  /\ ReceiverIdle
  /\ DOMAIN scans # {}
  /\ StartHousekeeping(chdb, scans)
  /\ UNCHANGED <<chdb, seen, tuner, reports, ending, viewers, viewings, trapped>>

\* A scanner without scans is removed
RemoveScanner ==
  /\ ReceiverIdle
  /\ scans = <<>> /\ seen # {}
  /\ seen' = {}
  /\ UNCHANGED <<chdb, scans, tuner, reports, loop, ending, viewers, viewings, trapped>>

\* Variant: a temporary failure still counts as active
mux_ended_active(sc, result) ==
  [sc EXCEPT !.active = IF result = "tempfail" THEN @ ELSE @ - 1]

\* What retry_subscription_if_needed and on_scan_mux_end change in the scan
mux_ended(sc, result) ==
  [sc EXCEPT !.active = @ - 1,
             !.maxRetry = IF result = "tempfail" /\ @ = Inf
                          THEN IF DOMAIN sc.subs = {} THEN 0 ELSE Cardinality(DOMAIN sc.subs) - 1
                          ELSE @]

\* send_scan_mux_end_to_scanner: a subscription that has gone is ignored, and
\* so is a scan that has gone (scans.at throws, and the task ends)
OnScanMuxEnd ==
  /\ ReceiverIdle
  /\ reports # <<>>
  /\ reports' = Tail(reports)
  /\ LET r == Head(reports) IN
     IF r.sub \notin DOMAIN tuner \/ r.scan \notin DOMAIN scans
     THEN UNCHANGED <<scans, loop, trapped>>
     ELSE IF r.sub \notin DOMAIN scans[r.scan].subs
          THEN trapped' = TRUE /\ UNCHANGED <<scans, loop>>
          ELSE /\ StartLoop(chdb, r.scan,
                            [scans EXCEPT ![r.scan] = mux_ended(@, r.result)],
                            r.sub, {}, FALSE)
               /\ UNCHANGED trapped
  /\ UNCHANGED <<chdb, seen, tuner, ending, viewers, viewings>>

\* The user stops a scan
Abort(s) ==
  /\ ReceiverIdle
  /\ s \in DOMAIN scans
  /\ End(s, {}, FALSE, FALSE)
  /\ UNCHANGED <<chdb, seen, scans, tuner, reports, loop, viewers, viewings, trapped>>

\* Variants: the scan_id stays, and only what is pending or to be retried is cleared
end_scans_keeps_id(s) ==
  [m \in Mux |-> IF chdb[m].scan = s THEN [chdb[m] EXCEPT !.status = "idle"] ELSE chdb[m]]

end_scans_pending(s) ==
  [m \in Mux |-> IF chdb[m].scan = s /\ chdb[m].status \in {"pending", "retry"}
                 THEN Idle ELSE chdb[m]]

\* end_scans: its commit is the first thing unsubscribe_scan does
end_scans(s) ==
  [m \in Mux |-> IF chdb[m].scan = s THEN Idle ELSE chdb[m]]

EndScans ==
  /\ ending.scan # NoScan /\ ~ending.cleaned
  /\ chdb' = end_scans(ending.scan)
  /\ ending' = [ending EXCEPT !.cleaned = TRUE,
                              !.left = DOMAIN scans[ending.scan].subs \cap DOMAIN tuner]
  /\ UNCHANGED <<seen, scans, tuner, reports, loop, viewers, viewings, trapped>>

\* release_active_adapter: a tuner that is stopped while it scans ends the scan
\* of its mux first, and its report stays behind in the queue
StopTuner(id) ==
  /\ id \in ending.left
  /\ LET t == tuner[id] IN
     IF t.done THEN UNCHANGED <<chdb, reports>>
     ELSE /\ chdb' = [chdb EXCEPT ![t.mux] = Idle]
          /\ reports' = Append(reports, [sub |-> id, scan |-> t.scan, result |-> "final"])
  /\ tuner' = Restrict(tuner, DOMAIN tuner \ {id})
  /\ ending' = [ending EXCEPT !.left = @ \ {id}]
  /\ UNCHANGED <<seen, scans, loop, viewers, viewings, trapped>>

\* scans.erase, and the next scan if the scanner is removed
Erase ==
  /\ ending.cleaned /\ ending.left = {}
  /\ scans' = Restrict(scans, DOMAIN scans \ {ending.scan})
  /\ IF ending.then = {} THEN ending' = NoEnd
     ELSE \E s \in ending.then :
            /\ is_first(ending.then, s)
            /\ End(s, ending.then \ {s}, FALSE, ending.reset)
  /\ seen' = IF ending.reset /\ ending.then = {} THEN {} ELSE seen
  /\ UNCHANGED <<chdb, tuner, reports, loop, viewers, viewings, trapped>>

-----------------------------------------------------------------------------
(* Tuner threads, and the viewers of the process.                          *)

\* finalize_scan and check_scan_mux_end: a temporary failure is not saved
TunerEnds(id, result) ==
  /\ id \in DOMAIN tuner /\ ~tuner[id].done /\ ~trapped
  /\ tuner' = [tuner EXCEPT ![id].done = TRUE]
  /\ chdb' = IF result = "tempfail" THEN chdb
             ELSE [chdb EXCEPT ![tuner[id].mux] = Idle]
  /\ reports' = Append(reports, [sub |-> id, scan |-> tuner[id].scan, result |-> result])
  /\ UNCHANGED <<seen, scans, loop, ending, viewers, viewings, trapped>>

\* update_mux: the NIT of a mux that is scanned names another mux
TunerFinds(id, m) ==
  /\ id \in DOMAIN tuner /\ ~tuner[id].done /\ ~trapped
  /\ tuner[id].scan \in PropagateScans
  /\ m # tuner[id].mux /\ m \notin seen /\ chdb[m].status = "idle"
  /\ chdb' = [chdb EXCEPT ![m].status = "pending", ![m].scan = tuner[id].scan]
  /\ UNCHANGED <<seen, scans, tuner, reports, loop, ending, viewers, viewings, trapped>>

\* Viewers take frontends that no scan uses, and leave them
ViewerComes(f) ==
  /\ ReceiverIdle
  /\ viewings < MaxViewings
  /\ f \notin viewers /\ \A id \in DOMAIN tuner : tuner[id].fe # f
  /\ viewers' = viewers \cup {f}
  /\ viewings' = viewings + 1
  /\ UNCHANGED <<chdb, seen, scans, tuner, reports, loop, ending, trapped>>

ViewerLeaves(f) ==
  /\ ReceiverIdle
  /\ f \in viewers
  /\ viewers' = viewers \ {f}
  /\ UNCHANGED <<chdb, seen, scans, tuner, reports, loop, ending, viewings, trapped>>

\* A step of the loop over the muxes
ScanNext ==
  \/ \E m \in DOMAIN loop.left :
       \/ PassOver(m)
       \/ \E f \in Fe, id \in 1 .. MaxSub : SubscribeMux(m, f, id)
       \/ ReservationFails(m)
  \/ EndLoop

Next ==
  \/ \E s \in Scan, M \in SUBSET Mux \ {{}} : ScanMuxes(s, M)
  \/ Housekeeping
  \/ ScanNext
  \/ RemoveScanner
  \/ OnScanMuxEnd
  \/ \E s \in AbortScans : Abort(s)
  \/ EndScans
  \/ \E id \in ending.left : StopTuner(id)
  \/ Erase
  \/ \E id \in DOMAIN tuner, res \in Results : TunerEnds(id, res)
  \/ \E id \in DOMAIN tuner, m \in Mux : TunerFinds(id, m)
  \/ \E f \in Fe : ViewerComes(f) \/ ViewerLeaves(f)

\* The receiver thread's timer and tasks go on, and a tuner thread ends each scan
\* of a mux: every state of the tuner has a timeout.  No viewer stays forever.
\* Housekeeping comes once a minute at most (last_house_keeping_time), so it does
\* not keep the thread from the other tasks for good.
Spec ==
  /\ Init /\ [][Next]_vars
  /\ WF_vars(Housekeeping) /\ WF_vars(ScanNext) /\ SF_vars(OnScanMuxEnd)
  /\ WF_vars(EndScans) /\ WF_vars(Erase)
  /\ \A f \in Fe : SF_vars(ViewerLeaves(f))
  /\ \A id \in 1 .. MaxSub :
       /\ WF_vars(StopTuner(id))
       /\ WF_vars(\E res \in Results : TunerEnds(id, res))

-----------------------------------------------------------------------------
(* Properties.                                                             *)

\* Types, and what the fields of a record must agree on: a mux has a scan_id
\* exactly when its status says that it waits or is scanned (the assertion that
\* is repeated all over active_si_stream.cc).
ScanTypeOK ==
  /\ \A m \in Mux :
       /\ chdb[m].status \in {"idle", "pending", "active", "retry"}
       /\ chdb[m].scan \in Scan \cup {NoScan}
       /\ chdb[m].status # "idle" <=> chdb[m].scan # NoScan
  /\ DOMAIN scans \subseteq Scan
  /\ \A s \in DOMAIN scans :
       /\ DOMAIN scans[s].subs \subseteq 1 .. MaxSub
       /\ Range(scans[s].subs) \subseteq Mux
       /\ scans[s].pending \in Nat /\ scans[s].active \in Nat
  /\ DOMAIN tuner \subseteq 1 .. MaxSub
  /\ seen \subseteq Mux /\ viewers \subseteq Fe /\ viewings <= MaxViewings

\* active_muxes is the number of subscriptions of the scan whose report the
\* receiver thread still has to handle: neither a failed reservation, nor a
\* reuse, nor a report that comes when the frontend has gone to someone else,
\* makes the scan wait for a mux that nobody scans, or end before one is done.
ActiveCounted ==
  ending = NoEnd => \A s \in DOMAIN scans :
    scans[s].active = Cardinality({id \in DOMAIN tuner :
      /\ tuner[id].scan = s
      /\ ~tuner[id].done \/ \E r \in Range(reports) : r.sub = id})

\* When no scan is left, no frontend is reserved for one, and no mux is marked
\* as being scanned: such a mux would be left out of every later scan.
NothingLeft ==
  ending = NoEnd /\ scans = <<>> =>
    DOMAIN tuner = {} /\ \A m \in Mux : chdb[m].status = "idle"

\* A scan that ends by itself leaves no mux waiting that it could still have
\* tried: none was put off for lack of a frontend, and none was found by a tuner
\* after the last look.  The only muxes that still wait are those that are taken
\* for one that this scan has subscribed (mux_is_being_scanned): they are passed
\* over and not counted.
NothingSkipped ==
  ending.done /\ ~ending.cleaned =>
    \A m \in Mux : chdb[m].scan = ending.scan /\ chdb[m].status = "pending" =>
      mux_is_being_scanned(scans[ending.scan], m)

\* A mux that was found on the way and that no frontend reaches.
Unreachable(s) ==
  \E m \in Mux : chdb[m].scan = s /\ chdb[m].status = "pending" /\ ~can_subscribe(m)

\* Every scan ends, unless it has come upon a mux that no frontend reaches: such a
\* mux is only given up while the scan has no subscriptions, and those of the scan
\* are never taken off its list.
ScanEnds ==
  \A s \in Scan : s \in DOMAIN scans ~> s \notin DOMAIN scans \/ Unreachable(s)

\* scan_t::on_scan_mux_end: assert(found).  The scan that a report names has the
\* subscription that the report is about.
SubscriptionFound == ~trapped

=============================================================================
