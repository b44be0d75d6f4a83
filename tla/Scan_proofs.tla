---------------------------- MODULE Scan_proofs ----------------------------
(***************************************************************************)
(* Proofs about Scan: for any number of muxes, frontends, subscriptions    *)
(* and viewers, reports and tuner threads that come in between, a scan     *)
(* counts the muxes that are scanned, puts off none and leaves nothing.    *)
(*                                                                         *)
(* The invariant ties four places together that change at different times: *)
(* the status of a mux in the database, the subscriptions of the scan, the *)
(* tuner threads, and their reports in the queue.                          *)
(***************************************************************************)
EXTENDS Scan, FiniteSetTheorems, SequenceTheorems, TLAPS

\* One scan at a time, and the user does not stop one that adds the muxes it finds:
\* scans at once take each other's muxes, and a mux that is found while its scan
\* is stopped stays behind.
OneAtATime == ~Parallel /\ AbortScans \cap PropagateScans = {}

\* The subscriptions whose report the receiver thread still has to handle.
Counted(s) ==
  {id \in DOMAIN tuner :
     /\ tuner[id].scan = s
     /\ ~tuner[id].done \/ \E r \in Range(reports) : r.sub = id}

Sub == 1 .. MaxSub
MuxRec == [status : {"idle", "pending", "active"}, scan : Scan \cup {NoScan}]
SubMap == UNION {[D -> Mux] : D \in SUBSET Sub}
ScanRec == [subs : SubMap, pending : Nat, active : Nat, maxRetry : Int]
TunerRec == [fe : Fe, mux : Mux, scan : Scan, done : BOOLEAN]
Report == [sub : Sub, scan : Scan, result : Results]
Snapshot == UNION {[D -> MuxRec] : D \in SUBSET Mux}
LoopRec == [scan : Scan \cup {NoScan}, left : Snapshot,
            skip : SUBSET {BandOf[m] : m \in Mux}, reuse : {-1, 0} \cup Sub,
            then : SUBSET Scan, timer : BOOLEAN]
EndRec == [scan : Scan \cup {NoScan}, left : SUBSET Sub, then : SUBSET Scan,
           cleaned : BOOLEAN, done : BOOLEAN, reset : BOOLEAN]

\* Temporary failures are not saved, so no mux is ever to be retried.
DbOK ==
  /\ chdb \in [Mux -> MuxRec]
  /\ \A m \in Mux : chdb[m].status # "idle" <=> chdb[m].scan # NoScan

ScansOK == DOMAIN scans \subseteq Scan /\ \A s \in DOMAIN scans : scans[s] \in ScanRec

TunersOK == DOMAIN tuner \subseteq Sub /\ \A id \in DOMAIN tuner : tuner[id] \in TunerRec

Types ==
  /\ DbOK /\ ScansOK /\ TunersOK
  /\ reports \in Seq(Report) /\ loop \in LoopRec /\ ending \in EndRec
  /\ seen \subseteq Mux /\ viewers \subseteq Fe /\ viewings \in 0 .. MaxViewings
  /\ trapped = FALSE

Single == \A s, t \in DOMAIN scans : s = t

\* A tuner thread scans for a scan that exists and lists it, with the same mux.
TunersListed ==
  \A id \in DOMAIN tuner :
    /\ tuner[id].scan \in DOMAIN scans
    /\ id \in DOMAIN scans[tuner[id].scan].subs
    /\ scans[tuner[id].scan].subs[id] = tuner[id].mux

\* A mux waits only for a scan that exists.
ScansKnown == \A m \in Mux : chdb[m].scan # NoScan => chdb[m].scan \in DOMAIN scans

\* A mux that was tried does not wait again; update_mux sees it by its mtime.
NotAgain ==
  \A s \in DOMAIN scans : \A id \in DOMAIN scans[s].subs :
    /\ scans[s].subs[id] \in seen
    /\ chdb[scans[s].subs[id]].status # "pending"

\* A subscription has one report at most, and only when its tuner is done.
ReportsOnce ==
  /\ \A i, j \in DOMAIN reports : reports[i].sub = reports[j].sub => i = j
  /\ \A i \in DOMAIN reports : reports[i].sub \in DOMAIN tuner =>
       /\ tuner[reports[i].sub].done
       /\ tuner[reports[i].sub].scan = reports[i].scan

\* What the loop has not looked at is as the read transaction shows it, whatever
\* the tuner threads have committed since; and the tuner that is reused is idle.
Fresh ==
  \A m \in DOMAIN loop.left :
    chdb[m] = loop.left[m] /\ chdb[m].status = "pending" /\ chdb[m].scan = loop.scan

Reusable ==
  loop.reuse > 0 =>
    /\ loop.reuse \in DOMAIN tuner /\ tuner[loop.reuse].done
    /\ \A i \in DOMAIN reports : reports[i].sub # loop.reuse

LoopInv ==
  /\ loop.scan = NoScan => loop = NoLoop
  /\ loop.scan # NoScan => ending = NoEnd /\ loop.scan \in DOMAIN scans /\ loop.then = {}
  /\ Fresh /\ Reusable

\* A scan that is done, or one that adds the muxes it finds, ends when its tuner
\* threads have nothing more to say.
EndInv ==
  /\ ending.scan = NoScan => ending = NoEnd
  /\ ending.scan # NoScan => ending.scan \in DOMAIN scans /\ ending.then = {}
  /\ ending.left \subseteq DOMAIN tuner
  /\ ~ending.cleaned => ending.left = {}
  /\ ending.cleaned => /\ DOMAIN tuner \subseteq ending.left
                       /\ \A m \in Mux : chdb[m].scan = NoScan
  /\ ending.done \/ ending.scan \in PropagateScans =>
       \A id \in DOMAIN tuner : tuner[id].done

ActiveInv ==
  ending = NoEnd => \A s \in DOMAIN scans : scans[s].active = Cardinality(Counted(s))

\* A mux that waits will be looked at: by this loop, or because it is counted as
\* pending, or by the loop that a report starts; unless it is taken for a mux that
\* the scan has subscribed.
WaitInv ==
  ending = NoEnd =>
    \A s \in DOMAIN scans : \A m \in Mux :
      chdb[m].scan = s /\ chdb[m].status = "pending" =>
        \/ m \in DOMAIN loop.left \/ scans[s].pending > 0 \/ Counted(s) # {}
        \/ mux_is_being_scanned(scans[s], m)

ScanInv ==
  /\ Types /\ Single /\ TunersListed /\ ScansKnown /\ NotAgain /\ ReportsOnce
  /\ LoopInv /\ EndInv /\ ActiveInv /\ WaitInv /\ NothingSkipped

-----------------------------------------------------------------------------
(* Functions with a changing domain, and the records at rest.              *)

\* Restrict keeps the values.
LEMMA RestrictOne ==
  ASSUME NEW f, NEW S
  PROVE  /\ DOMAIN Restrict(f, S) = S
         /\ \A y \in S : Restrict(f, S)[y] = f[y]
BY DEF Restrict

\* A receiver thread that is in no loop and ends no scan.
LEMMA AtRest ==
  /\ NoScan \notin Scan
  /\ NoLoop \in LoopRec /\ NoLoop.scan = NoScan /\ DOMAIN NoLoop.left = {}
  /\ NoLoop.reuse = 0
  /\ NoEnd \in EndRec /\ NoEnd.scan = NoScan /\ NoEnd.left = {} /\ NoEnd.then = {}
  /\ ~NoEnd.cleaned /\ ~NoEnd.done
<1>1. NoScan \notin Scan
  BY ScanAssumption DEF NoScan
<1>2. <<>> \in [{} -> MuxRec]
  OBVIOUS
<1>3. <<>> \in Snapshot
  BY <1>2 DEF Snapshot
<1>4. NoLoop \in LoopRec
  BY <1>3 DEF NoLoop, LoopRec
<1>5. NoEnd \in EndRec
  BY DEF NoEnd, EndRec
<1> QED BY <1>1, <1>4, <1>5 DEF NoLoop, NoEnd

\* The subscriptions that are counted are finitely many.
LEMMA CountedFinite ==
  ASSUME TunersOK, NEW s
  PROVE  IsFiniteSet(Counted(s))
<1>1. IsFiniteSet(Sub)
  BY FS_Interval, ScanAssumption DEF Sub
<1>2. Counted(s) \subseteq Sub
  BY DEF Counted, TunersOK
<1> QED BY <1>1, <1>2, FS_Subset

-----------------------------------------------------------------------------
(* The invariant holds initially and is kept by every step.                *)

\* Nothing is scanned at first.
LEMMA InitScan == Init => ScanInv
<1> SUFFICES ASSUME Init PROVE ScanInv
  OBVIOUS
<1>1. /\ chdb = [m \in Mux |-> Idle] /\ seen = {} /\ scans = <<>> /\ tuner = <<>>
      /\ reports = <<>> /\ loop = NoLoop /\ ending = NoEnd /\ viewers = {}
      /\ viewings = 0 /\ trapped = FALSE
  BY DEF Init
<1>2. DOMAIN scans = {} /\ DOMAIN tuner = {} /\ DOMAIN reports = {}
  BY <1>1
<1>3. Types
  <2>1. DbOK
    BY <1>1 DEF DbOK, MuxRec, Idle
  <2> QED BY <1>1, <1>2, <2>1, AtRest, ScanAssumption DEF Types, ScansOK, TunersOK
<1>4. LoopInv
  BY <1>1, AtRest DEF LoopInv, Fresh, Reusable
<1>5. EndInv
  BY <1>1, <1>2, AtRest DEF EndInv
<1>6. ScansKnown
  BY <1>1 DEF ScansKnown, Idle
<1>7. NothingSkipped
  BY <1>1, AtRest DEF NothingSkipped
<1> QED BY <1>2, <1>3, <1>4, <1>5, <1>6, <1>7
        DEF ScanInv, Single, TunersListed, NotAgain, ReportsOnce, ActiveInv, WaitInv

\* What only viewers change.
LEMMA ViewerStep ==
  ASSUME ScanInv, NEW f \in Fe, ViewerComes(f) \/ ViewerLeaves(f)
  PROVE  ScanInv'
<1>1. /\ UNCHANGED <<chdb, seen, scans, tuner, reports, loop, ending, trapped>>
      /\ viewers' \subseteq Fe /\ viewings' \in 0 .. MaxViewings
  BY ScanAssumption DEF ViewerComes, ViewerLeaves, ScanInv, Types
<1>2. Types'
  BY <1>1 DEF ScanInv, Types, DbOK, ScansOK, TunersOK
<1> QED BY <1>1, <1>2
        DEF ScanInv, Single, TunersListed, ScansKnown, NotAgain, ReportsOnce, LoopInv, Fresh,
            Reusable, EndInv, ActiveInv, WaitInv, Counted, NothingSkipped

\* A scanner without scans is removed.
LEMMA RemoveScannerStep ==
  ASSUME ScanInv, RemoveScanner
  PROVE  ScanInv'
<1>1. /\ UNCHANGED <<chdb, scans, tuner, reports, loop, ending, viewers, viewings, trapped>>
      /\ seen' = {} /\ DOMAIN scans = {}
  BY DEF RemoveScanner
<1>2. Types'
  BY <1>1 DEF ScanInv, Types, DbOK, ScansOK, TunersOK
<1>3. NotAgain'
  BY <1>1 DEF NotAgain
<1> QED BY <1>1, <1>2, <1>3
        DEF ScanInv, Single, TunersListed, ScansKnown, ReportsOnce, LoopInv, Fresh,
            Reusable, EndInv, ActiveInv, WaitInv, Counted, NothingSkipped

\* The user stops a scan that does not add the muxes it finds.
LEMMA AbortStep ==
  ASSUME ScanInv, OneAtATime, NEW s \in AbortScans, Abort(s)
  PROVE  ScanInv'
<1>1. /\ UNCHANGED <<chdb, seen, scans, tuner, reports, loop, viewers, viewings, trapped>>
      /\ ending = NoEnd /\ loop = NoLoop /\ s \in DOMAIN scans /\ s \notin PropagateScans
      /\ ending' = [NoEnd EXCEPT !.scan = s, !.then = {}, !.done = FALSE, !.reset = FALSE]
  BY DEF Abort, ReceiverIdle, End, OneAtATime
<1>2. s \in Scan
  BY <1>1 DEF ScanInv, Types, ScansOK
<1>3. /\ ending' \in EndRec /\ ending'.scan = s /\ ending'.left = {} /\ ending'.then = {}
      /\ ~ending'.cleaned /\ ~ending'.done
  BY <1>1, <1>2 DEF NoEnd, EndRec
<1>4. ending'.scan # NoScan /\ ending' # NoEnd
  BY <1>2, <1>3, AtRest
<1>5. Types'
  BY <1>1, <1>3 DEF ScanInv, Types, DbOK, ScansOK, TunersOK
<1>6. EndInv'
  BY <1>1, <1>3, <1>4 DEF EndInv
<1>7. LoopInv'
  BY <1>1, AtRest DEF ScanInv, LoopInv, Fresh, Reusable
<1> QED BY <1>1, <1>3, <1>4, <1>5, <1>6, <1>7
        DEF ScanInv, Single, TunersListed, ScansKnown, NotAgain, ReportsOnce, ActiveInv,
            WaitInv, NothingSkipped

\* The scan is cleared in the database.
LEMMA EndScansStep ==
  ASSUME ScanInv, EndScans
  PROVE  ScanInv'
<1>1. /\ UNCHANGED <<seen, scans, tuner, reports, loop, viewers, viewings, trapped>>
      /\ ending.scan # NoScan /\ ~ending.cleaned
      /\ chdb' = [m \in Mux |-> IF chdb[m].scan = ending.scan THEN Idle ELSE chdb[m]]
      /\ ending' = [ending EXCEPT !.cleaned = TRUE,
                      !.left = DOMAIN scans[ending.scan].subs \cap DOMAIN tuner]
  BY DEF EndScans, end_scans
<1>2. ending \in EndRec /\ ending.scan \in DOMAIN scans /\ ending.then = {}
  BY <1>1 DEF ScanInv, Types, EndInv
<1>3. DOMAIN scans = {ending.scan}
  BY <1>2 DEF ScanInv, Single
<1>4. DOMAIN tuner \subseteq DOMAIN scans[ending.scan].subs /\ DOMAIN tuner \subseteq Sub
  BY <1>3 DEF ScanInv, TunersListed, Types, TunersOK
<1>5. /\ ending' \in EndRec /\ ending'.scan = ending.scan /\ ending'.left = DOMAIN tuner
      /\ ending'.then = {} /\ ending'.cleaned /\ ending'.done = ending.done
  BY <1>1, <1>2, <1>4 DEF EndRec
<1>6. \A m \in Mux : chdb'[m].scan = NoScan /\ chdb'[m] = Idle
  <2> SUFFICES ASSUME NEW m \in Mux PROVE chdb'[m].scan = NoScan /\ chdb'[m] = Idle
    OBVIOUS
  <2>1. chdb[m] \in MuxRec /\ (chdb[m].status # "idle" <=> chdb[m].scan # NoScan)
    BY DEF ScanInv, Types, DbOK
  <2>2. CASE chdb[m].scan = ending.scan
    BY <1>1, <2>2 DEF Idle
  <2>3. CASE chdb[m].scan # ending.scan
    <3>1. chdb[m].scan = NoScan
      BY <1>3, <2>3 DEF ScanInv, ScansKnown
    <3>2. chdb[m] = [status |-> "idle", scan |-> NoScan]
      BY <2>1, <3>1 DEF MuxRec
    <3> QED BY <1>1, <2>3, <3>1, <3>2 DEF Idle
  <2> QED BY <2>2, <2>3
<1>7. DbOK'
  <2>1. chdb' = [m \in Mux |-> Idle]
    BY <1>1, <1>6
  <2> QED BY <2>1 DEF DbOK, MuxRec, Idle
<1>8. Types'
  BY <1>1, <1>5, <1>7 DEF ScanInv, Types, ScansOK, TunersOK
<1>9. loop = NoLoop
  BY <1>1, AtRest DEF ScanInv, LoopInv
<1>10. LoopInv'
  BY <1>1, <1>9, AtRest DEF LoopInv, Fresh, Reusable
<1>11. EndInv'
  BY <1>1, <1>2, <1>5, <1>6 DEF ScanInv, EndInv
<1>12. NotAgain'
  <2> SUFFICES ASSUME NEW s \in DOMAIN scans, NEW id \in DOMAIN scans[s].subs
               PROVE  scans[s].subs[id] \in seen /\ chdb'[scans[s].subs[id]].status # "pending"
    BY <1>1 DEF NotAgain
  <2>1. scans[s].subs[id] \in Mux /\ scans[s].subs[id] \in seen
    BY DEF ScanInv, NotAgain, Types
  <2> QED BY <1>6, <2>1 DEF Idle
<1>13. ending' # NoEnd
  BY <1>1, <1>5, AtRest
<1> QED BY <1>1, <1>5, <1>6, <1>8, <1>10, <1>11, <1>12, <1>13
        DEF ScanInv, Single, TunersListed, ScansKnown, ReportsOnce, ActiveInv,
            WaitInv, NothingSkipped

\* A mux that a tuner scans does not wait.
LEMMA TunedMux ==
  ASSUME ScanInv, NEW id \in DOMAIN tuner
  PROVE  /\ tuner[id] \in TunerRec /\ tuner[id].mux \in Mux /\ id \in Sub
         /\ tuner[id].scan \in DOMAIN scans /\ id \in DOMAIN scans[tuner[id].scan].subs
         /\ tuner[id].mux \in seen /\ chdb[tuner[id].mux].status # "pending"
         /\ tuner[id].mux \notin DOMAIN loop.left
<1>1. tuner[id] \in TunerRec /\ id \in Sub
  BY DEF ScanInv, Types, TunersOK
<1>2. /\ tuner[id].scan \in DOMAIN scans /\ id \in DOMAIN scans[tuner[id].scan].subs
      /\ scans[tuner[id].scan].subs[id] = tuner[id].mux
  BY DEF ScanInv, TunersListed
<1>3. tuner[id].mux \in seen /\ chdb[tuner[id].mux].status # "pending"
  BY <1>2 DEF ScanInv, NotAgain
<1>4. tuner[id].mux \notin DOMAIN loop.left
  BY <1>3 DEF ScanInv, LoopInv, Fresh
<1> QED BY <1>1, <1>2, <1>3, <1>4 DEF TunerRec

\* The status of one mux is cleared, which is never one that waits.
LEMMA ClearedMux ==
  ASSUME ScanInv, NEW m \in Mux, chdb' = [chdb EXCEPT ![m] = Idle], m \notin DOMAIN loop.left,
         UNCHANGED <<seen, scans, loop>>
  PROVE  /\ DbOK' /\ ScansKnown' /\ NotAgain' /\ Fresh'
         /\ \A n \in Mux : chdb'[n] = IF n = m THEN Idle ELSE chdb[n]
<1>1. chdb \in [Mux -> MuxRec] /\ \A n \in Mux : chdb[n].status # "idle" <=> chdb[n].scan # NoScan
  BY DEF ScanInv, Types, DbOK
<1>2. \A n \in Mux : chdb'[n] = IF n = m THEN Idle ELSE chdb[n]
  BY <1>1
<1>3. Idle \in MuxRec /\ Idle.status = "idle" /\ Idle.scan = NoScan
  BY DEF Idle, MuxRec
<1>4. DbOK'
  BY <1>1, <1>2, <1>3 DEF DbOK
<1>5. ScansKnown'
  BY <1>2, <1>3 DEF ScanInv, ScansKnown
<1>6. NotAgain'
  <2> SUFFICES ASSUME NEW s \in DOMAIN scans, NEW id \in DOMAIN scans[s].subs
               PROVE  scans[s].subs[id] \in seen /\ chdb'[scans[s].subs[id]].status # "pending"
    BY DEF NotAgain
  <2>1. scans[s].subs[id] \in seen /\ chdb[scans[s].subs[id]].status # "pending" /\ seen \subseteq Mux
    BY DEF ScanInv, NotAgain, Types
  <2> QED BY <1>2, <1>3, <2>1
<1>7. Fresh'
  <2>1. \A n \in DOMAIN loop.left : n \in Mux
    BY DEF ScanInv, Types, LoopRec, Snapshot
  <2> QED BY <1>2, <2>1 DEF ScanInv, LoopInv, Fresh
<1> QED BY <1>2, <1>4, <1>5, <1>6, <1>7

\* A report is added for a tuner that had none.
LEMMA ReportAdded ==
  ASSUME ScanInv, NEW id \in DOMAIN tuner, ~tuner[id].done, NEW result \in Results,
         reports' = Append(reports, [sub |-> id, scan |-> tuner[id].scan, result |-> result])
  PROVE  /\ reports' \in Seq(Report)
         /\ \A i \in DOMAIN reports : reports[i].sub # id
         /\ DOMAIN reports' = DOMAIN reports \cup {Len(reports) + 1}
         /\ Len(reports) + 1 \notin DOMAIN reports
         /\ \A i \in DOMAIN reports : reports'[i] = reports[i]
         /\ reports'[Len(reports) + 1].sub = id
         /\ reports'[Len(reports) + 1].scan = tuner[id].scan
         /\ \A i, j \in DOMAIN reports' : reports'[i].sub = reports'[j].sub => i = j
<1> DEFINE r == [sub |-> id, scan |-> tuner[id].scan, result |-> result]
<1>1. r \in Report /\ r.sub = id /\ r.scan = tuner[id].scan
  BY TunedMux DEF Report, TunerRec
<1>2. reports \in Seq(Report)
  BY DEF ScanInv, Types
<1>3. \A i \in DOMAIN reports : reports[i].sub # id
  BY DEF ScanInv, ReportsOnce
<1>4. /\ reports' \in Seq(Report) /\ DOMAIN reports' = DOMAIN reports \cup {Len(reports) + 1}
      /\ Len(reports) + 1 \notin DOMAIN reports
      /\ \A i \in DOMAIN reports : reports'[i] = reports[i]
      /\ reports'[Len(reports) + 1] = r
  BY <1>1, <1>2
<1>5. \A i, j \in DOMAIN reports : reports[i].sub = reports[j].sub => i = j
  BY DEF ScanInv, ReportsOnce
<1>6. \A i, j \in DOMAIN reports' : reports'[i].sub = reports'[j].sub => i = j
  BY <1>1, <1>3, <1>4, <1>5
<1> QED BY <1>1, <1>3, <1>4, <1>6

\* A tuner thread ends the scan of its mux and reports it.
LEMMA TunerEndsStep ==
  ASSUME ScanInv, NEW id \in DOMAIN tuner, NEW result \in Results, TunerEnds(id, result)
  PROVE  ScanInv'
<1>1. /\ ~tuner[id].done
      /\ tuner' = [tuner EXCEPT ![id].done = TRUE]
      /\ chdb' = chdb \/ chdb' = [chdb EXCEPT ![tuner[id].mux] = Idle]
      /\ reports' = Append(reports, [sub |-> id, scan |-> tuner[id].scan, result |-> result])
      /\ UNCHANGED <<seen, scans, loop, ending, viewers, viewings, trapped>>
  BY DEF TunerEnds
<1> DEFINE n == Len(reports) + 1
<1>2. /\ reports' \in Seq(Report)
      /\ \A i \in DOMAIN reports : reports[i].sub # id
      /\ DOMAIN reports' = DOMAIN reports \cup {n} /\ n \notin DOMAIN reports
      /\ \A i \in DOMAIN reports : reports'[i] = reports[i]
      /\ reports'[n].sub = id /\ reports'[n].scan = tuner[id].scan
      /\ \A i, j \in DOMAIN reports' : reports'[i].sub = reports'[j].sub => i = j
  BY <1>1, ReportAdded
<1>3. /\ tuner[id] \in TunerRec /\ tuner[id].mux \in Mux /\ id \in Sub
      /\ tuner[id].scan \in DOMAIN scans /\ tuner[id].mux \notin DOMAIN loop.left
  BY TunedMux
<1>4. /\ DOMAIN tuner' = DOMAIN tuner
      /\ \A j \in DOMAIN tuner : j # id => tuner'[j] = tuner[j]
      /\ tuner'[id] \in TunerRec /\ tuner'[id].done /\ tuner'[id].scan = tuner[id].scan
      /\ tuner'[id].mux = tuner[id].mux
  BY <1>1, <1>3 DEF TunerRec
<1>5. /\ DbOK' /\ ScansKnown' /\ NotAgain' /\ Fresh'
      /\ \A m \in Mux : chdb'[m] = chdb[m] \/ chdb'[m] = Idle
  <2>1. CASE chdb' = chdb
    BY <1>1, <2>1 DEF ScanInv, Types, DbOK, ScansKnown, NotAgain, LoopInv, Fresh
  <2>2. CASE chdb' = [chdb EXCEPT ![tuner[id].mux] = Idle]
    BY <1>1, <1>3, <2>2, ClearedMux
  <2> QED BY <1>1, <2>1, <2>2
<1>6. Types'
  BY <1>1, <1>2, <1>4, <1>5 DEF ScanInv, Types, ScansOK, TunersOK
<1>7. TunersListed'
  BY <1>1, <1>4 DEF ScanInv, TunersListed
<1>8. ReportsOnce'
  BY <1>2, <1>4 DEF ScanInv, ReportsOnce
<1>9. Reusable'
  BY <1>1, <1>2, <1>4 DEF ScanInv, LoopInv, Reusable
<1>10. LoopInv'
  BY <1>1, <1>5, <1>9 DEF ScanInv, LoopInv
<1>11. EndInv'
  <2>1. \A m \in Mux : chdb[m].scan = NoScan => chdb'[m].scan = NoScan
    BY <1>5 DEF Idle
  <2> QED BY <1>1, <1>4, <2>1 DEF ScanInv, EndInv
<1>12. \A s : Counted(s)' = Counted(s)
  <2> SUFFICES ASSUME NEW s, NEW j \in DOMAIN tuner
               PROVE  j \in Counted(s)' <=> j \in Counted(s)
    BY <1>4 DEF Counted
  <2>1. j # id => ((\E r \in Range(reports') : r.sub = j) <=> (\E r \in Range(reports) : r.sub = j))
    BY <1>2 DEF Range
  <2>2. \E r \in Range(reports') : r.sub = id
    BY <1>2 DEF Range
  <2> QED BY <1>1, <1>4, <2>1, <2>2 DEF Counted
<1>13. ActiveInv'
  BY <1>1, <1>12 DEF ScanInv, ActiveInv
<1>14. \A m \in Mux : chdb'[m].status = "pending" => chdb'[m] = chdb[m]
  BY <1>5 DEF Idle
<1>15. WaitInv'
  BY <1>1, <1>12, <1>14 DEF ScanInv, WaitInv
<1>16. NothingSkipped'
  BY <1>1 DEF ScanInv, EndInv, NothingSkipped
<1> QED BY <1>1, <1>5, <1>6, <1>7, <1>8, <1>10, <1>11, <1>13, <1>15, <1>16
        DEF ScanInv, Single

\* A tuner thread finds a mux that was not tried, and adds it to its scan.
LEMMA TunerFindsStep ==
  ASSUME ScanInv, NEW id \in DOMAIN tuner, NEW m \in Mux, TunerFinds(id, m)
  PROVE  ScanInv'
<1>1. /\ ~tuner[id].done /\ tuner[id].scan \in PropagateScans
      /\ m \notin seen /\ chdb[m].status = "idle"
      /\ chdb' = [chdb EXCEPT ![m].status = "pending", ![m].scan = tuner[id].scan]
      /\ UNCHANGED <<seen, scans, tuner, reports, loop, ending, viewers, viewings, trapped>>
  BY DEF TunerFinds
<1>2. /\ tuner[id] \in TunerRec /\ tuner[id].scan \in DOMAIN scans /\ tuner[id].scan \in Scan
  BY TunedMux DEF TunerRec
<1>3. /\ chdb' \in [Mux -> MuxRec]
      /\ \A n \in Mux : n # m => chdb'[n] = chdb[n]
      /\ chdb'[m].status = "pending" /\ chdb'[m].scan = tuner[id].scan
  <2>1. chdb \in [Mux -> MuxRec]
    BY DEF ScanInv, Types, DbOK
  <2> QED BY <1>1, <1>2, <2>1 DEF MuxRec
<1>4. tuner[id].scan # NoScan
  BY <1>2, AtRest
<1>5. Types'
  <2>1. DbOK'
    BY <1>3, <1>4 DEF ScanInv, Types, DbOK
  <2> QED BY <1>1, <2>1 DEF ScanInv, Types, ScansOK, TunersOK
<1>6. ScansKnown'
  BY <1>1, <1>2, <1>3 DEF ScanInv, ScansKnown
<1>7. NotAgain'
  <2>1. seen \subseteq Mux
    BY DEF ScanInv, Types
  <2> QED BY <1>1, <1>3, <2>1 DEF ScanInv, NotAgain
<1>8. m \notin DOMAIN loop.left /\ DOMAIN loop.left \subseteq Mux
  BY <1>1 DEF ScanInv, LoopInv, Fresh, Types, LoopRec, Snapshot
<1>9. LoopInv'
  BY <1>1, <1>3, <1>8 DEF ScanInv, LoopInv, Fresh, Reusable
<1>10. ending = NoEnd \/ (ending.scan # NoScan /\ ending.scan = tuner[id].scan)
  BY <1>2 DEF ScanInv, EndInv, Single
<1>11. ending = NoEnd
  BY <1>1, <1>10 DEF ScanInv, EndInv
<1>12. EndInv'
  BY <1>1, <1>11, AtRest DEF ScanInv, EndInv
<1>13. \A s : Counted(s)' = Counted(s)
  BY <1>1 DEF Counted
<1>14. ActiveInv'
  BY <1>1, <1>13 DEF ScanInv, ActiveInv
<1>15. id \in Counted(tuner[id].scan)
  BY <1>1 DEF Counted
<1>16. WaitInv'
  <2>1. \A s \in DOMAIN scans : Counted(s) # {}
    BY <1>2, <1>15 DEF ScanInv, Single
  <2> QED BY <1>1, <1>13, <2>1 DEF WaitInv
<1>17. NothingSkipped'
  BY <1>1, <1>11, AtRest DEF NothingSkipped
<1> QED BY <1>1, <1>5, <1>6, <1>7, <1>9, <1>12, <1>14, <1>16, <1>17
        DEF ScanInv, Single, TunersListed, ReportsOnce

\* A tuner is stopped, with its last report if it was scanning.
LEMMA StopTunerStep ==
  ASSUME ScanInv, NEW id \in ending.left, StopTuner(id)
  PROVE  ScanInv'
<1>1. /\ \/ tuner[id].done /\ UNCHANGED <<chdb, reports>>
         \/ /\ ~tuner[id].done
            /\ chdb' = [chdb EXCEPT ![tuner[id].mux] = Idle]
            /\ reports' = Append(reports, [sub |-> id, scan |-> tuner[id].scan, result |-> "final"])
      /\ tuner' = Restrict(tuner, DOMAIN tuner \ {id})
      /\ ending' = [ending EXCEPT !.left = @ \ {id}]
      /\ UNCHANGED <<seen, scans, loop, viewers, viewings, trapped>>
  BY DEF StopTuner
<1>2. id \in DOMAIN tuner /\ ending.cleaned /\ ending \in EndRec
  BY DEF ScanInv, EndInv, Types
<1>3. ending.scan # NoScan /\ ending # NoEnd
  BY <1>2, AtRest DEF ScanInv, EndInv
<1>4. loop = NoLoop
  BY <1>3 DEF ScanInv, LoopInv
<1>5. /\ DOMAIN tuner' = DOMAIN tuner \ {id}
      /\ \A j \in DOMAIN tuner' : tuner'[j] = tuner[j]
  BY <1>1, RestrictOne
<1>6. /\ ending' \in EndRec /\ ending'.scan = ending.scan /\ ending'.left = ending.left \ {id}
      /\ ending'.then = ending.then /\ ending'.cleaned /\ ending'.done = ending.done
  BY <1>1, <1>2 DEF EndRec
<1>7. /\ DbOK' /\ ScansKnown' /\ NotAgain'
      /\ \A m \in Mux : chdb'[m] = chdb[m] \/ chdb'[m] = Idle
  <2>1. CASE chdb' = chdb
    BY <1>1, <2>1 DEF ScanInv, Types, DbOK, ScansKnown, NotAgain
  <2>2. CASE chdb' = [chdb EXCEPT ![tuner[id].mux] = Idle]
    BY <1>1, <1>2, <2>2, TunedMux, ClearedMux
  <2> QED BY <1>1, <2>1, <2>2
<1>8. reports' \in Seq(Report) /\ ReportsOnce'
  <2>1. CASE reports' = reports
    BY <1>5, <2>1 DEF ScanInv, Types, ReportsOnce
  <2>2. CASE /\ ~tuner[id].done
             /\ reports' = Append(reports, [sub |-> id, scan |-> tuner[id].scan, result |-> "final"])
    <3> DEFINE n == Len(reports) + 1
    <3>1. "final" \in Results
      BY DEF Results
    <3>2. /\ reports' \in Seq(Report)
          /\ \A i \in DOMAIN reports : reports[i].sub # id
          /\ DOMAIN reports' = DOMAIN reports \cup {n} /\ n \notin DOMAIN reports
          /\ \A i \in DOMAIN reports : reports'[i] = reports[i]
          /\ reports'[n].sub = id /\ reports'[n].scan = tuner[id].scan
          /\ \A i, j \in DOMAIN reports' : reports'[i].sub = reports'[j].sub => i = j
      BY <1>2, <2>2, <3>1, ReportAdded
    <3> QED BY <1>5, <3>2 DEF ScanInv, ReportsOnce
  <2> QED BY <1>1, <2>1, <2>2
<1>9. Types'
  BY <1>1, <1>5, <1>6, <1>7, <1>8 DEF ScanInv, Types, ScansOK, TunersOK
<1>10. TunersListed'
  BY <1>1, <1>5 DEF ScanInv, TunersListed
<1>11. LoopInv'
  BY <1>1, <1>4, AtRest DEF LoopInv, Fresh, Reusable
<1>12. EndInv'
  <2>1. \A m \in Mux : chdb[m].scan = NoScan => chdb'[m].scan = NoScan
    BY <1>7 DEF Idle
  <2> QED BY <1>1, <1>3, <1>5, <1>6, <2>1 DEF ScanInv, EndInv
<1>13. ending' # NoEnd
  BY <1>3, <1>6, AtRest
<1> QED BY <1>1, <1>6, <1>7, <1>8, <1>9, <1>10, <1>11, <1>12, <1>13
        DEF ScanInv, Single, ActiveInv, WaitInv, NothingSkipped

\* The scan is erased; it was the only one.
LEMMA EraseStep ==
  ASSUME ScanInv, Erase
  PROVE  ScanInv'
<1>1. /\ ending.cleaned /\ ending.left = {}
      /\ scans' = Restrict(scans, DOMAIN scans \ {ending.scan})
      /\ seen' = {} \/ seen' = seen
      /\ UNCHANGED <<chdb, tuner, reports, loop, viewers, viewings, trapped>>
  BY DEF Erase
<1>2. ending.scan # NoScan
  BY <1>1, AtRest DEF ScanInv, EndInv
<1>3. ending' = NoEnd
  BY <1>2 DEF Erase, ScanInv, EndInv
<1>4. DOMAIN scans = {ending.scan} /\ DOMAIN tuner = {} /\ \A m \in Mux : chdb[m].scan = NoScan
  BY <1>1, <1>2 DEF ScanInv, EndInv, Single
<1>5. DOMAIN scans' = {}
  BY <1>1, <1>4 DEF Restrict
<1>6. loop = NoLoop
  BY <1>2, AtRest DEF ScanInv, LoopInv
<1>7. Types'
  BY <1>1, <1>3, <1>5, AtRest DEF ScanInv, Types, DbOK, ScansOK, TunersOK
<1>8. LoopInv'
  BY <1>1, <1>6, AtRest DEF LoopInv, Fresh, Reusable
<1>9. EndInv'
  BY <1>1, <1>3, <1>4, AtRest DEF EndInv
<1> QED BY <1>1, <1>3, <1>4, <1>5, <1>7, <1>8, <1>9, AtRest
        DEF ScanInv, Single, TunersListed, ScansKnown, NotAgain, ReportsOnce, ActiveInv,
            WaitInv, NothingSkipped

-----------------------------------------------------------------------------
(* The loop over the muxes.                                                *)

\* A loop that starts with the present database will look at every mux that waits.
LEMMA LoopStarted ==
  ASSUME NEW s \in Scan, NEW all, NEW reuse \in {-1, 0} \cup Sub, NEW timer \in BOOLEAN,
         DOMAIN all = {s}, all[s] \in ScanRec, DbOK',
         \A m \in Mux : chdb'[m].scan \in {s, NoScan},
         StartLoop(chdb', s, all, reuse, {}, timer)
  PROVE  /\ DOMAIN scans' = {s} /\ scans'[s] \in ScanRec
         /\ scans'[s].subs = all[s].subs /\ scans'[s].active = all[s].active
         /\ loop' \in LoopRec /\ loop'.scan = s /\ loop'.then = {} /\ loop'.reuse = reuse
         /\ loop'.scan # NoScan /\ Fresh' /\ ScansKnown' /\ Single' /\ WaitInv'
<1>1. /\ scans' = [all EXCEPT ![s].pending = 0]
      /\ loop' = [scan |-> s, left |-> to_scan(chdb', all[s], reuse), skip |-> {},
                  reuse |-> reuse, then |-> {}, timer |-> timer]
  BY DEF StartLoop
<1>2. /\ DOMAIN scans' = {s} /\ scans'[s] = [all[s] EXCEPT !.pending = 0]
  BY <1>1
<1>3. /\ scans'[s] \in ScanRec /\ scans'[s].subs = all[s].subs /\ scans'[s].active = all[s].active
  BY <1>2 DEF ScanRec
<1> DEFINE W == {m \in Mux : /\ chdb'[m].scan # NoScan
                             /\ \/ chdb'[m].status = "pending"
                                \/ chdb'[m].status = "retry" /\ may_retry(all[s], reuse)}
<1>4. /\ loop'.scan = s /\ loop'.then = {} /\ loop'.reuse = reuse
      /\ loop'.left = Restrict(chdb', W)
  BY <1>1 DEF to_scan
<1>5. chdb' \in [Mux -> MuxRec] /\ \A m \in Mux : chdb'[m].status # "idle" <=> chdb'[m].scan # NoScan
  BY DEF DbOK
<1>6. W = {m \in Mux : chdb'[m].status = "pending"}
  BY <1>5 DEF MuxRec
<1>7. DOMAIN loop'.left = W /\ \A m \in W : loop'.left[m] = chdb'[m]
  BY <1>4, RestrictOne
<1>8. loop'.left \in [W -> MuxRec]
  BY <1>4, <1>5 DEF Restrict
<1>9. loop'.left \in Snapshot
  BY <1>8 DEF Snapshot
<1>10. loop' \in LoopRec
  BY <1>1, <1>4, <1>9 DEF LoopRec
<1>11. Fresh'
  <2>1. \A m \in W : chdb'[m].scan = s /\ chdb'[m].status = "pending"
    BY <1>5, <1>6
  <2> HIDE DEF W
  <2> QED BY <1>4, <1>7, <2>1 DEF Fresh
<1>12. WaitInv'
  <2> HIDE DEF W
  <2> QED BY <1>6, <1>7 DEF WaitInv
<1> QED BY <1>2, <1>3, <1>4, <1>10, <1>11, <1>12, AtRest DEF ScansKnown, Single

\* The only scan goes first, and no other follows.
LEMMA HousekeepingStarts ==
  ASSUME NEW s, NEW all, NEW db, DOMAIN all = {s}, StartHousekeeping(db, all)
  PROVE  StartLoop(db, s, all, 0, {}, TRUE)
<1>1. PICK t \in DOMAIN all : StartLoop(db, t, all, 0, DOMAIN all \ {t}, TRUE)
  BY DEF StartHousekeeping
<1>2. t = s /\ DOMAIN all \ {t} = {}
  BY <1>1
<1> QED BY <1>1, <1>2

\* The timer.
LEMMA HousekeepingStep ==
  ASSUME ScanInv, Housekeeping
  PROVE  ScanInv'
<1>1. /\ loop = NoLoop /\ ending = NoEnd /\ DOMAIN scans # {} /\ StartHousekeeping(chdb, scans)
      /\ UNCHANGED <<chdb, seen, tuner, reports, ending, viewers, viewings, trapped>>
  BY DEF Housekeeping, ReceiverIdle
<1>2. PICK s \in DOMAIN scans : DOMAIN scans = {s}
  BY <1>1 DEF ScanInv, Single
<1>3. s \in Scan /\ scans[s] \in ScanRec
  BY DEF ScanInv, Types, ScansOK
<1>4. StartLoop(chdb', s, scans, 0, {}, TRUE)
  BY <1>1, <1>2, HousekeepingStarts
<1>5. DbOK' /\ \A m \in Mux : chdb'[m].scan \in {s, NoScan}
  BY <1>1, <1>2 DEF ScanInv, Types, DbOK, ScansKnown
<1>6. /\ DOMAIN scans' = {s} /\ scans'[s] \in ScanRec
      /\ scans'[s].subs = scans[s].subs /\ scans'[s].active = scans[s].active
      /\ loop' \in LoopRec /\ loop'.scan = s /\ loop'.then = {} /\ loop'.reuse = 0
      /\ loop'.scan # NoScan /\ Fresh' /\ ScansKnown' /\ Single' /\ WaitInv'
  BY <1>2, <1>3, <1>4, <1>5, LoopStarted
<1>7. Types'
  BY <1>1, <1>3, <1>5, <1>6 DEF ScanInv, Types, ScansOK, TunersOK
<1>8. TunersListed' /\ NotAgain'
  BY <1>1, <1>2, <1>6 DEF ScanInv, TunersListed, NotAgain
<1>9. LoopInv'
  BY <1>1, <1>6 DEF LoopInv, Reusable
<1>10. EndInv'
  BY <1>1, AtRest DEF ScanInv, EndInv
<1>11. \A t : Counted(t)' = Counted(t)
  BY <1>1 DEF Counted
<1>12. ActiveInv'
  BY <1>1, <1>2, <1>6, <1>11 DEF ScanInv, ActiveInv
<1> QED BY <1>1, <1>6, <1>7, <1>8, <1>9, <1>10, <1>12, AtRest
        DEF ScanInv, ReportsOnce, NothingSkipped

\* The user starts a scan.
LEMMA ScanMuxesStep ==
  ASSUME ScanInv, OneAtATime, NEW s \in Scan, NEW M \in SUBSET Mux, ScanMuxes(s, M)
  PROVE  ScanInv'
<1> DEFINE all == insert_or_assign(scans, s, NewScan)
<1>1. /\ loop = NoLoop /\ ending = NoEnd /\ scans = <<>> /\ chdb' = add_muxes(s, M)
      /\ UNCHANGED <<seen, tuner, reports, ending, viewers, viewings, trapped>>
      /\ \/ StartHousekeeping(add_muxes(s, M), all)
         \/ (\A m \in M : ~can_subscribe(m)) /\ scans' = all /\ loop' = loop
  BY DEF ScanMuxes, ReceiverIdle, OneAtATime
<1>2. DOMAIN scans = {}
  BY <1>1
<1>3. DOMAIN all = {s} /\ all[s] = NewScan
  BY <1>2 DEF insert_or_assign
<1>4. NewScan \in ScanRec /\ NewScan.active = 0 /\ DOMAIN NewScan.subs = {}
  <2>1. <<>> \in [{} -> Mux]
    OBVIOUS
  <2>2. <<>> \in SubMap
    BY <2>1 DEF SubMap
  <2> QED BY <2>2 DEF NewScan, ScanRec, Inf
<1>5. DOMAIN tuner = {} /\ \A m \in Mux : chdb[m].scan = NoScan
  BY <1>2 DEF ScanInv, TunersListed, ScansKnown
<1>6. DbOK' /\ \A m \in Mux : chdb'[m].scan \in {s, NoScan}
  <2>1. /\ chdb \in [Mux -> MuxRec]
        /\ \A m \in Mux : chdb[m].status # "idle" <=> chdb[m].scan # NoScan
    BY DEF ScanInv, Types, DbOK
  <2>2. chdb' = [m \in Mux |-> IF m \in M /\ can_subscribe(m)
                               THEN [chdb[m] EXCEPT !.status = "pending", !.scan = s]
                               ELSE chdb[m]]
    BY <1>1, <1>5 DEF add_muxes
  <2>3. \A m \in Mux : /\ chdb'[m] \in MuxRec /\ chdb'[m].scan \in {s, NoScan}
                       /\ chdb'[m].status # "idle" <=> chdb'[m].scan # NoScan
    BY <1>5, <2>1, <2>2, AtRest DEF MuxRec
  <2> QED BY <2>2, <2>3 DEF DbOK
<1>7. ASSUME StartHousekeeping(add_muxes(s, M), all)
      PROVE  /\ DOMAIN scans' = {s} /\ scans'[s] \in ScanRec
             /\ scans'[s].subs = NewScan.subs /\ scans'[s].active = 0
             /\ loop' \in LoopRec /\ ScansKnown' /\ Single' /\ WaitInv' /\ LoopInv'
  <2>1. StartLoop(chdb', s, all, 0, {}, TRUE)
    <3> HIDE DEF all
    <3> QED BY <1>1, <1>3, <1>7, HousekeepingStarts
  <2>2. /\ DOMAIN scans' = {s} /\ scans'[s] \in ScanRec
        /\ scans'[s].subs = NewScan.subs /\ scans'[s].active = 0
        /\ loop' \in LoopRec /\ loop'.scan = s /\ loop'.then = {} /\ loop'.reuse = 0
        /\ loop'.scan # NoScan /\ Fresh' /\ ScansKnown' /\ Single' /\ WaitInv'
    <3> HIDE DEF all
    <3> QED BY <1>3, <1>4, <1>6, <2>1, LoopStarted
  <2>3. LoopInv'
    BY <1>1, <2>2 DEF LoopInv, Reusable
  <2> QED BY <2>2, <2>3
<1>8. ASSUME \A m \in M : ~can_subscribe(m), scans' = all, loop' = loop
      PROVE  /\ DOMAIN scans' = {s} /\ scans'[s] \in ScanRec
             /\ scans'[s].subs = NewScan.subs /\ scans'[s].active = 0
             /\ loop' \in LoopRec /\ ScansKnown' /\ Single' /\ WaitInv' /\ LoopInv'
  <2>1. \A m \in Mux : chdb'[m].scan = NoScan
    BY <1>1, <1>5, <1>8 DEF add_muxes
  <2>2. DOMAIN scans' = {s} /\ scans'[s] = NewScan
    BY <1>3, <1>8
  <2>3. loop' = NoLoop
    BY <1>1, <1>8
  <2>4. LoopInv'
    BY <2>3, AtRest DEF LoopInv, Fresh, Reusable
  <2> QED BY <1>4, <2>1, <2>2, <2>3, <2>4, AtRest DEF ScansKnown, Single, WaitInv
<1>9. /\ DOMAIN scans' = {s} /\ scans'[s] \in ScanRec
      /\ scans'[s].subs = NewScan.subs /\ scans'[s].active = 0
      /\ loop' \in LoopRec /\ ScansKnown' /\ Single' /\ WaitInv' /\ LoopInv'
  BY <1>1, <1>7, <1>8
<1>10. Types'
  BY <1>1, <1>6, <1>9 DEF ScanInv, Types, ScansOK, TunersOK
<1>11. TunersListed' /\ NotAgain'
  BY <1>1, <1>4, <1>5, <1>9 DEF TunersListed, NotAgain
<1>12. EndInv'
  BY <1>1, <1>5, AtRest DEF EndInv
<1>13. ActiveInv'
  <2>1. \A t : Counted(t)' = {}
    BY <1>1, <1>5 DEF Counted
  <2>2. Cardinality({}) = 0
    BY FS_EmptySet
  <2> QED BY <1>9, <2>1, <2>2 DEF ActiveInv
<1> QED BY <1>1, <1>9, <1>10, <1>11, <1>12, <1>13, AtRest
        DEF ScanInv, ReportsOnce, NothingSkipped

\* What is left when the receiver thread takes a report.
LEMMA ReportTaken ==
  ASSUME ScanInv, reports # <<>>, reports' = Tail(reports), NEW r, r = Head(reports)
  PROVE  /\ r \in Report /\ reports' \in Seq(Report)
         /\ \A i, j \in DOMAIN reports' : reports'[i].sub = reports'[j].sub => i = j
         /\ \A i \in DOMAIN reports' : \E j \in DOMAIN reports : reports'[i] = reports[j]
         /\ \A i \in DOMAIN reports' : reports'[i].sub # r.sub
         /\ \E i \in DOMAIN reports : reports[i] = r
         /\ \A i \in DOMAIN reports : reports[i] = r \/ reports[i] \in Range(reports')
<1>1. reports \in Seq(Report) /\ Len(reports) \in Nat /\ Len(reports) > 0
  BY DEF ScanInv, Types
<1>2. /\ reports' \in Seq(Report) /\ DOMAIN reports = 1 .. Len(reports)
      /\ DOMAIN reports' = 1 .. (Len(reports) - 1) /\ r = reports[1] /\ r \in Report
      /\ \A i \in 1 .. (Len(reports) - 1) : reports'[i] = reports[i + 1]
  BY <1>1
<1>3. \A i \in DOMAIN reports' : /\ i + 1 \in DOMAIN reports /\ i + 1 # 1
                                 /\ reports'[i] = reports[i + 1]
  BY <1>1, <1>2
<1>4. 1 \in DOMAIN reports
  BY <1>1, <1>2
<1>5. \A i, j \in DOMAIN reports : reports[i].sub = reports[j].sub => i = j
  BY DEF ScanInv, ReportsOnce
<1>6. \A i \in DOMAIN reports : i # 1 => i - 1 \in DOMAIN reports' /\ reports'[i - 1] = reports[i]
  BY <1>1, <1>2
<1>7. \A i, j \in DOMAIN reports' : reports'[i].sub = reports'[j].sub => i = j
  <2> SUFFICES ASSUME NEW i \in DOMAIN reports', NEW j \in DOMAIN reports',
                      reports'[i].sub = reports'[j].sub
               PROVE  i = j
    OBVIOUS
  <2>1. i + 1 = j + 1
    BY <1>3, <1>5
  <2> QED BY <1>2, <2>1
<1>8. \A i \in DOMAIN reports' : reports'[i].sub # r.sub
  BY <1>2, <1>3, <1>4, <1>5
<1>9. \A i \in DOMAIN reports : reports[i] = r \/ reports[i] \in Range(reports')
  BY <1>2, <1>6 DEF Range
<1> QED BY <1>2, <1>3, <1>4, <1>7, <1>8, <1>9

\* The scan of which a mux was scanned.
LEMMA MuxEnded ==
  ASSUME NEW sc \in ScanRec, NEW result, sc.active - 1 \in Nat,
         Cardinality(DOMAIN sc.subs) \in Int
  PROVE  /\ mux_ended(sc, result) \in ScanRec
         /\ mux_ended(sc, result).active = sc.active - 1
         /\ mux_ended(sc, result).subs = sc.subs
<1> DEFINE retry == IF result = "tempfail" /\ sc.maxRetry = Inf
                    THEN IF DOMAIN sc.subs = {} THEN 0 ELSE Cardinality(DOMAIN sc.subs) - 1
                    ELSE sc.maxRetry
<1>1. retry \in Int
  BY DEF ScanRec
<1>2. mux_ended(sc, result) = [sc EXCEPT !.active = sc.active - 1, !.maxRetry = retry]
  BY DEF mux_ended
<1> HIDE DEF retry
<1> QED BY <1>1, <1>2 DEF ScanRec

\* The receiver thread handles a report, and the subscription can be reused.
LEMMA OnScanMuxEndStep ==
  ASSUME ScanInv, OnScanMuxEnd
  PROVE  ScanInv'
<1> PICK r : r = Head(reports)
  OBVIOUS
<1>1. /\ loop = NoLoop /\ ending = NoEnd /\ reports # <<>> /\ reports' = Tail(reports)
      /\ UNCHANGED <<chdb, seen, tuner, ending, viewers, viewings>>
  BY DEF OnScanMuxEnd, ReceiverIdle
<1>2. /\ r \in Report /\ reports' \in Seq(Report)
      /\ \A i, j \in DOMAIN reports' : reports'[i].sub = reports'[j].sub => i = j
      /\ \A i \in DOMAIN reports' : \E j \in DOMAIN reports : reports'[i] = reports[j]
      /\ \A i \in DOMAIN reports' : reports'[i].sub # r.sub
      /\ \E i \in DOMAIN reports : reports[i] = r
      /\ \A i \in DOMAIN reports : reports[i] = r \/ reports[i] \in Range(reports')
  BY <1>1, ReportTaken
<1>3. r.sub \in Sub /\ r.scan \in Scan
  BY <1>2 DEF Report
<1>4. r.sub \in DOMAIN tuner =>
        /\ tuner[r.sub].done /\ tuner[r.sub].scan = r.scan /\ r.scan \in DOMAIN scans
        /\ r.sub \in DOMAIN scans[r.scan].subs
  BY <1>2 DEF ScanInv, ReportsOnce, TunersListed
<1>5. ReportsOnce'
  BY <1>1, <1>2 DEF ScanInv, ReportsOnce
<1>6. EndInv'
  <2>1. CASE r.sub \in DOMAIN tuner
    BY <1>1, AtRest, <2>1 DEF ScanInv, EndInv
  <2>2. CASE r.sub \notin DOMAIN tuner
    BY <1>1, AtRest, <2>2 DEF ScanInv, EndInv
  <2> QED BY <2>1, <2>2
<1>7. \A j \in DOMAIN tuner : j # r.sub =>
        ((\E q \in Range(reports') : q.sub = j) <=> (\E q \in Range(reports) : q.sub = j))
  BY <1>2 DEF Range
<1>8. CASE r.sub \notin DOMAIN tuner
  <2>1. UNCHANGED <<scans, loop, trapped>>
    BY <1>8 DEF OnScanMuxEnd
  <2>2. Types'
    BY <1>1, <1>2, <2>1 DEF ScanInv, Types, DbOK, ScansOK, TunersOK
  <2>3. \A s : Counted(s)' = Counted(s)
    BY <1>1, <1>7, <1>8 DEF Counted
  <2>4. LoopInv'
    BY <1>1, <2>1, AtRest DEF LoopInv, Fresh, Reusable
  <2>5. ActiveInv' /\ WaitInv'
    BY <1>1, <2>1, <2>3 DEF ScanInv, ActiveInv, WaitInv
  <2> QED BY <1>1, <1>5, <1>6, <2>1, <2>2, <2>4, <2>5
          DEF ScanInv, Single, TunersListed, ScansKnown, NotAgain, NothingSkipped
<1>9. CASE r.sub \in DOMAIN tuner
  <2> DEFINE all == [scans EXCEPT ![r.scan] = mux_ended(@, r.result)]
  <2>1. r.scan \in DOMAIN scans /\ r.sub \in DOMAIN scans[r.scan].subs
    BY <1>4, <1>9
  <2>2. StartLoop(chdb, r.scan, all, r.sub, {}, FALSE) /\ trapped' = trapped
    BY <1>9, <2>1 DEF OnScanMuxEnd
  <2>3. DOMAIN scans = {r.scan}
    BY <2>1 DEF ScanInv, Single
  <2>4. scans[r.scan] \in ScanRec
    BY <2>1 DEF ScanInv, Types, ScansOK
  <2>5. /\ r.sub \in Counted(r.scan) /\ IsFiniteSet(Counted(r.scan))
        /\ scans[r.scan].active = Cardinality(Counted(r.scan))
        /\ Counted(r.scan)' = Counted(r.scan) \ {r.sub}
    <3>1. r.sub \in Counted(r.scan)
      BY <1>2, <1>4, <1>9 DEF Counted, Range
    <3>2. IsFiniteSet(Counted(r.scan))
      BY CountedFinite DEF ScanInv, Types
    <3>3. scans[r.scan].active = Cardinality(Counted(r.scan))
      BY <1>1, <2>1 DEF ScanInv, ActiveInv
    <3>4. r.sub \notin Counted(r.scan)'
      BY <1>1, <1>2, <1>4, <1>9 DEF Counted, Range
    <3>5. \A j \in DOMAIN tuner : j # r.sub => (j \in Counted(r.scan)' <=> j \in Counted(r.scan))
      BY <1>1, <1>7 DEF Counted
    <3>6. Counted(r.scan)' \subseteq DOMAIN tuner /\ Counted(r.scan) \subseteq DOMAIN tuner
      BY <1>1 DEF Counted
    <3> QED BY <3>1, <3>2, <3>3, <3>4, <3>5, <3>6
  <2>6. /\ Cardinality(Counted(r.scan)') = scans[r.scan].active - 1
        /\ scans[r.scan].active - 1 \in Nat
    <3>1. IsFiniteSet(Counted(r.scan)') /\ Cardinality(Counted(r.scan)') = Cardinality(Counted(r.scan)) - 1
      BY <2>5, FS_RemoveElement
    <3>2. Cardinality(Counted(r.scan)') \in Nat
      BY <3>1, FS_CardinalityType
    <3> QED BY <2>5, <3>1, <3>2
  <2>7. /\ all[r.scan] \in ScanRec /\ all[r.scan].active = scans[r.scan].active - 1
        /\ all[r.scan].subs = scans[r.scan].subs /\ DOMAIN all = {r.scan}
    <3>1. all[r.scan] = mux_ended(scans[r.scan], r.result) /\ DOMAIN all = {r.scan}
      BY <2>1, <2>3
    <3>2. Cardinality(DOMAIN scans[r.scan].subs) \in Int
      <4>1. DOMAIN scans[r.scan].subs \subseteq Sub
        BY <2>4 DEF ScanRec, SubMap
      <4>2. IsFiniteSet(Sub)
        BY FS_Interval, ScanAssumption DEF Sub
      <4>3. IsFiniteSet(DOMAIN scans[r.scan].subs)
        BY <4>1, <4>2, FS_Subset
      <4> QED BY <4>3, FS_CardinalityType
    <3>3. /\ mux_ended(scans[r.scan], r.result) \in ScanRec
          /\ mux_ended(scans[r.scan], r.result).active = scans[r.scan].active - 1
          /\ mux_ended(scans[r.scan], r.result).subs = scans[r.scan].subs
      BY <2>4, <2>6, <3>2, MuxEnded
    <3> QED BY <3>1, <3>3
  <2>8. DbOK' /\ \A m \in Mux : chdb'[m].scan \in {r.scan, NoScan}
    BY <1>1, <2>3 DEF ScanInv, Types, DbOK, ScansKnown
  <2>9. /\ DOMAIN scans' = {r.scan} /\ scans'[r.scan] \in ScanRec
        /\ scans'[r.scan].subs = scans[r.scan].subs
        /\ scans'[r.scan].active = scans[r.scan].active - 1
        /\ loop' \in LoopRec /\ loop'.scan = r.scan /\ loop'.then = {} /\ loop'.reuse = r.sub
        /\ loop'.scan # NoScan /\ Fresh' /\ ScansKnown' /\ Single' /\ WaitInv'
    <3> HIDE DEF all
    <3>1. PICK s, id, a : s = r.scan /\ id = r.sub /\ a = all
      OBVIOUS
    <3>2. s \in Scan /\ id \in {-1, 0} \cup Sub /\ FALSE \in BOOLEAN
      BY <1>3, <3>1
    <3>3. DbOK'
      BY <2>8
    <3>4. StartLoop(chdb', s, a, id, {}, FALSE)
      BY <1>1, <2>2, <3>1
    <3>5. DOMAIN a = {s} /\ a[s] \in ScanRec
      BY <2>7, <3>1
    <3>6. \A m \in Mux : chdb'[m].scan \in {s, NoScan}
      BY <2>8, <3>1
    <3>7. /\ DOMAIN scans' = {s} /\ scans'[s] \in ScanRec
          /\ scans'[s].subs = a[s].subs /\ scans'[s].active = a[s].active
          /\ loop' \in LoopRec /\ loop'.scan = s /\ loop'.then = {} /\ loop'.reuse = id
          /\ loop'.scan # NoScan /\ Fresh' /\ ScansKnown' /\ Single' /\ WaitInv'
      BY <3>2, <3>3, <3>4, <3>5, <3>6, LoopStarted
    <3> QED BY <2>7, <3>1, <3>7
  <2>10. Types'
    BY <1>1, <1>2, <1>3, <2>2, <2>8, <2>9 DEF ScanInv, Types, ScansOK, TunersOK
  <2>11. TunersListed' /\ NotAgain'
    <3>1. /\ DOMAIN scans' = {r.scan} /\ scans'[r.scan].subs = scans[r.scan].subs
          /\ UNCHANGED <<chdb, seen, tuner>>
      BY <1>1, <2>9
    <3>2. TunersListed /\ NotAgain
      BY DEF ScanInv
    <3>3. TunersListed'
      BY <3>1, <3>2, <2>3 DEF TunersListed
    <3>4. NotAgain'
      BY <3>1, <3>2, <2>3 DEF NotAgain
    <3> QED BY <3>3, <3>4
  <2>12. LoopInv'
    BY <1>1, <1>2, <1>4, <1>9, <2>9 DEF LoopInv, Reusable
  <2>13. ActiveInv'
    BY <2>6, <2>9 DEF ActiveInv
  <2> QED BY <1>1, <1>5, <1>6, <2>9, <2>10, <2>11, <2>12, <2>13, AtRest
          DEF ScanInv, NothingSkipped
<1> QED BY <1>8, <1>9

\* The loop is about the only scan, and about muxes that nobody scans yet.
LEMMA NextMux ==
  ASSUME ScanInv, NEW m \in DOMAIN loop.left
  PROVE  /\ loop \in LoopRec /\ loop.scan # NoScan /\ loop.scan \in Scan
         /\ DOMAIN scans = {loop.scan} /\ scans[loop.scan] \in ScanRec
         /\ loop.then = {} /\ ending = NoEnd /\ m \in Mux
         /\ chdb[m] = loop.left[m] /\ chdb[m].status = "pending" /\ chdb[m].scan = loop.scan
         /\ \A id \in DOMAIN scans[loop.scan].subs : scans[loop.scan].subs[id] # m
<1>1. loop \in LoopRec /\ loop.scan # NoScan
  BY AtRest DEF ScanInv, Types, LoopInv
<1>2. loop.scan \in DOMAIN scans /\ loop.then = {} /\ ending = NoEnd
  BY <1>1 DEF ScanInv, LoopInv
<1>3. DOMAIN scans = {loop.scan}
  BY <1>2 DEF ScanInv, Single
<1>4. loop.scan \in Scan /\ scans[loop.scan] \in ScanRec
  BY <1>2 DEF ScanInv, Types, ScansOK
<1>5. m \in Mux
  BY <1>1 DEF LoopRec, Snapshot
<1>6. chdb[m] = loop.left[m] /\ chdb[m].status = "pending" /\ chdb[m].scan = loop.scan
  BY DEF ScanInv, LoopInv, Fresh
<1>7. \A id \in DOMAIN scans[loop.scan].subs : scans[loop.scan].subs[id] # m
  BY <1>2, <1>6 DEF ScanInv, NotAgain
<1> QED BY <1>1, <1>2, <1>3, <1>4, <1>5, <1>6, <1>7

\* A mux that was looked at is not looked at again in this loop.
LEMMA MuxVisited ==
  ASSUME ScanInv, NEW m \in DOMAIN loop.left, NEW sc, NEW skip, NEW reuse, sc \in ScanRec,
         skip \subseteq {BandOf[n] : n \in Mux}, reuse \in {-1, 0} \cup Sub,
         Visited(m, sc, skip, reuse)
  PROVE  /\ DOMAIN scans' = {loop.scan} /\ scans'[loop.scan] = sc /\ ScansOK' /\ Single'
         /\ loop' \in LoopRec /\ loop'.scan = loop.scan /\ loop'.then = {}
         /\ loop'.reuse = reuse /\ DOMAIN loop'.left = DOMAIN loop.left \ {m}
         /\ \A n \in DOMAIN loop'.left : loop'.left[n] = loop.left[n]
<1>1. /\ loop \in LoopRec /\ loop.scan \in Scan /\ DOMAIN scans = {loop.scan} /\ loop.then = {}
  BY NextMux
<1>2. /\ scans' = [scans EXCEPT ![loop.scan] = sc]
      /\ loop' = [loop EXCEPT !.left = Restrict(loop.left, DOMAIN loop.left \ {m}),
                              !.skip = skip, !.reuse = reuse]
  BY DEF Visited
<1>3. DOMAIN scans' = {loop.scan} /\ scans'[loop.scan] = sc
  BY <1>1, <1>2
<1>4. PICK left : left = Restrict(loop.left, DOMAIN loop.left \ {m})
  OBVIOUS
<1>5. DOMAIN left = DOMAIN loop.left \ {m} /\ \A n \in DOMAIN left : left[n] = loop.left[n]
  BY <1>4, RestrictOne
<1>6. left \in Snapshot
  <2>1. PICK D \in SUBSET Mux : loop.left \in [D -> MuxRec]
    BY <1>1 DEF LoopRec, Snapshot
  <2>2. left \in [D \ {m} -> MuxRec]
    BY <1>4, <2>1 DEF Restrict
  <2> QED BY <2>2 DEF Snapshot
<1>7. loop' = [loop EXCEPT !.left = left, !.skip = skip, !.reuse = reuse]
  BY <1>2, <1>4
<1>8. /\ loop' \in LoopRec /\ loop'.scan = loop.scan /\ loop'.then = {} /\ loop'.reuse = reuse
      /\ loop'.left = left
  BY <1>1, <1>6, <1>7 DEF LoopRec
<1> QED BY <1>1, <1>3, <1>5, <1>8 DEF ScansOK, Single

\* A mux that must wait is counted as pending, unless it is taken for one that is
\* being scanned.
LEMMA PassOverStep ==
  ASSUME ScanInv, NEW m \in DOMAIN loop.left, PassOver(m)
  PROVE  ScanInv'
<1>1. /\ loop \in LoopRec /\ loop.scan # NoScan /\ loop.scan \in Scan
      /\ DOMAIN scans = {loop.scan} /\ scans[loop.scan] \in ScanRec
      /\ ending = NoEnd /\ m \in Mux
  BY NextMux
<1>2. PICK cur : cur = scans[loop.scan]
  OBVIOUS
<1>3. PICK sc : sc = IF is_deferred(cur, m) THEN [cur EXCEPT !.pending = @ + 1] ELSE cur
  OBVIOUS
<1>4. /\ Visited(m, sc, loop.skip, loop.reuse)
      /\ is_deferred(cur, m) \/ mux_is_being_scanned(cur, m)
      /\ UNCHANGED <<chdb, seen, tuner, reports, ending, viewers, viewings, trapped>>
  BY <1>2, <1>3 DEF PassOver
<1>5. /\ sc \in ScanRec /\ sc.subs = cur.subs /\ sc.active = cur.active
      /\ sc.pending >= cur.pending
      /\ sc.pending > 0 \/ mux_is_being_scanned(cur, m)
  <2>1. cur \in ScanRec
    BY <1>1, <1>2
  <2>2. CASE is_deferred(cur, m)
    <3>1. PICK k : k = cur.pending + 1
      OBVIOUS
    <3>2. k \in Nat /\ k > 0 /\ k >= cur.pending /\ sc = [cur EXCEPT !.pending = k]
      BY <1>3, <2>1, <2>2, <3>1 DEF ScanRec
    <3> QED BY <2>1, <3>2 DEF ScanRec
  <2>3. CASE ~is_deferred(cur, m)
    BY <1>3, <1>4, <2>1, <2>3 DEF ScanRec
  <2> QED BY <2>2, <2>3
<1>6. loop.skip \subseteq {BandOf[n] : n \in Mux} /\ loop.reuse \in {-1, 0} \cup Sub
  BY <1>1 DEF LoopRec
<1>7. /\ DOMAIN scans' = {loop.scan} /\ scans'[loop.scan] = sc /\ ScansOK' /\ Single'
      /\ loop' \in LoopRec /\ loop'.scan = loop.scan /\ loop'.then = {}
      /\ loop'.reuse = loop.reuse /\ DOMAIN loop'.left = DOMAIN loop.left \ {m}
      /\ \A n \in DOMAIN loop'.left : loop'.left[n] = loop.left[n]
  BY <1>4, <1>5, <1>6, MuxVisited
<1>8. Types'
  BY <1>4, <1>7 DEF ScanInv, Types, DbOK, TunersOK
<1>9. TunersListed' /\ ScansKnown' /\ NotAgain'
  BY <1>1, <1>2, <1>4, <1>5, <1>7 DEF ScanInv, TunersListed, ScansKnown, NotAgain
<1>10. LoopInv'
  BY <1>1, <1>4, <1>7 DEF ScanInv, LoopInv, Fresh, Reusable
<1>11. \A s : Counted(s)' = Counted(s)
  BY <1>4 DEF Counted
<1>12. ActiveInv'
  BY <1>1, <1>2, <1>4, <1>5, <1>7, <1>11 DEF ScanInv, ActiveInv
<1>13. WaitInv'
  <2> SUFFICES ASSUME NEW n \in Mux, chdb'[n].scan = loop.scan, chdb'[n].status = "pending"
               PROVE  \/ n \in DOMAIN loop'.left \/ sc.pending > 0 \/ Counted(loop.scan)' # {}
                      \/ mux_is_being_scanned(sc, n)
    BY <1>7 DEF WaitInv
  <2>1. \/ n \in DOMAIN loop.left \/ cur.pending > 0 \/ Counted(loop.scan) # {}
        \/ mux_is_being_scanned(cur, n)
    BY <1>1, <1>2, <1>4 DEF ScanInv, WaitInv
  <2>2. mux_is_being_scanned(cur, n) => mux_is_being_scanned(sc, n)
    BY <1>5 DEF mux_is_being_scanned
  <2>3. mux_is_being_scanned(cur, m) => mux_is_being_scanned(sc, m)
    BY <1>5 DEF mux_is_being_scanned
  <2>4. cur.pending > 0 => sc.pending > 0
    BY <1>1, <1>2, <1>5 DEF ScanRec
  <2> QED BY <1>5, <1>7, <1>11, <2>1, <2>2, <2>3, <2>4
<1>14. EndInv'
  BY <1>1, <1>4, AtRest DEF ScanInv, EndInv
<1> QED BY <1>1, <1>4, <1>7, <1>8, <1>9, <1>10, <1>12, <1>13, <1>14, AtRest
        DEF ScanInv, ReportsOnce, NothingSkipped

\* The subscription of a new tuner thread has no report, and no thread that scans.
LEMMA FreeSubscription ==
  ASSUME ScanInv, NEW m, NEW f, NEW id, SubscribeMux(m, f, id)
  PROVE  /\ \A i \in DOMAIN reports : reports[i].sub # id
         /\ id \in DOMAIN tuner => tuner[id].done
<1>1. CASE loop.reuse > 0
  BY <1>1 DEF SubscribeMux, ScanInv, LoopInv, Reusable
<1>2. CASE ~(loop.reuse > 0)
  <2>1. id \in unused_ids
    BY <1>2 DEF SubscribeMux, is_first
  <2> QED BY <2>1 DEF unused_ids, Range
<1> QED BY <1>1, <1>2

\* A subscription is started, or reused, for the mux.
LEMMA SubscribeMuxStep ==
  ASSUME ScanInv, NEW m \in DOMAIN loop.left, NEW f \in Fe, NEW id \in Sub,
         SubscribeMux(m, f, id)
  PROVE  ScanInv'
<1>1. /\ loop \in LoopRec /\ loop.scan # NoScan /\ loop.scan \in Scan
      /\ DOMAIN scans = {loop.scan} /\ scans[loop.scan] \in ScanRec
      /\ ending = NoEnd /\ m \in Mux /\ loop.left[m].scan = loop.scan
  BY NextMux
<1>2. PICK sc : sc = subscription_added(scans[loop.scan], id, m)
  OBVIOUS
<1>3. PICK t : t = [fe |-> f, mux |-> m, scan |-> loop.scan, done |-> FALSE]
  OBVIOUS
<1>4. /\ chdb' = [chdb EXCEPT ![m] = [status |-> "active", scan |-> loop.scan]]
      /\ seen' = seen \cup {m}
      /\ tuner' = insert_or_assign(tuner, id, t)
      /\ Visited(m, sc, loop.skip, 0)
      /\ UNCHANGED <<reports, ending, viewers, viewings, trapped>>
  BY <1>1, <1>2, <1>3 DEF SubscribeMux
<1>5. /\ \A i \in DOMAIN reports : reports[i].sub # id
      /\ id \in DOMAIN tuner => tuner[id].done
  BY FreeSubscription
<1>6. t \in TunerRec /\ t.mux = m /\ t.scan = loop.scan /\ ~t.done
  BY <1>1, <1>3 DEF TunerRec
<1>7. /\ DOMAIN tuner' = {id} \cup DOMAIN tuner /\ tuner'[id] = t
      /\ \A j \in DOMAIN tuner : j # id => tuner'[j] = tuner[j]
  BY <1>4 DEF insert_or_assign
<1>8. /\ sc \in ScanRec /\ sc.active = scans[loop.scan].active + 1
      /\ DOMAIN sc.subs = {id} \cup DOMAIN scans[loop.scan].subs /\ sc.subs[id] = m
      /\ \A j \in DOMAIN scans[loop.scan].subs : j # id => sc.subs[j] = scans[loop.scan].subs[j]
  <2>1. PICK cur, old : cur = scans[loop.scan] /\ old = cur.subs
    OBVIOUS
  <2>2. PICK new : new = insert_or_assign(old, id, m)
    OBVIOUS
  <2>3. /\ DOMAIN new = {id} \cup DOMAIN old /\ new[id] = m
        /\ \A j \in DOMAIN old : j # id => new[j] = old[j]
    BY <2>2 DEF insert_or_assign
  <2>4. new \in SubMap
    <3>1. PICK D \in SUBSET Sub : old \in [D -> Mux]
      BY <1>1, <2>1 DEF ScanRec, SubMap
    <3>2. new \in [D \cup {id} -> Mux]
      BY <1>1, <2>2, <3>1 DEF insert_or_assign
    <3>3. D \cup {id} \in SUBSET Sub
      OBVIOUS
    <3> QED BY <3>2, <3>3 DEF SubMap
  <2>5. sc = [cur EXCEPT !.subs = new, !.active = cur.active + 1] /\ cur \in ScanRec
    BY <1>1, <1>2, <2>1, <2>2 DEF subscription_added
  <2>6. sc \in ScanRec /\ sc.active = cur.active + 1 /\ sc.subs = new
    <3>1. PICK k : k = cur.active + 1
      OBVIOUS
    <3>2. k \in Nat
      BY <2>5, <3>1 DEF ScanRec
    <3>3. sc = [cur EXCEPT !.subs = new, !.active = k]
      BY <2>5, <3>1
    <3>4. sc \in ScanRec /\ sc.active = k /\ sc.subs = new
      BY <2>4, <2>5, <3>2, <3>3 DEF ScanRec
    <3> QED BY <3>1, <3>4
  <2> QED BY <2>1, <2>3, <2>6
<1>9. /\ DOMAIN scans' = {loop.scan} /\ scans'[loop.scan] = sc /\ ScansOK' /\ Single'
      /\ loop' \in LoopRec /\ loop'.scan = loop.scan /\ loop'.then = {}
      /\ loop'.reuse = 0 /\ DOMAIN loop'.left = DOMAIN loop.left \ {m}
      /\ \A n \in DOMAIN loop'.left : loop'.left[n] = loop.left[n]
  <2>1. loop.skip \subseteq {BandOf[n] : n \in Mux} /\ 0 \in {-1, 0} \cup Sub
    BY <1>1 DEF LoopRec
  <2> QED BY <1>4, <1>8, <2>1, MuxVisited
<1>10. /\ chdb' \in [Mux -> MuxRec] /\ \A n \in Mux : n # m => chdb'[n] = chdb[n]
       /\ chdb'[m].status = "active" /\ chdb'[m].scan = loop.scan
  <2>1. [status |-> "active", scan |-> loop.scan] \in MuxRec
    BY <1>1 DEF MuxRec
  <2>2. chdb \in [Mux -> MuxRec]
    BY DEF ScanInv, Types, DbOK
  <2> QED BY <1>1, <1>4, <2>1, <2>2
<1>11. Types'
  <2>1. DbOK'
    BY <1>1, <1>10 DEF ScanInv, Types, DbOK
  <2>2. TunersOK'
    BY <1>6, <1>7 DEF ScanInv, Types, TunersOK
  <2> QED BY <1>1, <1>4, <1>9, <2>1, <2>2 DEF ScanInv, Types
<1>12. TunersListed'
  BY <1>1, <1>6, <1>7, <1>8, <1>9 DEF ScanInv, TunersListed
<1>13. ScansKnown'
  BY <1>1, <1>9, <1>10 DEF ScanInv, ScansKnown
<1>14. NotAgain'
  <2>1. \A j \in DOMAIN scans[loop.scan].subs :
          /\ scans[loop.scan].subs[j] \in seen
          /\ chdb[scans[loop.scan].subs[j]].status # "pending"
    BY <1>1 DEF ScanInv, NotAgain
  <2>2. seen \subseteq Mux
    BY DEF ScanInv, Types
  <2> QED BY <1>4, <1>8, <1>9, <1>10, <2>1, <2>2 DEF NotAgain
<1>15. ReportsOnce'
  BY <1>4, <1>5, <1>7 DEF ScanInv, ReportsOnce
<1>16. LoopInv'
  <2>1. DOMAIN loop.left \subseteq Mux
    BY <1>1 DEF LoopRec, Snapshot
  <2> QED BY <1>1, <1>4, <1>9, <1>10, <2>1 DEF ScanInv, LoopInv, Fresh, Reusable
<1>17. EndInv'
  <2>1. NoScan \notin PropagateScans
    BY AtRest, ScanAssumption
  <2> QED BY <1>1, <1>4, <2>1, AtRest DEF EndInv
<1>18. Counted(loop.scan)' = Counted(loop.scan) \cup {id} /\ id \notin Counted(loop.scan)
  <2>1. id \notin Counted(loop.scan)
    BY <1>5 DEF Counted, Range
  <2>2. Counted(loop.scan)' = {j \in DOMAIN tuner' :
          /\ tuner'[j].scan = loop.scan
          /\ ~tuner'[j].done \/ \E r \in Range(reports) : r.sub = j}
    BY <1>4, <1>9 DEF Counted
  <2> QED BY <1>6, <1>7, <2>1, <2>2 DEF Counted
<1>19. ActiveInv'
  <2>1. IsFiniteSet(Counted(loop.scan))
    BY CountedFinite DEF ScanInv, Types
  <2>2. Cardinality(Counted(loop.scan)') = Cardinality(Counted(loop.scan)) + 1
    BY <1>18, <2>1, FS_AddElement
  <2>3. scans[loop.scan].active = Cardinality(Counted(loop.scan))
    BY <1>1 DEF ScanInv, ActiveInv
  <2> QED BY <1>8, <1>9, <2>2, <2>3 DEF ActiveInv
<1>20. WaitInv'
  BY <1>9, <1>18 DEF WaitInv
<1> QED BY <1>1, <1>4, <1>9, <1>11, <1>12, <1>13, <1>14, <1>15, <1>16, <1>17, <1>19, <1>20, AtRest
        DEF ScanInv, NothingSkipped

\* No frontend: the mux is given up, or waits while other subscriptions go on.
LEMMA ReservationFailsStep ==
  ASSUME ScanInv, NEW m \in DOMAIN loop.left, ReservationFails(m)
  PROVE  ScanInv'
<1>1. /\ loop \in LoopRec /\ loop.scan # NoScan /\ loop.scan \in Scan
      /\ DOMAIN scans = {loop.scan} /\ scans[loop.scan] \in ScanRec
      /\ ending = NoEnd /\ m \in Mux
  BY NextMux
<1>2. PICK sc, skip, reuse :
        /\ sc = reservation_failed(scans[loop.scan])
        /\ skip = IF DOMAIN scans[loop.scan].subs = {} THEN loop.skip
                  ELSE loop.skip \cup {BandOf[m]}
        /\ reuse = IF loop.reuse = 0 THEN -1 ELSE loop.reuse
  OBVIOUS
<1>3. /\ Visited(m, sc, skip, reuse)
      /\ UNCHANGED <<tuner, reports, ending, viewers, viewings, trapped>>
  BY <1>2 DEF ReservationFails
<1>4. /\ sc \in ScanRec /\ sc.subs = scans[loop.scan].subs /\ sc.active = scans[loop.scan].active
      /\ sc.pending >= scans[loop.scan].pending
      /\ DOMAIN scans[loop.scan].subs # {} => sc.pending > 0
  <2>1. PICK cur : cur = scans[loop.scan]
    OBVIOUS
  <2>2. CASE DOMAIN cur.subs = {}
    BY <1>1, <1>2, <2>1, <2>2 DEF reservation_failed, ScanRec
  <2>3. CASE DOMAIN cur.subs # {}
    <3>1. PICK k : k = cur.pending + 1
      OBVIOUS
    <3>2. cur \in ScanRec /\ k \in Nat /\ k > 0 /\ k >= cur.pending
      BY <1>1, <2>1, <3>1 DEF ScanRec
    <3>3. sc = [cur EXCEPT !.pending = k]
      BY <1>2, <2>1, <2>3, <3>1 DEF reservation_failed
    <3>4. sc \in ScanRec /\ sc.subs = cur.subs /\ sc.active = cur.active /\ sc.pending = k
      BY <3>2, <3>3 DEF ScanRec
    <3> QED BY <2>1, <3>2, <3>4
  <2> QED BY <2>2, <2>3
<1>5. skip \subseteq {BandOf[n] : n \in Mux} /\ reuse \in {-1, 0} \cup Sub
  BY <1>1, <1>2 DEF LoopRec
<1>6. /\ DOMAIN scans' = {loop.scan} /\ scans'[loop.scan] = sc /\ ScansOK' /\ Single'
      /\ loop' \in LoopRec /\ loop'.scan = loop.scan /\ loop'.then = {}
      /\ loop'.reuse = reuse /\ DOMAIN loop'.left = DOMAIN loop.left \ {m}
      /\ \A n \in DOMAIN loop'.left : loop'.left[n] = loop.left[n]
  BY <1>3, <1>4, <1>5, MuxVisited
<1>7. \/ DOMAIN scans[loop.scan].subs # {} /\ chdb' = chdb /\ seen' = seen
      \/ /\ DOMAIN scans[loop.scan].subs = {} /\ seen' = seen \cup {m}
         /\ chdb' = [chdb EXCEPT ![m] = Idle]
  BY DEF ReservationFails
<1>8. /\ chdb \in [Mux -> MuxRec]
      /\ \A n \in Mux : chdb[n].status # "idle" <=> chdb[n].scan # NoScan
      /\ Idle \in MuxRec /\ Idle.status = "idle" /\ Idle.scan = NoScan
  BY DEF ScanInv, Types, DbOK, Idle, MuxRec
<1>9. /\ chdb' \in [Mux -> MuxRec] /\ \A n \in Mux : n # m => chdb'[n] = chdb[n]
      /\ chdb'[m] = chdb[m] \/ chdb'[m] = Idle
      /\ DOMAIN scans[loop.scan].subs = {} => chdb'[m] = Idle
  BY <1>1, <1>7, <1>8
<1>10. Types'
  <2>1. DbOK'
    BY <1>8, <1>9 DEF DbOK
  <2>2. seen' \subseteq Mux
    BY <1>1, <1>7 DEF ScanInv, Types
  <2> QED BY <1>3, <1>6, <2>1, <2>2 DEF ScanInv, Types, TunersOK
<1>11. TunersListed'
  BY <1>1, <1>3, <1>4, <1>6 DEF ScanInv, TunersListed
<1>12. ScansKnown'
  BY <1>1, <1>6, <1>8, <1>9 DEF ScanInv, ScansKnown
<1>13. NotAgain'
  BY <1>1, <1>4, <1>6, <1>7 DEF ScanInv, NotAgain
<1>14. LoopInv'
  <2>1. DOMAIN loop.left \subseteq Mux
    BY <1>1 DEF LoopRec, Snapshot
  <2>2. Fresh'
    BY <1>6, <1>9, <2>1 DEF ScanInv, LoopInv, Fresh
  <2>3. reuse > 0 => reuse = loop.reuse
    BY <1>2
  <2>4. Reusable'
    BY <1>3, <1>6, <2>3 DEF ScanInv, LoopInv, Reusable
  <2> QED BY <1>1, <1>3, <1>6, <2>2, <2>4 DEF LoopInv
<1>15. EndInv'
  BY <1>1, <1>3, AtRest DEF ScanInv, EndInv
<1>16. \A s : Counted(s)' = Counted(s)
  BY <1>3 DEF Counted
<1>17. ActiveInv'
  BY <1>1, <1>3, <1>4, <1>6, <1>16 DEF ScanInv, ActiveInv
<1>18. WaitInv'
  <2>1. CASE DOMAIN scans[loop.scan].subs # {}
    BY <1>4, <1>6, <2>1 DEF WaitInv
  <2>2. CASE DOMAIN scans[loop.scan].subs = {}
    <3> SUFFICES ASSUME NEW n \in Mux, chdb'[n].scan = loop.scan, chdb'[n].status = "pending"
                 PROVE  \/ n \in DOMAIN loop'.left \/ sc.pending > 0 \/ Counted(loop.scan)' # {}
                        \/ mux_is_being_scanned(sc, n)
      BY <1>6 DEF WaitInv
    <3>1. n # m /\ chdb[n].scan = loop.scan /\ chdb[n].status = "pending"
      BY <1>8, <1>9, <2>2
    <3>2. \/ n \in DOMAIN loop.left \/ scans[loop.scan].pending > 0 \/ Counted(loop.scan) # {}
          \/ mux_is_being_scanned(scans[loop.scan], n)
      BY <1>1, <3>1 DEF ScanInv, WaitInv
    <3>3. scans[loop.scan].pending > 0 => sc.pending > 0
      BY <1>1, <1>4 DEF ScanRec
    <3>4. mux_is_being_scanned(scans[loop.scan], n) => mux_is_being_scanned(sc, n)
      BY <1>4 DEF mux_is_being_scanned
    <3> QED BY <1>6, <1>16, <3>1, <3>2, <3>3, <3>4
  <2> QED BY <2>1, <2>2
<1> QED BY <1>1, <1>3, <1>6, <1>10, <1>11, <1>12, <1>13, <1>14, <1>15, <1>17, <1>18, AtRest
        DEF ScanInv, ReportsOnce, NothingSkipped

\* The scan that is reset when the loop ends is the only one, and it is done.
LEMMA ResetStep ==
  ASSUME DOMAIN scans = {loop.scan}, ResetIfDone
  PROVE  \/ ending' = ending
         \/ /\ scan_stats_done(scans[loop.scan])
            /\ ending' = [NoEnd EXCEPT !.scan = loop.scan, !.then = {}, !.done = TRUE,
                                       !.reset = TRUE]
<1>1. DOMAIN scans \ {loop.scan} = {}
  OBVIOUS
<1>2. CASE loop.timer
  <2>1. CASE AllDone(scans)
    <3>1. PICK s \in DOMAIN scans : End(s, DOMAIN scans \ {s}, TRUE, TRUE)
      BY <1>2, <2>1 DEF ResetIfDone
    <3>2. s = loop.scan
      BY <3>1
    <3>3. End(loop.scan, {}, TRUE, TRUE)
      BY <1>1, <3>1, <3>2
    <3>4. scan_stats_done(scans[loop.scan])
      BY <2>1 DEF AllDone
    <3> QED BY <3>3, <3>4 DEF End
  <2>2. CASE ~AllDone(scans)
    BY <1>2, <2>2 DEF ResetIfDone
  <2> QED BY <2>1, <2>2
<1>3. CASE ~loop.timer
  <2>1. CASE scan_stats_done(scans[loop.scan])
    <3>1. End(loop.scan, {}, TRUE, TRUE)
      BY <1>1, <1>3, <2>1 DEF ResetIfDone
    <3> QED BY <2>1, <3>1 DEF End
  <2>2. CASE ~scan_stats_done(scans[loop.scan])
    BY <1>3, <2>2 DEF ResetIfDone
  <2> QED BY <2>1, <2>2
<1> QED BY <1>2, <1>3

\* The loop ends, and with it the scan when nothing is pending and nothing active.
LEMMA EndLoopStep ==
  ASSUME ScanInv, EndLoop
  PROVE  ScanInv'
<1>1. /\ loop.scan # NoScan /\ DOMAIN loop.left = {} /\ tuner' = abandoned
      /\ UNCHANGED <<chdb, seen, reports, viewers, viewings, trapped>>
  BY DEF EndLoop
<1>2. ending = NoEnd /\ loop.scan \in DOMAIN scans /\ loop.then = {}
  BY <1>1 DEF ScanInv, LoopInv
<1>3. loop' = NoLoop /\ ResetIfDone /\ scans' = scans
  BY <1>2 DEF EndLoop
<1>4. DOMAIN scans = {loop.scan} /\ loop.scan \in Scan /\ scans[loop.scan] \in ScanRec
  BY <1>2 DEF ScanInv, Single, Types, ScansOK
<1>5. /\ DOMAIN tuner' = DOMAIN tuner \ {loop.reuse}
      /\ \A id \in DOMAIN tuner' : tuner'[id] = tuner[id]
  BY <1>1, RestrictOne DEF abandoned
<1>6. loop.reuse \notin Counted(loop.scan)
  <2>1. loop.reuse \in DOMAIN tuner => loop.reuse > 0
    BY DEF ScanInv, Types, TunersOK, Sub
  <2> QED BY <2>1 DEF ScanInv, LoopInv, Reusable, Counted, Range
<1>7. \A s \in DOMAIN scans : Counted(s)' = Counted(s)
  <2> SUFFICES ASSUME NEW s \in DOMAIN scans PROVE Counted(s)' = Counted(s)
    OBVIOUS
  <2>1. Counted(s)' = {id \in DOMAIN tuner' :
          /\ tuner'[id].scan = s
          /\ ~tuner'[id].done \/ \E r \in Range(reports) : r.sub = id}
    BY <1>1 DEF Counted
  <2>2. loop.reuse \notin Counted(s)
    BY <1>4, <1>6
  <2> QED BY <1>5, <2>1, <2>2 DEF Counted
<1>8. \/ ending' = NoEnd
      \/ /\ scan_stats_done(scans[loop.scan])
         /\ ending' = [NoEnd EXCEPT !.scan = loop.scan, !.then = {}, !.done = TRUE,
                                    !.reset = TRUE]
  BY <1>2, <1>3, <1>4, ResetStep
<1>9. CASE ending' = NoEnd
  <2>1. Types'
    BY <1>1, <1>3, <1>5, <1>9, AtRest DEF ScanInv, Types, DbOK, ScansOK, TunersOK
  <2>2. EndInv'
    BY <1>9, <1>2, <1>5, AtRest DEF ScanInv, EndInv
  <2>3. ActiveInv' /\ WaitInv'
    BY <1>1, <1>2, <1>3, <1>7, <1>9, AtRest DEF ScanInv, ActiveInv, WaitInv
  <2>4. LoopInv'
    BY <1>3, AtRest DEF LoopInv, Fresh, Reusable
  <2>5. TunersListed' /\ ReportsOnce'
    BY <1>1, <1>3, <1>5 DEF ScanInv, TunersListed, ReportsOnce
  <2> QED BY <1>1, <1>3, <1>9, <2>1, <2>2, <2>3, <2>4, <2>5, AtRest
          DEF ScanInv, Single, ScansKnown, NotAgain, NothingSkipped
<1>10. CASE /\ scan_stats_done(scans[loop.scan])
            /\ ending' = [NoEnd EXCEPT !.scan = loop.scan, !.then = {}, !.done = TRUE,
                                       !.reset = TRUE]
  <2>1. /\ ending' \in EndRec /\ ending'.scan = loop.scan /\ ending'.left = {}
        /\ ending'.then = {} /\ ~ending'.cleaned
    BY <1>4, <1>10 DEF NoEnd, EndRec
  <2>2. ending'.scan # NoScan /\ ending' # NoEnd
    BY <1>1, <2>1, AtRest
  <2>3. Counted(loop.scan) = {} /\ scans[loop.scan].pending = 0
    <3>1. scans[loop.scan].active = Cardinality(Counted(loop.scan))
      BY <1>2 DEF ScanInv, ActiveInv
    <3>2. scans[loop.scan].active = 0 /\ scans[loop.scan].pending = 0
      BY <1>4, <1>10 DEF scan_stats_done, ScanRec
    <3>3. IsFiniteSet(Counted(loop.scan))
      BY CountedFinite DEF ScanInv, Types
    <3> QED BY <3>1, <3>2, <3>3, FS_EmptySet
  <2>4. \A id \in DOMAIN tuner : tuner[id].done
    BY <1>4, <2>3 DEF ScanInv, TunersListed, Counted
  <2>5. \A m \in Mux : chdb[m].scan = loop.scan /\ chdb[m].status = "pending" =>
          mux_is_being_scanned(scans[loop.scan], m)
    BY <1>1, <1>2, <1>4, <2>3 DEF ScanInv, WaitInv
  <2>6. Types'
    BY <1>1, <1>3, <1>5, <2>1, AtRest DEF ScanInv, Types, DbOK, ScansOK, TunersOK
  <2>7. EndInv'
    BY <1>3, <1>4, <1>5, <2>1, <2>2, <2>4 DEF EndInv
  <2>8. LoopInv'
    BY <1>3, AtRest DEF LoopInv, Fresh, Reusable
  <2>9. TunersListed' /\ ReportsOnce'
    BY <1>1, <1>3, <1>5 DEF ScanInv, TunersListed, ReportsOnce
  <2>10. ActiveInv' /\ WaitInv'
    BY <2>2 DEF ActiveInv, WaitInv
  <2>11. NothingSkipped'
    BY <1>1, <1>3, <2>1, <2>5 DEF NothingSkipped
  <2> QED BY <1>1, <1>3, <2>6, <2>7, <2>8, <2>9, <2>10, <2>11
          DEF ScanInv, Single, ScansKnown, NotAgain
<1> QED BY <1>8, <1>9, <1>10

\* Every step keeps the invariant.
LEMMA ScanStep ==
  ASSUME OneAtATime, ScanInv, [Next]_vars
  PROVE  ScanInv'
<1>1. CASE UNCHANGED vars
  BY <1>1 DEF vars, ScanInv, Types, DbOK, ScansOK, TunersOK, Single, TunersListed, ScansKnown,
              NotAgain, ReportsOnce, LoopInv, Fresh, Reusable, EndInv, ActiveInv, WaitInv,
              Counted, NothingSkipped
<1>2. CASE Next
  <2>1. CASE \E s \in Scan, M \in SUBSET Mux \ {{}} : ScanMuxes(s, M)
    BY <2>1, ScanMuxesStep
  <2>2. CASE Housekeeping
    BY <2>2, HousekeepingStep
  <2>3. CASE ScanNext
    <3>1. CASE \E m \in DOMAIN loop.left : PassOver(m)
      BY <3>1, PassOverStep
    <3>2. CASE \E m \in DOMAIN loop.left, f \in Fe, id \in 1 .. MaxSub : SubscribeMux(m, f, id)
      BY <3>2, SubscribeMuxStep DEF Sub
    <3>3. CASE \E m \in DOMAIN loop.left : ReservationFails(m)
      BY <3>3, ReservationFailsStep
    <3>4. CASE EndLoop
      BY <3>4, EndLoopStep
    <3> QED BY <2>3, <3>1, <3>2, <3>3, <3>4 DEF ScanNext
  <2>4. CASE RemoveScanner
    BY <2>4, RemoveScannerStep
  <2>5. CASE OnScanMuxEnd
    BY <2>5, OnScanMuxEndStep
  <2>6. CASE \E s \in AbortScans : Abort(s)
    BY <2>6, AbortStep
  <2>7. CASE EndScans
    BY <2>7, EndScansStep
  <2>8. CASE \E id \in ending.left : StopTuner(id)
    BY <2>8, StopTunerStep
  <2>9. CASE Erase
    BY <2>9, EraseStep
  <2>10. CASE \E id \in DOMAIN tuner, res \in Results : TunerEnds(id, res)
    BY <2>10, TunerEndsStep
  <2>11. CASE \E id \in DOMAIN tuner, m \in Mux : TunerFinds(id, m)
    BY <2>11, TunerFindsStep
  <2>12. CASE \E f \in Fe : ViewerComes(f) \/ ViewerLeaves(f)
    BY <2>12, ViewerStep
  <2> QED BY <1>2, <2>1, <2>2, <2>3, <2>4, <2>5, <2>6, <2>7, <2>8, <2>9, <2>10, <2>11, <2>12
          DEF Next
<1> QED BY <1>1, <1>2

-----------------------------------------------------------------------------
(* The properties.                                                         *)

\* The database, the subscriptions, the tuner threads and the queue agree in
\* every reachable state.
THEOREM ScanInvariant == ASSUME OneAtATime PROVE Spec => []ScanInv
<1>1. Init => ScanInv
  BY InitScan
<1>2. ScanInv /\ [Next]_vars => ScanInv'
  BY ScanStep
<1> QED BY <1>1, <1>2, PTL DEF Spec

\* A mux has a scan_id exactly when its status says that it waits or is scanned,
\* and the counters of a scan never become negative.
THEOREM ScanTypes == ASSUME OneAtATime PROVE Spec => []ScanTypeOK
<1>1. ScanInv => ScanTypeOK
  <2> SUFFICES ASSUME ScanInv PROVE ScanTypeOK
    OBVIOUS
  <2>1. \A m \in Mux :
          /\ chdb[m].status \in {"idle", "pending", "active", "retry"}
          /\ chdb[m].scan \in Scan \cup {NoScan}
          /\ chdb[m].status # "idle" <=> chdb[m].scan # NoScan
    BY DEF ScanInv, Types, DbOK, MuxRec
  <2>2. \A s \in DOMAIN scans :
          /\ DOMAIN scans[s].subs \subseteq 1 .. MaxSub
          /\ Range(scans[s].subs) \subseteq Mux
          /\ scans[s].pending \in Nat /\ scans[s].active \in Nat
    <3> SUFFICES ASSUME NEW s \in DOMAIN scans
                 PROVE  /\ DOMAIN scans[s].subs \subseteq 1 .. MaxSub
                        /\ Range(scans[s].subs) \subseteq Mux
                        /\ scans[s].pending \in Nat /\ scans[s].active \in Nat
      OBVIOUS
    <3>1. scans[s] \in ScanRec
      BY DEF ScanInv, Types, ScansOK
    <3>2. PICK D \in SUBSET Sub : scans[s].subs \in [D -> Mux]
      BY <3>1 DEF ScanRec, SubMap
    <3> QED BY <3>1, <3>2 DEF ScanRec, Sub, Range
  <2>3. /\ DOMAIN scans \subseteq Scan /\ DOMAIN tuner \subseteq 1 .. MaxSub
        /\ seen \subseteq Mux /\ viewers \subseteq Fe /\ viewings <= MaxViewings
    BY ScanAssumption DEF ScanInv, Types, ScansOK, TunersOK, Sub
  <2> QED BY <2>1, <2>2, <2>3 DEF ScanTypeOK
<1> QED BY <1>1, ScanInvariant, PTL

\* active_muxes is the number of subscriptions whose report is still to be handled.
THEOREM ActiveMuxesCounted == ASSUME OneAtATime PROVE Spec => []ActiveCounted
<1>1. ScanInv => ActiveCounted
  BY DEF ScanInv, ActiveInv, ActiveCounted, Counted
<1> QED BY <1>1, ScanInvariant, PTL

\* When no scan is left, no frontend is reserved and no mux is marked as scanned.
THEOREM NothingLeftBehind == ASSUME OneAtATime PROVE Spec => []NothingLeft
<1>1. ScanInv => NothingLeft
  <2> SUFFICES ASSUME ScanInv, scans = <<>>
               PROVE  DOMAIN tuner = {} /\ \A m \in Mux : chdb[m].status = "idle"
    BY DEF NothingLeft
  <2>1. DOMAIN scans = {}
    OBVIOUS
  <2>2. DOMAIN tuner = {}
    BY <2>1 DEF ScanInv, TunersListed
  <2>3. \A m \in Mux : chdb[m].status = "idle"
    BY <2>1 DEF ScanInv, ScansKnown, Types, DbOK
  <2> QED BY <2>2, <2>3
<1> QED BY <1>1, ScanInvariant, PTL

\* A scan that ends by itself leaves no mux waiting, but those that it takes for one
\* it has subscribed.
THEOREM NoMuxSkipped == ASSUME OneAtATime PROVE Spec => []NothingSkipped
<1>1. ScanInv => NothingSkipped
  BY DEF ScanInv
<1> QED BY <1>1, ScanInvariant, PTL

\* The assertion of on_scan_mux_end never fails.
THEOREM SubscriptionAlwaysFound == ASSUME OneAtATime PROVE Spec => []SubscriptionFound
<1>1. ScanInv => SubscriptionFound
  BY DEF ScanInv, Types, SubscriptionFound
<1> QED BY <1>1, ScanInvariant, PTL

=============================================================================
