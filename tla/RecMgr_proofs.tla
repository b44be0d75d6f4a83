---------------------------- MODULE RecMgr_proofs ----------------------------
(***************************************************************************)
(* Proofs about RecMgr, for any number of instances, recordings and guide  *)
(* entries.                                                                *)
(*                                                                         *)
(* The invariant has three parts.  Records: what is in the databases, and  *)
(* what the copies that housekeeping and the tuners hold have in common    *)
(* with them.  Tasks: the tasks that recmgr has pushed, or is about to push*)
(* (Todo), against the adapters and live buffers they will change: the     *)
(* subscription of a recording that is still to be started is used for     *)
(* nothing else, and the buffer of one that is to be released is empty.    *)
(* Orphans: NoOrphanSubscription with the tasks about to be pushed.  What  *)
(* the read transactions of the tuners show, and what is left of           *)
(* stop_recording, are invariants beside it.                               *)
(***************************************************************************)
EXTENDS RecMgr, SequenceTheorems, FiniteSetTheorems, NaturalsInduction, TLAPS

Status == {"NONE", "SCHEDULED", "IN_PROGRESS", "FINISHED", "FAILED"}
GuideStatus == {"absent", "NONE", "SCHEDULED", "IN_PROGRESS", "FINISHED"}

\* A record as recdb may hold it, and a copy of one with its key.
GoodRec == {r \in RecType :
              r.status # "IN_PROGRESS" => r.owner = NoPid /\ r.sub = NoSub}
Copy == Key \X GoodRec

HkType == [stop: SUBSET Copy, start: SUBSET Copy, fail: SUBSET Copy]

\* What housekeeping has still to do at time t was right when it looked.
HkOK(h, t) ==
  /\ h \in HkType
  /\ \A w \in h.stop  : w[2].status = "IN_PROGRESS"
  /\ \A w \in h.start : w[2].status = "SCHEDULED" /\ From[w[1]] <= t
  /\ \A w \in h.fail  : w[2].status = "SCHEDULED" /\ To[w[1]] <= t

UpdType == [key: Key \ Anonymous, found: SUBSET Copy, old: GoodRec]

\* A copy w that a tuner may have found for the guide entry of u.
Matches(u, w) ==
  /\ w[2].status \in Active /\ overlapping(w[1], u.key)
  /\ w[1] = u.key => u.old = w[2]

UpdOK(u) ==
  /\ u \in UpdType
  /\ u.found = {} \/ \E w \in u.found : u.found = {w} /\ Matches(u, w)

RunInv ==
  /\ now \in 0 .. MaxTime /\ alive \subseteq Pid
  /\ IsFiniteSet(alive) /\ Cardinality(alive) <= MaxAlive

DataInv ==
  rec \in [Key -> GoodRec] /\ epg \in [Key -> GuideStatus] /\ disk \subseteq Key

HkInv == DOMAIN hk = Pid /\ \A p \in Pid : HkOK(hk[p], now)

UpdInv == DOMAIN upd = Pid /\ \A p \in Pid : upd[p] = NoUpd \/ UpdOK(upd[p])

Task == [op: {"start", "unsubscribe"}, key: Key, sub: Nat]
PendType == [key: Key \cup {NoPid},
             status: {"NONE", "IN_PROGRESS", "COPYING", "LINKED", "FINISHED"},
             task: Seq(Task)]
Buffer == [owner: Pid, sub: Nat, recs: SUBSET Key]

TodoTypes == pend \in [Pid -> PendType] /\ rq \in [Pid -> Seq(Task)]

HeldTypes ==
  /\ aa \in [Pid -> SUBSET Nat] /\ \A p \in Pid : IsFiniteSet(aa[p])
  /\ lb \in SUBSET Buffer /\ IsFiniteSet(lb)

TaskTypes == TodoTypes /\ HeldTypes

\* A process that does not run has nothing in memory.
DeadInv ==
  \A p \in Pid \ alive : /\ hk[p] = Idle /\ pend[p] = NoPend /\ rq[p] = <<>>
                         /\ aa[p] = {} /\ upd[p] = NoUpd

\* The tasks of the receiver thread and the one that is pushed next.
Todo(p) == rq[p] \o pend[p].task

\* The subscription of a recording that is to be started has no adapter, no
\* buffer and no other task; the buffer of one that is to be released is empty.
QueueOK(q, held, p, bufs) ==
  /\ \A i, j \in DOMAIN q : q[i].op = "start" /\ q[i].sub = q[j].sub => i = j
  /\ \A i \in DOMAIN q : q[i].op = "start" =>
        q[i].sub \notin held /\ \A b \in bufs : b.owner = p => b.sub # q[i].sub
  /\ \A i \in DOMAIN q : q[i].op = "unsubscribe" =>
        \A b \in bufs : b.owner = p /\ b.sub = q[i].sub => b.recs = {}

\* A subscription has one buffer, for one recording.
BuffersOK(bufs) ==
  /\ \A b, c \in bufs : b.owner = c.owner /\ b.sub = c.sub => b = c
  /\ \A b \in bufs : \A j, k \in b.recs : j = k

QueueInv == BuffersOK(lb) /\ \A p \in Pid : QueueOK(Todo(p), aa[p], p, lb)

InProgress(p, s) == [status |-> "IN_PROGRESS", owner |-> p, sub |-> s]

Released(q, s) == \E i \in DOMAIN q : q[i].op = "unsubscribe" /\ q[i].sub = s

Kept(db, q, held, p) ==
  /\ \A s \in held : Released(q, s) \/ \E k \in Key : db[k] = InProgress(p, s)
  /\ \A i \in DOMAIN q :
       Released(q, q[i].sub) \/ \E k \in Key : db[k] = InProgress(p, q[i].sub)

OrphanInv == taken = {} => \A p \in alive : Kept(rec, Todo(p), aa[p], p)

Inv == /\ RunInv /\ DataInv /\ HkInv /\ UpdInv /\ DeadInv
       /\ TaskTypes /\ QueueInv /\ OrphanInv

\* The read transactions of the tuners show records.
SnapshotInv == rtxn \in [Pid -> SUBSET [Key -> GoodRec]]

\* What is left of stop_recording while the files of key k are to be linked, or the
\* record to be stored: the adapter is then released.
StopOK(d) ==
  d.status \in {"COPYING", "LINKED"} =>
    d.key \in Key /\ \E t \in Task : d.task = <<t>> /\ t.op = "unsubscribe"

StopInv == \A p \in Pid : StopOK(pend[p])

-----------------------------------------------------------------------------
(* Finite sets.                                                            *)

\* The image of a finite set is finite.
LEMMA ImageFinite ==
  ASSUME NEW S, IsFiniteSet(S), NEW f, DOMAIN f = S
  PROVE  IsFiniteSet({f[x] : x \in S})
<1> DEFINE T == {f[x] : x \in S}
           g == [x \in S |-> f[x]]
<1>1. g \in Surjection(S, T)
  BY DEF Surjection
<1> QED BY <1>1, FS_Surjection

\* A new id is a number that nothing of this process uses.
LEMMA FreshSub ==
  ASSUME TaskTypes, rec \in [Key -> GoodRec], NEW p \in Pid
  PROVE  next_subscription_id(p) \in Nat \ subs_of(p)
<1> DEFINE owned == {j \in Key : rec[j].owner = p}
           bufs  == {c \in lb : c.owner = p}
           q     == rq[p]
           A     == {rec[k].sub : k \in owned}
           B     == {b.sub : b \in bufs}
           C     == {q[i].sub : i \in DOMAIN q}
<1>0. q \in Seq(Task) /\ IsFiniteSet(aa[p]) /\ IsFiniteSet(lb)
  BY DEF TaskTypes, TodoTypes, HeldTypes
<1>1. IsFiniteSet(A)
  <2> DEFINE f == [k \in owned |-> rec[k].sub]
  <2>1. IsFiniteSet(owned)
    BY RecMgrAssumption, FS_Subset
  <2>2. DOMAIN f = owned
    OBVIOUS
  <2> HIDE DEF f, owned
  <2>3. IsFiniteSet({f[k] : k \in owned})
    BY <2>1, <2>2, ImageFinite
  <2>4. {f[k] : k \in owned} = A
    BY DEF f
  <2> QED BY <2>3, <2>4
<1>2. IsFiniteSet(B)
  <2> DEFINE f == [b \in bufs |-> b.sub]
  <2>1. IsFiniteSet(bufs)
    BY <1>0, FS_Subset
  <2>2. DOMAIN f = bufs
    OBVIOUS
  <2> HIDE DEF f, bufs
  <2>3. IsFiniteSet({f[k] : k \in bufs})
    BY <2>1, <2>2, ImageFinite
  <2>4. {f[k] : k \in bufs} = B
    BY DEF f
  <2> QED BY <2>3, <2>4
<1>3. IsFiniteSet(C)
  <2> DEFINE f == [i \in DOMAIN q |-> q[i].sub]
  <2>1. IsFiniteSet(DOMAIN q)
    BY <1>0, FS_Interval, LenProperties
  <2>2. DOMAIN f = DOMAIN q
    OBVIOUS
  <2> HIDE DEF f, q
  <2>3. IsFiniteSet({f[k] : k \in DOMAIN q})
    BY <2>1, <2>2, ImageFinite
  <2>4. {f[k] : k \in DOMAIN q} = C
    BY DEF f
  <2> QED BY <2>3, <2>4
<1>4. subs_of(p) = aa[p] \cup A \cup B \cup C
  BY DEF subs_of
<1> HIDE DEF A, B, C
<1>5. IsFiniteSet(subs_of(p))
  BY <1>0, <1>1, <1>2, <1>3, <1>4, FS_Union
<1> DEFINE n == Cardinality(subs_of(p))
<1>6. n \in Nat
  BY <1>5, FS_CardinalityType
<1>7. \E s \in 1 .. n + 1 : s \notin subs_of(p)
  <2> SUFFICES ASSUME 1 .. n + 1 \subseteq subs_of(p)
               PROVE  FALSE
    OBVIOUS
  <2>1. Cardinality(1 .. n + 1) <= n
    BY <1>5, FS_Subset
  <2>2. Cardinality(1 .. n + 1) = n + 1
    BY <1>6, FS_Interval
  <2> QED BY <1>6, <2>1, <2>2
<1>8. next_subscription_id(p) \in 1 .. n + 1 /\ next_subscription_id(p) \notin subs_of(p)
  BY <1>7 DEF next_subscription_id
<1> QED BY <1>6, <1>8

-----------------------------------------------------------------------------
(* best_matching.                                                          *)

\* There is a first one among some keys.
LEMMA EarliestOf ==
  ASSUME NEW S \in SUBSET Key, S # {}
  PROVE  earliest(S) \in S
<1> DEFINE T == {Start[k] : k \in S}
<1>1. T \in SUBSET Nat /\ T # {}
  BY RecMgrAssumption
<1>2. IsWellFoundedOn(OpToRel(<, Nat), Nat)
  BY NatLessThanWellFounded
<1> HIDE DEF T
<1>3. PICK x \in T : \A y \in T : ~(<<y, x>> \in OpToRel(<, Nat))
  BY <1>1, <1>2, WFMin
<1>4. \A y \in T : x <= y
  <2>1. \A y \in T : ~(y < x)
    BY <1>1, <1>3 DEF OpToRel
  <2> QED BY <1>1, <2>1
<1>5. \E k \in S : \A j \in S : Start[k] <= Start[j]
  BY <1>4 DEF T
<1> QED BY <1>5 DEF earliest

\* best_matching finds nothing or one active recording that overlaps.
LEMMA BestMatching ==
  ASSUME NEW db, NEW k \in Key, NEW anonymous \in BOOLEAN
  PROVE  LET B == best_matching(db, k, anonymous) IN
         \/ B = {}
         \/ \E j \in Key : B = {j} /\ db[j].status \in Active /\ overlapping(j, k)
<1> DEFINE C == candidates(db, k, anonymous)
           same == {j \in C : Event[j] = Event[k]}
<1>1. /\ C \in SUBSET Key /\ same \in SUBSET C
      /\ \A j \in C : db[j].status \in Active /\ overlapping(j, k)
  BY DEF candidates
<1>2. same # {} => earliest(same) \in C
  BY <1>1, EarliestOf
<1>3. C # {} => earliest(C) \in C
  BY <1>1, EarliestOf
<1>4. \/ best_matching(db, k, anonymous) = {}
      \/ \E j \in C : best_matching(db, k, anonymous) = {j}
  BY <1>2, <1>3 DEF best_matching
<1> HIDE DEF C
<1> QED BY <1>1, <1>4

-----------------------------------------------------------------------------
(* The tasks as one sequence.                                              *)

\* The fields of a task in a sequence of tasks.
LEMMA TaskOf ==
  ASSUME NEW q \in Seq(Task), NEW i \in DOMAIN q
  PROVE  q[i].op \in {"start", "unsubscribe"} /\ q[i].key \in Key /\ q[i].sub \in Nat
<1>1. q[i] \in Task
  BY LenProperties, ElementOfSeq
<1> QED BY <1>1 DEF Task

\* What adding and removing a task does to the sequence.
LEMMA AppendTask ==
  ASSUME NEW q \in Seq(Task), NEW t \in Task
  PROVE  /\ Append(q, t) \in Seq(Task) /\ Len(q) \in Nat /\ DOMAIN q = 1 .. Len(q)
         /\ DOMAIN Append(q, t) = 1 .. Len(q) + 1 /\ Append(q, t)[Len(q) + 1] = t
         /\ \A i \in DOMAIN q : Append(q, t)[i] = q[i]
<1>1. /\ Append(q, t) \in Seq(Task) /\ Len(Append(q, t)) = Len(q) + 1
      /\ \A i \in 1 .. Len(q) : Append(q, t)[i] = q[i] /\ Append(q, t)[Len(q) + 1] = t
  BY AppendProperties
<1> QED BY <1>1, LenProperties, AppendProperties

\* What the first task leaves behind.
LEMMA TailTask ==
  ASSUME NEW q \in Seq(Task), q # <<>>
  PROVE  /\ Tail(q) \in Seq(Task) /\ Head(q) = q[1] /\ 1 \in DOMAIN q /\ Head(q) \in Task
         /\ \A i \in DOMAIN Tail(q) : i \in Nat /\ i + 1 \in DOMAIN q /\ Tail(q)[i] = q[i + 1]
         /\ \A i \in DOMAIN q : i # 1 => i - 1 \in DOMAIN Tail(q) /\ Tail(q)[i - 1] = q[i]
<1>1. /\ Head(q) \in Task /\ Tail(q) \in Seq(Task) /\ Len(Tail(q)) = Len(q) - 1
      /\ \A i \in 1 .. Len(Tail(q)) : Tail(q)[i] = q[i + 1]
  BY HeadTailProperties
<1>2. DOMAIN q = 1 .. Len(q) /\ Len(q) \in Nat /\ Len(q) # 0
  BY LenProperties, EmptySeq
<1>3. DOMAIN Tail(q) = 1 .. Len(q) - 1
  BY <1>1, LenProperties
<1>4. Head(q) = q[1]
  OBVIOUS
<1>5. \A i \in DOMAIN q : i # 1 => i - 1 \in DOMAIN Tail(q) /\ i - 1 + 1 = i
  BY <1>2, <1>3
<1> QED BY <1>1, <1>2, <1>3, <1>4, <1>5

\* The task that is pushed next, if there is one, comes last.
LEMMA TodoFacts ==
  ASSUME NEW q \in Seq(Task)
  PROVE  /\ q \o <<>> = q
         /\ \A t \in Task : q \o <<t>> = Append(q, t)
         /\ \A r \in Seq(Task) : /\ q \o r \in Seq(Task)
                                 /\ q # <<>> => /\ q \o r # <<>> /\ Head(q \o r) = Head(q)
                                                /\ Tail(q \o r) = Tail(q) \o r
<1>1. q \o <<>> = q /\ \A t \in Task : q \o <<t>> = Append(q, t)
  BY ConcatEmptySeq, AppendIsConcat
<1>2. ASSUME NEW r \in Seq(Task)
      PROVE  /\ q \o r \in Seq(Task)
             /\ q # <<>> => /\ q \o r # <<>> /\ Head(q \o r) = Head(q)
                            /\ Tail(q \o r) = Tail(q) \o r
  BY ConcatProperties, HeadTailProperties, ConcatSimplifications
<1> QED BY <1>1, <1>2

-----------------------------------------------------------------------------
(* Tasks against adapters and buffers.                                     *)

\* No buffer of process p is new and none has gained a recording.
Shrinks(p, bufs, new) ==
  \A c \in new : c.owner = p =>
     \E b \in bufs : c.owner = b.owner /\ c.sub = b.sub /\ c.recs \subseteq b.recs

\* Losing buffers, recordings or adapters does no harm to the tasks.
LEMMA QueueShrinks ==
  ASSUME NEW q, NEW held, NEW p, NEW bufs, QueueOK(q, held, p, bufs),
         NEW fewer \in SUBSET held, NEW new, Shrinks(p, bufs, new)
  PROVE  QueueOK(q, fewer, p, new)
<1>1. ASSUME NEW i \in DOMAIN q, q[i].op = "start", NEW c \in new, c.owner = p
      PROVE  c.sub # q[i].sub
  BY <1>1 DEF Shrinks, QueueOK
<1>2. ASSUME NEW i \in DOMAIN q, q[i].op = "unsubscribe", NEW c \in new, c.owner = p,
             c.sub = q[i].sub
      PROVE  c.recs = {}
  <2>1. PICK b \in bufs : c.owner = b.owner /\ c.sub = b.sub /\ c.recs \subseteq b.recs
    BY <1>2 DEF Shrinks
  <2>2. b.recs = {}
    BY <1>2, <2>1 DEF QueueOK
  <2> QED BY <2>1, <2>2
<1>3. \A i \in DOMAIN q : q[i].op = "start" => q[i].sub \notin fewer
  BY DEF QueueOK
<1> QED BY <1>1, <1>2, <1>3 DEF QueueOK

\* The task to start a recording, under an id that is not in use.
LEMMA StartQueued ==
  ASSUME NEW q \in Seq(Task), NEW held, NEW p, NEW bufs, QueueOK(q, held, p, bufs),
         NEW t \in Task, t.op = "start", t.sub \notin held,
         \A b \in bufs : b.owner = p => b.sub # t.sub,
         \A i \in DOMAIN q : q[i].sub # t.sub
  PROVE  QueueOK(Append(q, t), held, p, bufs)
<1> DEFINE a == Append(q, t)
           n == Len(q) + 1
<1>1. /\ n \in DOMAIN a /\ a[n] = t /\ \A i \in DOMAIN q : i # n
      /\ \A i \in DOMAIN a : i = n \/ (i \in DOMAIN q /\ a[i] = q[i])
  BY AppendTask
<1> HIDE DEF a, n
<1>2. \A i, j \in DOMAIN a : a[i].op = "start" /\ a[i].sub = a[j].sub => i = j
  BY <1>1 DEF QueueOK
<1>3. \A i \in DOMAIN a : a[i].op = "start" =>
         a[i].sub \notin held /\ \A b \in bufs : b.owner = p => b.sub # a[i].sub
  BY <1>1 DEF QueueOK
<1>4. \A i \in DOMAIN a : a[i].op = "unsubscribe" =>
         \A b \in bufs : b.owner = p /\ b.sub = a[i].sub => b.recs = {}
  BY <1>1 DEF QueueOK
<1> QED BY <1>2, <1>3, <1>4 DEF QueueOK, a

\* The task to release an adapter whose buffer is empty.
LEMMA UnsubscribeQueued ==
  ASSUME NEW q \in Seq(Task), NEW held, NEW p, NEW bufs, QueueOK(q, held, p, bufs),
         NEW t \in Task, t.op = "unsubscribe", t.sub \in held,
         \A b \in bufs : b.owner = p /\ b.sub = t.sub => b.recs = {}
  PROVE  QueueOK(Append(q, t), held, p, bufs)
<1> DEFINE a == Append(q, t)
           n == Len(q) + 1
<1>1. /\ n \in DOMAIN a /\ a[n] = t /\ \A i \in DOMAIN q : i # n
      /\ \A i \in DOMAIN a : i = n \/ (i \in DOMAIN q /\ a[i] = q[i])
  BY AppendTask
<1> HIDE DEF a, n
<1>2. \A i, j \in DOMAIN a : a[i].op = "start" /\ a[i].sub = a[j].sub => i = j
  BY <1>1 DEF QueueOK
<1>3. \A i \in DOMAIN a : a[i].op = "start" =>
         a[i].sub \notin held /\ \A b \in bufs : b.owner = p => b.sub # a[i].sub
  BY <1>1 DEF QueueOK
<1>4. \A i \in DOMAIN a : a[i].op = "unsubscribe" =>
         \A b \in bufs : b.owner = p /\ b.sub = a[i].sub => b.recs = {}
  BY <1>1 DEF QueueOK
<1> QED BY <1>2, <1>3, <1>4 DEF QueueOK, a

\* The first task is taken from the queue.
LEMMA QueueTail ==
  ASSUME NEW q \in Seq(Task), q # <<>>, NEW held, NEW p, NEW bufs, QueueOK(q, held, p, bufs)
  PROVE  QueueOK(Tail(q), held, p, bufs)
<1> DEFINE a == Tail(q)
<1>1. \A i \in DOMAIN a : i \in Nat /\ i + 1 \in DOMAIN q /\ a[i] = q[i + 1]
  BY TailTask
<1> HIDE DEF a
<1>2. \A i, j \in DOMAIN a : a[i].op = "start" /\ a[i].sub = a[j].sub => i = j
  <2> SUFFICES ASSUME NEW i \in DOMAIN a, NEW j \in DOMAIN a, a[i].op = "start",
                      a[i].sub = a[j].sub
               PROVE  i = j
    OBVIOUS
  <2>1. i + 1 = j + 1
    BY <1>1 DEF QueueOK
  <2> QED BY <1>1, <2>1
<1>3. \A i \in DOMAIN a : a[i].op = "start" =>
         a[i].sub \notin held /\ \A b \in bufs : b.owner = p => b.sub # a[i].sub
  BY <1>1 DEF QueueOK
<1>4. \A i \in DOMAIN a : a[i].op = "unsubscribe" =>
         \A b \in bufs : b.owner = p /\ b.sub = a[i].sub => b.recs = {}
  BY <1>1 DEF QueueOK
<1> QED BY <1>2, <1>3, <1>4 DEF QueueOK, a

\* The task to start a recording is executed.
LEMMA StartExecuted ==
  ASSUME NEW q \in Seq(Task), q # <<>>, NEW held, NEW p, NEW bufs, QueueOK(q, held, p, bufs),
         Head(q).op = "start", NEW nb, nb.owner = p, nb.sub = Head(q).sub
  PROVE  QueueOK(Tail(q), held \cup {Head(q).sub}, p, bufs \cup {nb})
<1> DEFINE a == Tail(q)
           s == Head(q).sub
<1>1. QueueOK(a, held, p, bufs)
  BY QueueTail
<1>2. /\ 1 \in DOMAIN q /\ q[1].op = "start" /\ q[1].sub = s
      /\ \A i \in DOMAIN a : i \in Nat /\ i + 1 \in DOMAIN q /\ a[i] = q[i + 1]
  BY TailTask
<1> HIDE DEF a, s
<1>3. \A i \in DOMAIN a : i \in Nat /\ a[i].sub # s
  <2> SUFFICES ASSUME NEW i \in DOMAIN a, a[i].sub = s
               PROVE  FALSE
    BY <1>2
  <2>1. i + 1 = 1 /\ i \in Nat
    BY <1>2 DEF QueueOK
  <2>2. a = Tail(q) /\ i \in DOMAIN Tail(q)
    BY DEF a
  <2>3. i \in 1 .. Len(Tail(q))
    BY <2>2, TailTask, LenProperties
  <2> QED BY <2>1, <2>3
<1>4. nb.sub = s
  BY DEF s
<1> HIDE DEF QueueOK
<1>5. \A i, j \in DOMAIN a : a[i].op = "start" /\ a[i].sub = a[j].sub => i = j
  BY <1>1 DEF QueueOK
<1>6. \A i \in DOMAIN a : a[i].op = "start" =>
         a[i].sub \notin held \cup {s} /\ \A b \in bufs \cup {nb} : b.owner = p => b.sub # a[i].sub
  BY <1>1, <1>3, <1>4 DEF QueueOK
<1>7. \A i \in DOMAIN a : a[i].op = "unsubscribe" =>
         \A b \in bufs \cup {nb} : b.owner = p /\ b.sub = a[i].sub => b.recs = {}
  BY <1>1, <1>3, <1>4 DEF QueueOK
<1> QED BY <1>5, <1>6, <1>7 DEF QueueOK, a, s

-----------------------------------------------------------------------------
(* Tasks against recordings.                                               *)

\* The recordings in progress of process p, but that of subscription but, go on.
GoesOn(db, new, p, but) ==
  \A s \in Nat \ but : (\E k \in Key : db[k] = InProgress(p, s))
                       => \E k \in Key : new[k] = InProgress(p, s)

\* What the database no longer accounts for is released.
LEMMA KeptOn ==
  ASSUME NEW q \in Seq(Task), NEW held \in SUBSET Nat, NEW p, NEW db, Kept(db, q, held, p),
         NEW new, GoesOn(db, new, p, {})
  PROVE  Kept(new, q, held, p)
<1>1. \A i \in DOMAIN q : q[i].sub \in Nat
  BY TaskOf
<1> QED BY <1>1 DEF Kept, GoesOn

\* A task is added: one to start a recording that is marked as in progress, or
\* one to release the subscription of a recording that is over.
LEMMA KeptAppend ==
  ASSUME NEW q \in Seq(Task), NEW held \in SUBSET Nat, NEW p, NEW db, Kept(db, q, held, p),
         NEW t \in Task, NEW new, NEW but, GoesOn(db, new, p, but),
         \/ but = {} /\ \E k \in Key : new[k] = InProgress(p, t.sub)
         \/ but = {t.sub} /\ t.op = "unsubscribe"
  PROVE  Kept(new, Append(q, t), held, p)
<1> DEFINE a == Append(q, t)
           n == Len(q) + 1
<1>1. /\ n \in DOMAIN a /\ a[n] = t
      /\ \A i \in DOMAIN q : i \in DOMAIN a /\ a[i] = q[i]
      /\ \A i \in DOMAIN a : i = n \/ (i \in DOMAIN q /\ a[i] = q[i])
  BY AppendTask
<1>2. \A i \in DOMAIN q : q[i].sub \in Nat
  BY TaskOf
<1>3. t.sub \in Nat
  BY DEF Task
<1> HIDE DEF a, n
<1>4. \A s : Released(q, s) => Released(a, s)
  BY <1>1 DEF Released
<1>5. t.op = "unsubscribe" => Released(a, t.sub)
  BY <1>1 DEF Released
<1>6. ASSUME NEW s \in Nat, Released(q, s) \/ \E k \in Key : db[k] = InProgress(p, s)
      PROVE  Released(a, s) \/ \E k \in Key : new[k] = InProgress(p, s)
  BY <1>4, <1>5, <1>6 DEF GoesOn
<1>7. Released(a, t.sub) \/ \E k \in Key : new[k] = InProgress(p, t.sub)
  BY <1>5
<1>8. \A s \in held : Released(a, s) \/ \E k \in Key : new[k] = InProgress(p, s)
  BY <1>6 DEF Kept
<1>9. \A i \in DOMAIN a :
         Released(a, a[i].sub) \/ \E k \in Key : new[k] = InProgress(p, a[i].sub)
  <2> SUFFICES ASSUME NEW i \in DOMAIN a
               PROVE  Released(a, a[i].sub) \/ \E k \in Key : new[k] = InProgress(p, a[i].sub)
    OBVIOUS
  <2>1. CASE i = n
    BY <1>1, <1>7, <2>1
  <2>2. CASE i \in DOMAIN q /\ a[i] = q[i]
    BY <1>2, <1>6, <2>2 DEF Kept
  <2> QED BY <1>1, <2>1, <2>2
<1> QED BY <1>8, <1>9 DEF Kept, a

\* The recording that is over is that of a subscription that is released.
LEMMA KeptReleased ==
  ASSUME NEW q \in Seq(Task), NEW held \in SUBSET Nat, NEW p, NEW db, Kept(db, q, held, p),
         NEW new, NEW s, Released(q, s), GoesOn(db, new, p, {s})
  PROVE  Kept(new, q, held, p)
<1>1. \A i \in DOMAIN q : q[i].sub \in Nat
  BY TaskOf
<1>2. ASSUME NEW x \in Nat, Released(q, x) \/ \E k \in Key : db[k] = InProgress(p, x)
      PROVE  Released(q, x) \/ \E k \in Key : new[k] = InProgress(p, x)
  BY <1>2 DEF GoesOn
<1> QED BY <1>1, <1>2 DEF Kept

\* A task is executed.
LEMMA KeptTail ==
  ASSUME NEW q \in Seq(Task), q # <<>>, NEW held \in SUBSET Nat, NEW p, NEW bufs,
         QueueOK(q, held, p, bufs), NEW db, Kept(db, q, held, p), NEW now_held,
         \/ Head(q).op = "start" /\ now_held \in {held, held \cup {Head(q).sub}}
         \/ Head(q).op = "unsubscribe" /\ now_held = held \ {Head(q).sub}
  PROVE  Kept(db, Tail(q), now_held, p)
<1> DEFINE a == Tail(q)
           t == Head(q)
<1>1. /\ 1 \in DOMAIN q /\ q[1] = t
      /\ \A i \in DOMAIN a : i \in Nat /\ i + 1 \in DOMAIN q /\ a[i] = q[i + 1]
      /\ \A i \in DOMAIN q : i # 1 => i - 1 \in DOMAIN a /\ a[i - 1] = q[i]
  BY TailTask
<1>2. \A i \in DOMAIN a : i + 1 # 1
  <2>1. DOMAIN a = 1 .. Len(a) /\ Len(a) \in Nat
    BY TailTask, LenProperties
  <2> QED BY <2>1
<1>3. \A i \in DOMAIN a : a[i].op \in {"start", "unsubscribe"}
  <2>1. a \in Seq(Task)
    BY TailTask
  <2> QED BY <2>1, TaskOf
<1> HIDE DEF a, t
<1>4. \A s : Released(q, s) => Released(a, s) \/ (t.op = "unsubscribe" /\ s = t.sub)
  <2> SUFFICES ASSUME NEW s, Released(q, s), ~(t.op = "unsubscribe" /\ s = t.sub)
               PROVE  Released(a, s)
    OBVIOUS
  <2>1. PICK i \in DOMAIN q : q[i].op = "unsubscribe" /\ q[i].sub = s
    BY DEF Released
  <2>2. i # 1
    BY <1>1, <2>1
  <2> QED BY <1>1, <2>1, <2>2 DEF Released
<1>5. \A i \in DOMAIN a : a[i].sub = t.sub => Released(a, t.sub) \/ t.op # "unsubscribe"
  <2> SUFFICES ASSUME NEW i \in DOMAIN a, a[i].sub = t.sub, t.op = "unsubscribe"
               PROVE  Released(a, t.sub)
    OBVIOUS
  <2>1. a[i].op # "start"
    BY <1>1, <1>2 DEF QueueOK
  <2> QED BY <1>3, <2>1 DEF Released
<1>6. \A s \in now_held : Released(a, s) \/ \E k \in Key : db[k] = InProgress(p, s)
  <2> SUFFICES ASSUME NEW s \in now_held
               PROVE  Released(a, s) \/ \E k \in Key : db[k] = InProgress(p, s)
    OBVIOUS
  <2>1. /\ s \in held \/ (s = t.sub /\ t.op = "start")
        /\ t.op = "unsubscribe" => s # t.sub
    BY DEF t
  <2>2. Released(q, s) \/ \E k \in Key : db[k] = InProgress(p, s)
    BY <1>1, <2>1 DEF Kept
  <2> QED BY <1>4, <2>1, <2>2
<1>7. \A i \in DOMAIN a :
         Released(a, a[i].sub) \/ \E k \in Key : db[k] = InProgress(p, a[i].sub)
  <2> SUFFICES ASSUME NEW i \in DOMAIN a
               PROVE  Released(a, a[i].sub) \/ \E k \in Key : db[k] = InProgress(p, a[i].sub)
    OBVIOUS
  <2>1. Released(q, a[i].sub) \/ \E k \in Key : db[k] = InProgress(p, a[i].sub)
    BY <1>1 DEF Kept
  <2> QED BY <1>4, <1>5, <2>1
<1> QED BY <1>6, <1>7 DEF Kept, a

-----------------------------------------------------------------------------
(* What the steps do to the tasks.                                         *)

\* Only process p has other tasks than before.
OthersTodo(p) == \A q \in Pid \ {p} : Todo(q)' = Todo(q)

\* The tasks of a process are a sequence of tasks; those that were pushed, when
\* recmgr is between two operations.
LEMMA TodoOf ==
  ASSUME TodoTypes, NEW p \in Pid
  PROVE  /\ Todo(p) \in Seq(Task) /\ rq[p] \in Seq(Task) /\ pend[p] \in PendType
         /\ pend[p].task \in Seq(Task)
         /\ pend[p] = NoPend => Todo(p) = rq[p]
<1>1. rq[p] \in Seq(Task) /\ pend[p] \in PendType
  BY DEF TodoTypes
<1>2. pend[p].task \in Seq(Task)
  BY <1>1 DEF PendType
<1>3. pend[p] = NoPend => pend[p].task = <<>>
  BY DEF NoPend
<1> QED BY <1>1, <1>2, <1>3, TodoFacts DEF Todo

\* NoPend is a value of pend.
LEMMA NoPendType == NoPend \in PendType
<1>1. <<>> \in Seq(Task)
  OBVIOUS
<1> QED BY <1>1 DEF NoPend, PendType

\* recmgr is about to push a task.
LEMMA PushTask ==
  ASSUME TodoTypes, NEW p \in Pid, pend[p] = NoPend, NEW t \in Task, NEW k \in Key,
         NEW st \in {"NONE", "IN_PROGRESS", "COPYING", "LINKED", "FINISHED"},
         pend' = [pend EXCEPT ![p] = [key |-> k, status |-> st, task |-> <<t>>]], rq' = rq
  PROVE  TodoTypes' /\ OthersTodo(p) /\ Todo(p)' = Append(Todo(p), t)
<1> DEFINE d == [key |-> k, status |-> st, task |-> <<t>>]
<1>1. <<t>> \in Seq(Task)
  OBVIOUS
<1>2. d \in PendType /\ d.task = <<t>>
  BY <1>1 DEF PendType
<1> HIDE DEF d
<1>3. pend \in [Pid -> PendType] /\ pend' = [pend EXCEPT ![p] = d]
  BY DEF TodoTypes, d
<1>4. pend' \in [Pid -> PendType] /\ pend'[p] = d /\ \A q \in Pid \ {p} : pend'[q] = pend[q]
  BY <1>2, <1>3
<1>5. TodoTypes'
  BY <1>4 DEF TodoTypes
<1>6. OthersTodo(p)
  BY <1>4 DEF OthersTodo, Todo
<1>7. Todo(p)' = rq[p] \o <<t>>
  BY <1>2, <1>4 DEF Todo
<1>8. Todo(p) = rq[p] /\ rq[p] \in Seq(Task)
  BY TodoOf
<1>9. rq[p] \o <<t>> = Append(rq[p], t)
  BY <1>8, TodoFacts
<1> QED BY <1>5, <1>6, <1>7, <1>8, <1>9

\* The receiver thread takes a task.
LEMMA TakeTask ==
  ASSUME TodoTypes, NEW p \in Pid, rq[p] # <<>>, rq' = [rq EXCEPT ![p] = Tail(@)], pend' = pend
  PROVE  /\ TodoTypes' /\ OthersTodo(p)
         /\ Todo(p) # <<>> /\ Head(Todo(p)) = Head(rq[p]) /\ Todo(p)' = Tail(Todo(p))
<1>1. rq \in [Pid -> Seq(Task)] /\ rq[p] \in Seq(Task) /\ pend[p].task \in Seq(Task)
  BY TodoOf DEF TodoTypes
<1>2. Tail(rq[p]) \in Seq(Task)
  BY <1>1, TailTask
<1>3. /\ rq' \in [Pid -> Seq(Task)] /\ rq'[p] = Tail(rq[p])
      /\ \A q \in Pid \ {p} : rq'[q] = rq[q]
  BY <1>1, <1>2
<1>4. TodoTypes'
  BY <1>3 DEF TodoTypes
<1>5. OthersTodo(p)
  BY <1>3 DEF OthersTodo, Todo
<1>6. Todo(p)' = Tail(rq[p]) \o pend[p].task
  BY <1>3 DEF Todo
<1>7. /\ rq[p] \o pend[p].task # <<>> /\ Head(rq[p] \o pend[p].task) = Head(rq[p])
      /\ Tail(rq[p] \o pend[p].task) = Tail(rq[p]) \o pend[p].task
  BY <1>1, TodoFacts
<1> QED BY <1>4, <1>5, <1>6, <1>7 DEF Todo

\* A process that ends has no tasks.
LEMMA ForgetTasks ==
  ASSUME TodoTypes, NEW p \in Pid, Dies(p)
  PROVE  TodoTypes' /\ OthersTodo(p) /\ Todo(p)' = <<>>
<1>1. pend \in [Pid -> PendType] /\ rq \in [Pid -> Seq(Task)]
  BY DEF TodoTypes
<1>2. /\ pend' \in [Pid -> PendType] /\ pend'[p] = NoPend
      /\ \A q \in Pid \ {p} : pend'[q] = pend[q]
  BY <1>1, NoPendType DEF Dies
<1>3. /\ rq' \in [Pid -> Seq(Task)] /\ rq'[p] = <<>>
      /\ \A q \in Pid \ {p} : rq'[q] = rq[q]
  BY <1>1 DEF Dies
<1>4. TodoTypes'
  BY <1>2, <1>3 DEF TodoTypes
<1>5. OthersTodo(p)
  BY <1>2, <1>3 DEF OthersTodo, Todo
<1>6. pend'[p].task = <<>>
  BY <1>2 DEF NoPend
<1>7. <<>> \o <<>> = <<>>
  OBVIOUS
<1> QED BY <1>3, <1>4, <1>5, <1>6, <1>7 DEF Todo

\* recmgr pushes its task.
LEMMA TaskPushed ==
  ASSUME TodoTypes, NEW p \in Pid, rq' = [rq EXCEPT ![p] = @ \o pend[p].task],
         pend' = [pend EXCEPT ![p] = NoPend]
  PROVE  TodoTypes' /\ \A q \in Pid : Todo(q)' = Todo(q)
<1>1. /\ pend \in [Pid -> PendType] /\ rq \in [Pid -> Seq(Task)]
      /\ rq[p] \o pend[p].task \in Seq(Task)
  BY TodoOf DEF TodoTypes, Todo
<1>2. /\ pend' \in [Pid -> PendType] /\ pend'[p] = NoPend
      /\ \A q \in Pid \ {p} : pend'[q] = pend[q]
  BY <1>1, NoPendType
<1>3. /\ rq' \in [Pid -> Seq(Task)] /\ rq'[p] = rq[p] \o pend[p].task
      /\ \A q \in Pid \ {p} : rq'[q] = rq[q]
  BY <1>1
<1>4. TodoTypes'
  BY <1>2, <1>3 DEF TodoTypes
<1>5. ASSUME NEW q \in Pid, q # p PROVE Todo(q)' = Todo(q)
  BY <1>2, <1>3, <1>5 DEF Todo
<1>6. pend'[p].task = <<>>
  BY <1>2 DEF NoPend
<1>7. Todo(p)' = Todo(p)
  BY <1>1, <1>3, <1>6, TodoFacts DEF Todo
<1> QED BY <1>4, <1>5, <1>7

\* recmgr has something to do that is not a task.
LEMMA NothingToPush ==
  ASSUME TodoTypes, NEW p \in Pid, pend[p] = NoPend, NEW k \in Key, rq' = rq,
         pend' = [pend EXCEPT ![p] = [key |-> k, status |-> "NONE", task |-> <<>>]]
  PROVE  TodoTypes' /\ \A q \in Pid : Todo(q)' = Todo(q)
<1> DEFINE d == [key |-> k, status |-> "NONE", task |-> <<>>]
<1>1. <<>> \in Seq(Task)
  OBVIOUS
<1>2. d \in PendType /\ d.task = <<>> /\ pend[p].task = <<>>
  BY <1>1 DEF PendType, NoPend
<1> HIDE DEF d
<1>3. pend \in [Pid -> PendType] /\ pend' = [pend EXCEPT ![p] = d]
  BY DEF TodoTypes, d
<1>4. pend' \in [Pid -> PendType] /\ pend'[p] = d /\ \A q \in Pid \ {p} : pend'[q] = pend[q]
  BY <1>2, <1>3
<1>5. TodoTypes'
  BY <1>4 DEF TodoTypes
<1>6. \A q \in Pid : pend'[q].task = pend[q].task
  BY <1>2, <1>4
<1> QED BY <1>5, <1>6 DEF Todo

-----------------------------------------------------------------------------
(* What the steps do to the adapters and buffers.                          *)

\* Only process p has other adapters than before, or more in its buffers.
OthersHeld(p) == \A q \in Pid \ {p} : aa'[q] = aa[q] /\ Shrinks(q, lb, lb')

\* Only process p is concerned.
LEMMA OneProcess ==
  ASSUME QueueInv, NEW p \in Pid, OthersTodo(p), OthersHeld(p),
         QueueOK(Todo(p)', aa'[p], p, lb'), BuffersOK(lb')
  PROVE  QueueInv'
<1>1. ASSUME NEW q \in Pid, q # p
      PROVE  QueueOK(Todo(q)', aa'[q], q, lb')
  <2>1. Todo(q)' = Todo(q) /\ aa'[q] = aa[q] /\ Shrinks(q, lb, lb')
    BY <1>1 DEF OthersTodo, OthersHeld
  <2>2. QueueOK(Todo(q), aa[q], q, lb)
    BY DEF QueueInv
  <2>3. QueueOK(Todo(q), aa[q], q, lb')
    BY <2>1, <2>2, QueueShrinks
  <2> QED BY <2>1, <2>3
<1>2. \A q \in Pid : QueueOK(Todo(q)', aa'[q], q, lb')
  BY <1>1
<1> QED BY <1>2 DEF QueueInv

\* Nothing happens to the tasks, the adapters and the buffers.
LEMMA TasksSame ==
  ASSUME TaskTypes, QueueInv, TodoTypes', \A q \in Pid : Todo(q)' = Todo(q), aa' = aa, lb' = lb
  PROVE  TaskTypes' /\ QueueInv'
<1>1. TaskTypes'
  BY DEF TaskTypes, HeldTypes
<1>2. \A q \in Pid : QueueOK(Todo(q)', aa'[q], q, lb')
  BY DEF QueueInv
<1> QED BY <1>1, <1>2 DEF QueueInv

\* Fewer buffers, or emptier ones.
Fewer(new) ==
  /\ new \in SUBSET Buffer /\ IsFiniteSet(new) /\ BuffersOK(new)
  /\ \A q \in Pid : Shrinks(q, lb, new)

\* Buffers that are kept as they are.
LEMMA SubsetFewer ==
  ASSUME TaskTypes, QueueInv, NEW new \in SUBSET lb
  PROVE  Fewer(new)
<1>1. new \in SUBSET Buffer /\ IsFiniteSet(new)
  BY FS_Subset DEF TaskTypes, HeldTypes
<1>2. BuffersOK(new)
  BY DEF QueueInv, BuffersOK
<1>3. \A q \in Pid : Shrinks(q, lb, new)
  BY DEF Shrinks
<1> QED BY <1>1, <1>2, <1>3 DEF Fewer

\* A process ends; its buffers stay, or some are emptied.
LEMMA TasksEnd ==
  ASSUME TaskTypes, QueueInv, NEW p \in Pid, Dies(p), Fewer(lb')
  PROVE  TaskTypes' /\ QueueInv'
<1>1. TodoTypes' /\ OthersTodo(p) /\ Todo(p)' = <<>>
  BY ForgetTasks DEF TaskTypes
<1>2. aa \in [Pid -> SUBSET Nat] /\ (\A q \in Pid : IsFiniteSet(aa[q])) /\ aa' = [aa EXCEPT ![p] = {}]
  BY DEF TaskTypes, HeldTypes, Dies
<1>3. aa' \in [Pid -> SUBSET Nat] /\ aa'[p] = {} /\ \A q \in Pid \ {p} : aa'[q] = aa[q]
  BY <1>2
<1>4. \A q \in Pid : IsFiniteSet(aa'[q])
  BY <1>2, <1>3, FS_EmptySet
<1>5. TaskTypes'
  BY <1>1, <1>3, <1>4 DEF TaskTypes, HeldTypes, Fewer
<1>6. OthersHeld(p) /\ BuffersOK(lb')
  BY <1>3 DEF OthersHeld, Fewer
<1>7. QueueOK(Todo(p)', aa'[p], p, lb')
  BY <1>1 DEF QueueOK
<1> QED BY <1>1, <1>5, <1>6, <1>7, OneProcess

\* The tuner threads of an ending process empty its buffers.
LEMMA ExitFewer ==
  ASSUME TaskTypes, QueueInv, NEW p \in Pid
  PROVE  Fewer({IF b.owner = p THEN [b EXCEPT !.recs = {}] ELSE b : b \in lb})
<1> DEFINE f == [b \in lb |-> IF b.owner = p THEN [b EXCEPT !.recs = {}] ELSE b]
           new == {f[b] : b \in lb}
<1>0. lb \in SUBSET Buffer /\ IsFiniteSet(lb) /\ BuffersOK(lb)
  BY DEF TaskTypes, HeldTypes, QueueInv
<1>1. \A b \in lb : /\ f[b] \in Buffer /\ f[b].owner = b.owner /\ f[b].sub = b.sub
                    /\ f[b].recs \subseteq b.recs
  <2> SUFFICES ASSUME NEW b \in Buffer
               PROVE  LET e == [b EXCEPT !.recs = {}] IN
                      /\ e \in Buffer /\ e.owner = b.owner /\ e.sub = b.sub
                      /\ e.recs = {} /\ b.recs \subseteq b.recs
    BY <1>0
  <2> QED BY DEF Buffer
<1>2. DOMAIN f = lb
  OBVIOUS
<1> HIDE DEF f
<1>3. new \in SUBSET Buffer /\ IsFiniteSet(new)
  BY <1>0, <1>1, <1>2, ImageFinite
<1>4. BuffersOK(new)
  <2>1. ASSUME NEW b \in lb, NEW c \in lb, f[b].owner = f[c].owner, f[b].sub = f[c].sub
        PROVE  f[b] = f[c]
    BY <1>0, <1>1, <2>1 DEF BuffersOK
  <2>2. \A b \in lb : \A j, k \in f[b].recs : j = k
    BY <1>0, <1>1 DEF BuffersOK
  <2> QED BY <2>1, <2>2 DEF BuffersOK
<1>5. \A q \in Pid : Shrinks(q, lb, new)
  BY <1>1 DEF Shrinks
<1>6. new = {IF b.owner = p THEN [b EXCEPT !.recs = {}] ELSE b : b \in lb}
  BY DEF f
<1>7. Fewer(new)
  BY <1>3, <1>4, <1>5 DEF Fewer
<1> QED BY <1>6, <1>7

\* Buffers of processes that no longer run are removed.
LEMMA TasksCleaned ==
  ASSUME TaskTypes, QueueInv, UNCHANGED <<pend, rq, aa>>, lb' \in SUBSET lb
  PROVE  TaskTypes' /\ QueueInv'
<1>1. Fewer(lb')
  BY SubsetFewer
<1>2. TaskTypes'
  BY <1>1 DEF TaskTypes, TodoTypes, HeldTypes, Fewer
<1>3. ASSUME NEW q \in Pid PROVE QueueOK(Todo(q)', aa'[q], q, lb')
  <2>1. Todo(q)' = Todo(q) /\ aa'[q] = aa[q] /\ Shrinks(q, lb, lb')
    BY <1>1 DEF Todo, Fewer
  <2>2. QueueOK(Todo(q), aa[q], q, lb)
    BY DEF QueueInv
  <2>3. QueueOK(Todo(q), aa[q], q, lb')
    BY <2>1, <2>2, QueueShrinks
  <2> QED BY <2>1, <2>3
<1> QED BY <1>1, <1>2, <1>3 DEF QueueInv, Fewer

\* recmgr is about to push task t; a recording leaves its buffer.
PendTask(p, k, st, t) ==
  pend' = [pend EXCEPT ![p] = [key |-> k, status |-> st, task |-> <<t>>]] /\ rq' = rq
TaskIs(t, op, k, s) == t = [op |-> op, key |-> k, sub |-> s]
Leaves(k, b) == lb' = (lb \ {b}) \cup {[b EXCEPT !.recs = @ \ {k}]}

\* start_recordings: the task to start a recording, under a new id.
LEMMA TasksStart ==
  ASSUME TaskTypes, QueueInv, rec \in [Key -> GoodRec], NEW p \in Pid, pend[p] = NoPend,
         NEW k \in Key, NEW s, s = next_subscription_id(p), NEW t, TaskIs(t, "start", k, s),
         PendTask(p, k, "IN_PROGRESS", t), aa' = aa, lb' = lb
  PROVE  /\ TaskTypes' /\ QueueInv' /\ OthersTodo(p) /\ Todo(p)' = Append(Todo(p), t)
         /\ t \in Task /\ s \in Nat /\ t.sub = s
<1>1. s \in Nat /\ s \notin subs_of(p)
  BY FreshSub
<1>2. t \in Task /\ t.op = "start" /\ t.sub = s
  BY <1>1 DEF Task, TaskIs
<1>3. TodoTypes' /\ OthersTodo(p) /\ Todo(p)' = Append(Todo(p), t)
  BY <1>2, PushTask DEF TaskTypes, PendTask
<1>4. TaskTypes'
  BY <1>3 DEF TaskTypes, HeldTypes
<1>5. Todo(p) = rq[p] /\ Todo(p) \in Seq(Task)
  BY TodoOf DEF TaskTypes
<1>6. s \notin aa[p] /\ \A b \in lb : b.owner = p => b.sub # s
  BY <1>1 DEF subs_of
<1>7. \A i \in DOMAIN Todo(p) : Todo(p)[i].sub # s
  BY <1>1, <1>5 DEF subs_of
<1>8. QueueOK(Todo(p), aa[p], p, lb) /\ BuffersOK(lb)
  BY DEF QueueInv
<1>9. QueueOK(Append(Todo(p), t), aa[p], p, lb)
  BY <1>2, <1>5, <1>6, <1>7, <1>8, StartQueued
<1>10. OthersHeld(p)
  BY DEF OthersHeld, Shrinks
<1>11. QueueInv'
  BY <1>3, <1>8, <1>9, <1>10, OneProcess
<1> QED BY <1>1, <1>2, <1>3, <1>4, <1>11

\* stop_recording: the recording leaves its buffer, which is empty then, and the
\* adapter is to be released.
LEMMA TasksStop ==
  ASSUME TaskTypes, QueueInv, NEW p \in Pid, pend[p] = NoPend, NEW k \in Key,
         NEW s \in aa[p], NEW b \in buffer(p, s), k \in b.recs,
         Leaves(k, b), NEW t, TaskIs(t, "unsubscribe", k, s),
         PendTask(p, k, "COPYING", t), aa' = aa
  PROVE  /\ TaskTypes' /\ QueueInv' /\ OthersTodo(p) /\ Todo(p)' = Append(Todo(p), t)
         /\ t \in Task /\ t.op = "unsubscribe" /\ t.sub = s
<1> DEFINE e == [b EXCEPT !.recs = @ \ {k}]
<1>0. /\ aa \in [Pid -> SUBSET Nat] /\ lb \in SUBSET Buffer /\ IsFiniteSet(lb) /\ BuffersOK(lb)
      /\ QueueOK(Todo(p), aa[p], p, lb)
  BY DEF TaskTypes, HeldTypes, QueueInv
<1>1. t \in Task /\ t.op = "unsubscribe" /\ t.sub = s
  BY <1>0 DEF Task, TaskIs
<1>2. TodoTypes' /\ OthersTodo(p) /\ Todo(p)' = Append(Todo(p), t)
  BY <1>1, PushTask DEF TaskTypes, PendTask
<1>3. b \in lb /\ b \in Buffer /\ b.owner = p /\ b.sub = s
  BY <1>0 DEF buffer
<1>4. b.recs = {k}
  BY <1>0, <1>3 DEF BuffersOK
<1>5. e \in Buffer /\ e.owner = p /\ e.sub = s /\ e.recs = {}
  BY <1>3, <1>4 DEF Buffer
<1>6. lb' = (lb \ {b}) \cup {e}
  BY DEF Leaves
<1> HIDE DEF e
<1>7. lb' \in SUBSET Buffer /\ IsFiniteSet(lb')
  <2>1. IsFiniteSet(lb \ {b})
    BY <1>0, FS_Subset
  <2>2. IsFiniteSet((lb \ {b}) \cup {e})
    BY <2>1, FS_AddElement
  <2> QED BY <1>0, <1>5, <1>6, <2>2
<1>8. BuffersOK(lb')
  BY <1>0, <1>3, <1>5, <1>6 DEF BuffersOK
<1>9. \A q \in Pid : Shrinks(q, lb, lb')
  BY <1>3, <1>5, <1>6 DEF Shrinks
<1>10. TaskTypes'
  BY <1>2, <1>7 DEF TaskTypes, HeldTypes
<1>11. \A c \in lb' : c.owner = p /\ c.sub = s => c.recs = {}
  BY <1>0, <1>3, <1>5, <1>6 DEF BuffersOK
<1>12. QueueOK(Todo(p), aa[p], p, lb')
  BY <1>0, <1>9, QueueShrinks
<1>13. Todo(p) \in Seq(Task)
  BY TodoOf DEF TaskTypes
<1>14. QueueOK(Append(Todo(p), t), aa[p], p, lb')
  BY <1>1, <1>11, <1>12, <1>13, UnsubscribeQueued
<1>15. OthersHeld(p)
  BY <1>9 DEF OthersHeld
<1>16. QueueInv'
  BY <1>2, <1>8, <1>14, <1>15, OneProcess
<1> QED BY <1>1, <1>2, <1>10, <1>16

\* start_recording in the receiver thread.
LEMMA TasksStarted ==
  ASSUME TaskTypes, QueueInv, NEW p \in Pid, StartTask(p)
  PROVE  /\ TaskTypes' /\ QueueInv' /\ OthersTodo(p) /\ Todo(p)' = Tail(Todo(p))
         /\ Todo(p) # <<>> /\ Head(Todo(p)).op = "start"
         /\ aa'[p] \in {aa[p], aa[p] \cup {Head(Todo(p)).sub}}
         /\ \A q \in Pid \ {p} : aa'[q] = aa[q]
<1> DEFINE t == Head(Todo(p))
           nb == [owner |-> p, sub |-> t.sub, recs |-> {t.key}]
<1>0. /\ aa \in [Pid -> SUBSET Nat] /\ lb \in SUBSET Buffer /\ IsFiniteSet(lb) /\ BuffersOK(lb)
      /\ QueueOK(Todo(p), aa[p], p, lb) /\ \A q \in Pid : IsFiniteSet(aa[q])
  BY DEF TaskTypes, HeldTypes, QueueInv
<1>1. rq[p] # <<>> /\ rq' = [rq EXCEPT ![p] = Tail(@)] /\ pend' = pend /\ Head(rq[p]).op = "start"
  BY DEF StartTask
<1>2. /\ TodoTypes' /\ OthersTodo(p) /\ Todo(p) # <<>> /\ Todo(p)' = Tail(Todo(p))
      /\ t = Head(rq[p])
  BY <1>1, TakeTask DEF TaskTypes
<1>3. Todo(p) \in Seq(Task)
  BY TodoOf DEF TaskTypes
<1>4. t \in Task /\ t = Todo(p)[1] /\ 1 \in DOMAIN Todo(p)
  BY <1>2, <1>3, TailTask
<1>5. t.sub \in Nat /\ t.key \in Key /\ t.op = "start"
  BY <1>1, <1>2, <1>4 DEF Task
<1>6. t.sub \notin aa[p] /\ \A b \in lb : b.owner = p => b.sub # t.sub
  BY <1>0, <1>4, <1>5 DEF QueueOK
<1>7. nb \in Buffer /\ nb.owner = p /\ nb.sub = t.sub /\ nb.recs = {t.key}
  BY <1>5 DEF Buffer
<1>8. \/ aa' = aa /\ lb' = lb
      \/ aa' = [aa EXCEPT ![p] = @ \cup {t.sub}] /\ lb' = lb \cup {nb}
  BY <1>2 DEF StartTask
<1> HIDE DEF nb, t
<1>9. CASE aa' = aa /\ lb' = lb
  <2>1. TaskTypes'
    BY <1>2, <1>9 DEF TaskTypes, HeldTypes
  <2>2. QueueOK(Tail(Todo(p)), aa[p], p, lb)
    BY <1>0, <1>2, <1>3, QueueTail
  <2>3. OthersHeld(p)
    BY <1>9 DEF OthersHeld, Shrinks
  <2>4. QueueInv'
    BY <1>0, <1>2, <1>9, <2>2, <2>3, OneProcess
  <2> QED BY <1>2, <1>5, <1>9, <2>1, <2>4 DEF t
<1>10. CASE aa' = [aa EXCEPT ![p] = @ \cup {t.sub}] /\ lb' = lb \cup {nb}
  <2>1. /\ aa' \in [Pid -> SUBSET Nat] /\ aa'[p] = aa[p] \cup {t.sub}
        /\ \A q \in Pid \ {p} : aa'[q] = aa[q]
    BY <1>0, <1>5, <1>10
  <2>2. IsFiniteSet(aa[p] \cup {t.sub}) /\ IsFiniteSet(lb \cup {nb})
    BY <1>0, FS_AddElement
  <2>3. \A q \in Pid : IsFiniteSet(aa'[q])
    BY <1>0, <2>1, <2>2
  <2>4. TaskTypes'
    BY <1>0, <1>2, <1>7, <1>10, <2>1, <2>2, <2>3 DEF TaskTypes, HeldTypes
  <2>5. QueueOK(Tail(Todo(p)), aa[p] \cup {t.sub}, p, lb \cup {nb})
    BY <1>0, <1>2, <1>3, <1>5, <1>7, StartExecuted DEF t
  <2>6. OthersHeld(p)
    BY <1>7, <1>10, <2>1 DEF OthersHeld, Shrinks
  <2>7. BuffersOK(lb')
    BY <1>0, <1>6, <1>7, <1>10 DEF BuffersOK
  <2>8. QueueInv'
    BY <1>2, <1>10, <2>1, <2>5, <2>6, <2>7, OneProcess
  <2> QED BY <1>2, <1>5, <2>1, <2>4, <2>8 DEF t
<1> QED BY <1>8, <1>9, <1>10

\* unsubscribe in the receiver thread: the buffer it removes is empty already.
LEMMA TasksReleased ==
  ASSUME TaskTypes, QueueInv, NEW p \in Pid, UnsubscribeTask(p)
  PROVE  /\ TaskTypes' /\ QueueInv' /\ OthersTodo(p) /\ Todo(p)' = Tail(Todo(p))
         /\ Todo(p) # <<>> /\ Head(Todo(p)).op = "unsubscribe"
         /\ aa'[p] = aa[p] \ {Head(Todo(p)).sub}
         /\ \A q \in Pid \ {p} : aa'[q] = aa[q]
         /\ lb' = lb
<1> DEFINE t == Head(Todo(p))
<1>0. /\ aa \in [Pid -> SUBSET Nat] /\ lb \in SUBSET Buffer /\ IsFiniteSet(lb) /\ BuffersOK(lb)
      /\ QueueOK(Todo(p), aa[p], p, lb) /\ \A q \in Pid : IsFiniteSet(aa[q])
  BY DEF TaskTypes, HeldTypes, QueueInv
<1>1. rq[p] # <<>> /\ rq' = [rq EXCEPT ![p] = Tail(@)] /\ pend' = pend /\ Head(rq[p]).op = "unsubscribe"
  BY DEF UnsubscribeTask
<1>2. /\ TodoTypes' /\ OthersTodo(p) /\ Todo(p) # <<>> /\ Todo(p)' = Tail(Todo(p))
      /\ t = Head(rq[p])
  BY <1>1, TakeTask DEF TaskTypes
<1>3. Todo(p) \in Seq(Task)
  BY TodoOf DEF TaskTypes
<1>4. t \in Task /\ t = Todo(p)[1] /\ 1 \in DOMAIN Todo(p) /\ t.op = "unsubscribe"
  BY <1>1, <1>2, <1>3, TailTask
<1>5. /\ aa' = [aa EXCEPT ![p] = @ \ {t.sub}]
      /\ lb' = (lb \ buffer(p, t.sub)) \cup {[b EXCEPT !.recs = {}] : b \in buffer(p, t.sub)}
  BY <1>2 DEF UnsubscribeTask
<1> HIDE DEF t
<1>6. \A b \in buffer(p, t.sub) : b \in Buffer /\ b.recs = {}
  BY <1>0, <1>4 DEF QueueOK, buffer
<1>7. \A b \in Buffer : b.recs = {} => [b EXCEPT !.recs = {}] = b
  BY DEF Buffer
<1>8. lb' = lb
  <2> DEFINE B == buffer(p, t.sub)
             N == {[b EXCEPT !.recs = {}] : b \in B}
  <2>1. B \subseteq lb
    BY DEF buffer
  <2>2. \A b \in B : [b EXCEPT !.recs = {}] = b
    BY <1>6, <1>7
  <2> HIDE DEF B
  <2>3. N = B
    BY <2>2
  <2>4. lb' = (lb \ B) \cup N
    BY <1>5 DEF B
  <2> QED BY <2>1, <2>3, <2>4
<1>9. /\ aa' \in [Pid -> SUBSET Nat] /\ aa'[p] = aa[p] \ {t.sub}
      /\ \A q \in Pid \ {p} : aa'[q] = aa[q]
  BY <1>0, <1>5
<1>10. \A q \in Pid : IsFiniteSet(aa'[q])
  <2>1. IsFiniteSet(aa[p] \ {t.sub})
    BY <1>0, FS_Subset
  <2> QED BY <1>0, <1>9, <2>1
<1>11. TaskTypes'
  BY <1>0, <1>2, <1>8, <1>9, <1>10 DEF TaskTypes, HeldTypes
<1>12. OthersHeld(p)
  BY <1>8, <1>9 DEF OthersHeld, Shrinks
<1>13. QueueOK(Tail(Todo(p)), aa[p], p, lb)
  BY <1>0, <1>2, <1>3, QueueTail
<1>14. Shrinks(p, lb, lb)
  BY DEF Shrinks
<1>15. QueueOK(Tail(Todo(p)), aa'[p], p, lb)
  BY <1>9, <1>13, <1>14, QueueShrinks
<1>16. QueueInv'
  BY <1>0, <1>2, <1>8, <1>12, <1>15, OneProcess
<1> QED BY <1>2, <1>4, <1>8, <1>9, <1>11, <1>16 DEF t

-----------------------------------------------------------------------------
(* Records and the copies of them.                                         *)

\* The records the code makes.
LEMMA NewRecords ==
  /\ NoRec \in GoodRec /\ NoRec.status = "NONE"
  /\ Scheduled \in GoodRec /\ Scheduled.status = "SCHEDULED"
  /\ [NoRec EXCEPT !.status = "FINISHED"] \in GoodRec
  /\ [NoRec EXCEPT !.status = "FINISHED"].status = "FINISHED"
  /\ \A r \in GoodRec : r.status = "SCHEDULED" => r = Scheduled
  /\ \A r \in GoodRec : r.status = "SCHEDULED" =>
       /\ [r EXCEPT !.status = "FAILED"] \in GoodRec
       /\ [r EXCEPT !.status = "FAILED"].status = "FAILED"
  /\ \A p \in Pid, s \in Nat :
       InProgress(p, s) \in GoodRec /\ InProgress(p, s).status = "IN_PROGRESS"
<1>1. NoRec = [status |-> "NONE", owner |-> 0, sub |-> 0]
  BY DEF NoRec, NoPid, NoSub
<1>2. Scheduled = [status |-> "SCHEDULED", owner |-> 0, sub |-> 0]
  BY <1>1 DEF Scheduled
<1>3. [NoRec EXCEPT !.status = "FINISHED"] = [status |-> "FINISHED", owner |-> 0, sub |-> 0]
  BY <1>1
<1>4. \A r \in GoodRec : r \in RecType /\ (r.status # "IN_PROGRESS" => r.owner = 0 /\ r.sub = 0)
  BY DEF GoodRec, NoPid, NoSub
<1>5. ASSUME NEW r \in GoodRec, r.status = "SCHEDULED"
      PROVE  r = Scheduled
  BY <1>2, <1>4, <1>5 DEF RecType
<1>6. [Scheduled EXCEPT !.status = "FAILED"] = [status |-> "FAILED", owner |-> 0, sub |-> 0]
  BY <1>2
<1>7. \A st \in {"NONE", "SCHEDULED", "FINISHED", "FAILED"} :
         [status |-> st, owner |-> 0, sub |-> 0] \in GoodRec
  BY DEF GoodRec, RecType, NoPid, NoSub
<1>8. ASSUME NEW p \in Pid, NEW s \in Nat
      PROVE  InProgress(p, s) \in GoodRec /\ InProgress(p, s).status = "IN_PROGRESS"
  BY DEF GoodRec, RecType, InProgress
<1>9. NoRec \in GoodRec /\ NoRec.status = "NONE"
  BY <1>1, <1>7
<1>10. Scheduled \in GoodRec /\ Scheduled.status = "SCHEDULED"
  BY <1>2, <1>7
<1>11. /\ [NoRec EXCEPT !.status = "FINISHED"] \in GoodRec
       /\ [NoRec EXCEPT !.status = "FINISHED"].status = "FINISHED"
  BY <1>3, <1>7
<1>12. ASSUME NEW r \in GoodRec, r.status = "SCHEDULED"
       PROVE  /\ [r EXCEPT !.status = "FAILED"] \in GoodRec
              /\ [r EXCEPT !.status = "FAILED"].status = "FAILED"
  <2>1. r = Scheduled
    BY <1>5, <1>12
  <2>2. [Scheduled EXCEPT !.status = "FAILED"] \in GoodRec
    BY <1>6, <1>7
  <2>3. [Scheduled EXCEPT !.status = "FAILED"].status = "FAILED"
    BY <1>6
  <2> QED BY <2>1, <2>2, <2>3
<1> QED BY <1>5, <1>8, <1>9, <1>10, <1>11, <1>12

\* A record in progress of process p is InProgress.
LEMMA InProgressIs ==
  ASSUME NEW r \in GoodRec, r.status = "IN_PROGRESS"
  PROVE  r = InProgress(r.owner, r.sub) /\ r.sub \in Nat
<1>1. r \in RecType
  BY DEF GoodRec
<1> QED BY <1>1 DEF RecType, InProgress

\* The copies housekeeping makes.
LEMMA HousekeepingOK ==
  ASSUME NEW r \in [Key -> GoodRec]
  PROVE  HkOK(housekeeping(r), now)
<1> DEFINE S == {j \in Key : r[j].status = "IN_PROGRESS" /\ To[j] < now}
           F == {j \in Key : r[j].status = "SCHEDULED" /\ From[j] <= now /\ To[j] <= now}
           B == {j \in Key : r[j].status = "SCHEDULED" /\ From[j] <= now /\ now < To[j]}
           s == {<<k, r[k]>> : k \in S}
           f == {<<k, r[k]>> : k \in F}
           b == {<<k, r[k]>> : k \in B}
<1>1. housekeeping(r) = [stop |-> s, fail |-> f, start |-> b]
  BY DEF housekeeping
<1>2. /\ \A k \in S : k \in Key /\ r[k].status = "IN_PROGRESS"
      /\ \A k \in F : k \in Key /\ r[k].status = "SCHEDULED" /\ To[k] <= now
      /\ \A k \in B : k \in Key /\ r[k].status = "SCHEDULED" /\ From[k] <= now
  OBVIOUS
<1> HIDE DEF S, F, B
<1>3. \A k \in Key : <<k, r[k]>> \in Copy
  BY DEF Copy
<1>4. s \in SUBSET Copy /\ \A w \in s : w[2].status = "IN_PROGRESS"
  BY <1>2, <1>3
<1>5. f \in SUBSET Copy /\ \A w \in f : w[2].status = "SCHEDULED" /\ To[w[1]] <= now
  BY <1>2, <1>3
<1>6. b \in SUBSET Copy /\ \A w \in b : w[2].status = "SCHEDULED" /\ From[w[1]] <= now
  BY <1>2, <1>3
<1> HIDE DEF s, f, b
<1>7. housekeeping(r) \in HkType
  BY <1>1, <1>4, <1>5, <1>6 DEF HkType
<1>8. /\ housekeeping(r).stop = s /\ housekeeping(r).start = b /\ housekeeping(r).fail = f
  BY <1>1
<1> QED BY <1>4, <1>5, <1>6, <1>7, <1>8 DEF HkOK

\* Nothing to do.
LEMMA IdleOK ==
  ASSUME NEW t
  PROVE  HkOK(Idle, t)
<1>1. Idle \in HkType
  BY DEF Idle, HkType
<1> QED BY <1>1 DEF HkOK, Idle

\* Housekeeping has handled one of its copies.
LEMMA HkLess ==
  ASSUME NEW t, NEW h, HkOK(h, t), NEW w
  PROVE  /\ HkOK([h EXCEPT !.stop = @ \ {w}], t)
         /\ HkOK([h EXCEPT !.start = @ \ {w}], t)
         /\ HkOK([h EXCEPT !.fail = @ \ {w}], t)
<1>1. /\ [h EXCEPT !.stop = @ \ {w}] \in HkType /\ [h EXCEPT !.start = @ \ {w}] \in HkType
      /\ [h EXCEPT !.fail = @ \ {w}] \in HkType
  BY DEF HkType, HkOK
<1>2. h \in HkType
  BY DEF HkOK
<1>3. HkOK([h EXCEPT !.stop = @ \ {w}], t)
  BY <1>1, <1>2 DEF HkOK, HkType
<1>4. HkOK([h EXCEPT !.start = @ \ {w}], t)
  BY <1>1, <1>2 DEF HkOK, HkType
<1>5. HkOK([h EXCEPT !.fail = @ \ {w}], t)
  BY <1>1, <1>2 DEF HkOK, HkType
<1> QED BY <1>3, <1>4, <1>5

\* The copies of a process are replaced by good ones.
LEMMA HkStep ==
  ASSUME HkInv, NEW p \in Pid, NEW h, HkOK(h, now), hk' = [hk EXCEPT ![p] = h], now' = now
  PROVE  HkInv' /\ \A q \in Pid \ {p} : hk'[q] = hk[q]
<1>1. DOMAIN hk' = Pid /\ hk'[p] = h /\ \A q \in Pid \ {p} : hk'[q] = hk[q]
  BY DEF HkInv
<1>2. \A q \in Pid : HkOK(hk'[q], now')
  BY <1>1 DEF HkInv
<1> QED BY <1>1, <1>2 DEF HkInv

\* The copies a tuner makes for a guide entry.
LEMMA EpgReadOK ==
  ASSUME rec \in [Key -> GoodRec], SnapshotInv, UpdInv, NEW p \in Pid, NEW k \in Key, EpgRead(p, k)
  PROVE  UpdInv' /\ \A q \in Pid \ {p} : upd'[q] = upd[q]
<1> DEFINE found_in(db) == IF best_matching(db, k, FALSE) # {} THEN best_matching(db, k, FALSE)
                           ELSE best_matching(db, k, TRUE)
<1>0. PICK db \in {rec} \cup rtxn[p] :
        upd' = [upd EXCEPT ![p] = [key |-> k, found |-> {<<j, db[j]>> : j \in found_in(db)},
                                   old |-> db[k]]]
  BY DEF EpgRead
<1>9. db \in [Key -> GoodRec]
  BY DEF SnapshotInv
<1> DEFINE found == found_in(db)
           copies == {<<j, db[j]>> : j \in found}
           u == [key |-> k, found |-> copies, old |-> db[k]]
<1>1. upd' = [upd EXCEPT ![p] = u] /\ k \notin Anonymous
  BY <1>0 DEF EpgRead
<1>2. \/ found = {}
      \/ \E j \in Key : found = {j} /\ db[j].status \in Active /\ overlapping(j, k)
  <2>1. \/ best_matching(db, k, FALSE) = {}
        \/ \E j \in Key : best_matching(db, k, FALSE) = {j} /\ db[j].status \in Active /\ overlapping(j, k)
    BY BestMatching
  <2>2. \/ best_matching(db, k, TRUE) = {}
        \/ \E j \in Key : best_matching(db, k, TRUE) = {j} /\ db[j].status \in Active /\ overlapping(j, k)
    BY BestMatching
  <2> QED BY <2>1, <2>2
<1> HIDE DEF found
<1>3. u.key = k /\ u.found = copies /\ u.old = db[k]
  OBVIOUS
<1>4. copies \in SUBSET Copy
  BY <1>2, <1>9 DEF Copy
<1>5. u \in UpdType
  BY <1>1, <1>4, <1>9 DEF UpdType
<1>6. UpdOK(u)
  <2>1. CASE found = {}
    BY <1>3, <1>5, <2>1 DEF UpdOK
  <2>2. ASSUME NEW j \in Key, found = {j}, db[j].status \in Active, overlapping(j, k)
        PROVE  UpdOK(u)
    <3> DEFINE w == <<j, db[j]>>
    <3>1. copies = {w} /\ w[1] = j /\ w[2] = db[j]
      BY <2>2
    <3> HIDE DEF w, copies
    <3>2. Matches(u, w)
      BY <1>3, <2>2, <3>1 DEF Matches
    <3>3. u.found = {w} /\ w \in u.found
      BY <1>3, <3>1
    <3> QED BY <1>5, <3>2, <3>3 DEF UpdOK
  <2> QED BY <1>2, <2>1, <2>2
<1> HIDE DEF u
<1>7. DOMAIN upd' = Pid /\ upd'[p] = u /\ \A q \in Pid \ {p} : upd'[q] = upd[q]
  BY <1>1 DEF UpdInv
<1> QED BY <1>6, <1>7 DEF UpdInv

\* A scheduled recording is added for the guide entry, or none is.
AddsScheduled(u, db, new) ==
  new = db \/ new = [db EXCEPT ![u.key] = Scheduled]

\* What a tuner stores: nothing or a new recording when it had found none; two
\* scheduled recordings when it had found an anonymous one; otherwise the recording
\* it had found, under the key of the guide entry.
Stored(u, db, new) ==
  \/ /\ u.found = {} /\ AddsScheduled(u, db, new)
  \/ \E w \in u.found :
       /\ u.found = {w} /\ w \in Copy /\ Matches(u, w)
       /\ \/ /\ w[1] # u.key /\ w[2].status = "SCHEDULED"
             /\ new = [[db EXCEPT ![u.key] = Scheduled] EXCEPT ![w[1]] = Scheduled]
          \/ new = [[db EXCEPT ![w[1]] = NoRec] EXCEPT ![u.key] = w[2]]

\* The two checks of a tuner store one of these.
LEMMA EpgStored ==
  ASSUME rec \in [Key -> GoodRec], NEW u, UpdOK(u), ~epg_store_fails(u)
  PROVE  Stored(u, rec, checked_autorecs(u))
<1>1. /\ u.key \in Key /\ u.key \notin Anonymous /\ u.found \in SUBSET Copy
  BY DEF UpdOK, UpdType
<1>2. CASE u.found = {}
  <2>1. checked_recordings(u) = rec
    BY <1>2 DEF checked_recordings
  <2>2. AddsScheduled(u, rec, checked_autorecs(u))
    BY <2>1 DEF AddsScheduled, checked_autorecs
  <2> QED BY <1>2, <2>2 DEF Stored
<1>3. ASSUME NEW w \in u.found, u.found = {w}, Matches(u, w)
      PROVE  Stored(u, rec, checked_autorecs(u))
  <2>1. (CHOOSE x \in u.found : TRUE) = w /\ u.found # {} /\ w \in Copy
    BY <1>1, <1>3
  <2>2. w[1] \in Key /\ w[2] \in GoodRec /\ w[2].status \in {"SCHEDULED", "IN_PROGRESS"}
    BY <1>3, <2>1 DEF Copy, Matches, Active
  <2>3. marked(u) = w[2].status
    BY <2>1 DEF marked
  <2>4. w[2].status = "SCHEDULED" => w[2] = Scheduled
    BY <2>2, NewRecords
  <2>5. CASE w[1] \in Anonymous
    <3>1. checked_recordings(u) = [[rec EXCEPT ![u.key] = Scheduled] EXCEPT ![w[1]] = w[2]]
      BY <2>1, <2>5 DEF checked_recordings
    <3>2. w[2].status = "SCHEDULED" /\ w[2] = Scheduled
      BY <2>2, <2>3, <2>4, <2>5 DEF epg_store_fails
    <3>3. w[1] # u.key
      BY <1>1, <2>5
    <3> DEFINE new == [[rec EXCEPT ![u.key] = Scheduled] EXCEPT ![w[1]] = Scheduled]
    <3>4. new[u.key] = Scheduled /\ u.key \in DOMAIN new /\ DOMAIN new = Key
      BY <1>1, <2>2, <3>3
    <3>5. [new EXCEPT ![u.key] = Scheduled] = new
      BY <3>4
    <3>6. checked_recordings(u) = new
      BY <3>1, <3>2
    <3>7. checked_autorecs(u) = new
      BY <3>5, <3>6 DEF checked_autorecs
    <3> QED BY <1>3, <2>1, <3>2, <3>3, <3>7 DEF Stored
  <2>6. CASE w[1] \notin Anonymous
    <3> DEFINE new == [[rec EXCEPT ![w[1]] = NoRec] EXCEPT ![u.key] = w[2]]
    <3>1. checked_recordings(u) = new
      BY <2>1, <2>6 DEF checked_recordings
    <3>2. new[u.key] = w[2] /\ DOMAIN new = Key
      BY <1>1, <2>2
    <3>3. CASE u.key \in Autorec /\ u.old = NoRec
      <4>1. w[2] = Scheduled
        BY <2>2, <2>3, <2>4, <3>3 DEF epg_store_fails
      <4>2. [new EXCEPT ![u.key] = Scheduled] = new
        BY <1>1, <3>2, <4>1
      <4>3. checked_autorecs(u) = new
        BY <3>1, <3>3, <4>2 DEF checked_autorecs
      <4> QED BY <1>3, <2>1, <4>3 DEF Stored
    <3>4. CASE ~(u.key \in Autorec /\ u.old = NoRec)
      <4>1. checked_autorecs(u) = new
        BY <3>1, <3>4 DEF checked_autorecs
      <4> QED BY <1>3, <2>1, <4>1 DEF Stored
    <3> QED BY <3>3, <3>4
  <2> QED BY <2>5, <2>6
<1> QED BY <1>2, <1>3 DEF UpdOK

\* What is stored are records.
LEMMA StoredGood ==
  ASSUME NEW db \in [Key -> GoodRec], NEW u, UpdOK(u), NEW new, Stored(u, db, new)
  PROVE  new \in [Key -> GoodRec]
<1>1. u.key \in Key
  BY DEF UpdOK, UpdType
<1>2. CASE AddsScheduled(u, db, new)
  BY <1>1, <1>2, NewRecords DEF AddsScheduled
<1>3. ASSUME NEW w \in Copy,
             \/ new = [[db EXCEPT ![u.key] = Scheduled] EXCEPT ![w[1]] = Scheduled]
             \/ new = [[db EXCEPT ![w[1]] = NoRec] EXCEPT ![u.key] = w[2]]
      PROVE  new \in [Key -> GoodRec]
  <2>1. w[1] \in Key /\ w[2] \in GoodRec /\ NoRec \in GoodRec /\ Scheduled \in GoodRec
    BY NewRecords DEF Copy
  <2> QED BY <1>1, <1>3, <2>1
<1> QED BY <1>2, <1>3 DEF Stored

-----------------------------------------------------------------------------
(* Processes that run and processes that do not.                           *)

\* A step of process p, which runs, or of none.
LEMMA DeadOthers ==
  ASSUME DeadInv, NEW p, p \in alive' \/ p \notin Pid, alive \subseteq alive',
         \A q \in Pid \ {p} : /\ hk'[q] = hk[q] /\ pend'[q] = pend[q] /\ rq'[q] = rq[q]
                              /\ aa'[q] = aa[q] /\ upd'[q] = upd[q]
  PROVE  DeadInv'
BY DEF DeadInv

\* The end of a process leaves the others alone.
LEMMA Ended ==
  ASSUME RunInv, HkInv, UpdInv, DeadInv, TaskTypes, NEW p \in Pid, Dies(p), now' = now
  PROVE  RunInv' /\ HkInv' /\ UpdInv' /\ DeadInv' /\ \A q \in Pid \ {p} : aa'[q] = aa[q]
<1>1. alive' = alive \ {p} /\ hk' = [hk EXCEPT ![p] = Idle] /\ upd' = [upd EXCEPT ![p] = NoUpd]
      /\ pend' = [pend EXCEPT ![p] = NoPend] /\ rq' = [rq EXCEPT ![p] = <<>>]
      /\ aa' = [aa EXCEPT ![p] = {}]
  BY DEF Dies
<1>2. RunInv'
  <2>1. IsFiniteSet(alive) /\ Cardinality(alive) <= MaxAlive /\ MaxAlive \in Nat
    BY RecMgrAssumption DEF RunInv
  <2>2. IsFiniteSet(alive') /\ Cardinality(alive') <= Cardinality(alive)
    BY <1>1, <2>1, FS_Subset
  <2>3. Cardinality(alive) \in Nat /\ Cardinality(alive') \in Nat
    BY <2>1, <2>2, FS_CardinalityType
  <2>4. Cardinality(alive') <= MaxAlive
    BY <2>1, <2>2, <2>3
  <2> QED BY <1>1, <2>2, <2>4 DEF RunInv
<1>3. HkInv' /\ \A q \in Pid \ {p} : hk'[q] = hk[q]
  BY <1>1, IdleOK, HkStep
<1>4. UpdInv' /\ \A q \in Pid \ {p} : upd'[q] = upd[q]
  BY <1>1 DEF UpdInv
<1>5. DOMAIN pend = Pid /\ DOMAIN rq = Pid /\ DOMAIN aa = Pid /\ DOMAIN hk = Pid /\ DOMAIN upd = Pid
  BY DEF TaskTypes, TodoTypes, HeldTypes, HkInv, UpdInv
<1>6. /\ \A q \in Pid \ {p} : pend'[q] = pend[q] /\ rq'[q] = rq[q] /\ aa'[q] = aa[q]
      /\ hk'[p] = Idle /\ pend'[p] = NoPend /\ rq'[p] = <<>> /\ aa'[p] = {} /\ upd'[p] = NoUpd
  BY <1>1, <1>5
<1>7. DeadInv'
  BY <1>1, <1>3, <1>4, <1>6 DEF DeadInv
<1> QED BY <1>2, <1>3, <1>4, <1>6, <1>7

-----------------------------------------------------------------------------
(* Which recordings go on.                                                 *)

\* Only records that are not in progress are replaced.
LEMMA GoesOnOthers ==
  ASSUME NEW db, NEW new, NEW p, NEW but,
         \A k \in Key : \A s \in Nat \ but : db[k] = InProgress(p, s) => new[k] = db[k]
  PROVE  GoesOn(db, new, p, but)
BY DEF GoesOn

\* The history variable tells that no recording in progress was replaced.
LEMMA GoesOnTaken ==
  ASSUME NEW new, taken_by(new, Key) = {}, NEW q \in alive
  PROVE  GoesOn(rec, new, q, {})
<1>1. \A k \in Key : rec[k].status = "IN_PROGRESS" /\ rec[k].owner \in alive => new[k] = rec[k]
  BY DEF taken_by
<1>2. \A s : InProgress(q, s).status = "IN_PROGRESS" /\ InProgress(q, s).owner = q
  BY DEF InProgress
<1> QED BY <1>1, <1>2, GoesOnOthers

\* One record that is not in progress is replaced.
LEMMA GoesOnBut ==
  ASSUME NEW db \in [Key -> GoodRec], NEW k \in Key, db[k].status # "IN_PROGRESS", NEW r, NEW q
  PROVE  GoesOn(db, [db EXCEPT ![k] = r], q, {})
<1>1. \A s : InProgress(q, s).status = "IN_PROGRESS"
  BY DEF InProgress
<1> QED BY <1>1, GoesOnOthers

\* A recording of process p is over: that of one subscription.
LEMMA GoesOnStopped ==
  ASSUME NEW db \in [Key -> GoodRec], NEW k \in Key, NEW p, NEW s, db[k].owner = p, db[k].sub = s,
         NEW r, NEW q
  PROVE  /\ q # p => GoesOn(db, [db EXCEPT ![k] = r], q, {})
         /\ GoesOn(db, [db EXCEPT ![k] = r], p, {s})
<1>1. \A x, y : InProgress(x, y).owner = x /\ InProgress(x, y).sub = y
  BY DEF InProgress
<1>2. ASSUME q # p PROVE GoesOn(db, [db EXCEPT ![k] = r], q, {})
  BY <1>1, <1>2, GoesOnOthers
<1>3. \A j \in Key : \A y \in Nat \ {s} : db[j] = InProgress(p, y) => [db EXCEPT ![k] = r][j] = db[j]
  BY <1>1
<1>4. GoesOn(db, [db EXCEPT ![k] = r], p, {s})
  BY <1>3, GoesOnOthers
<1> QED BY <1>2, <1>4

\* What a tuner stores, when the copies it made are still right.
LEMMA GoesOnStored ==
  ASSUME rec \in [Key -> GoodRec], NEW u, UpdOK(u), NEW new, Stored(u, rec, new),
         taken_by(new, Key \ {w[1] : w \in u.found}) = {},
         \A w \in u.found : rec[w[1]] = w[2],
         NEW q \in alive
  PROVE  GoesOn(rec, new, q, {})
<1> DEFINE J == {w[1] : w \in u.found}
<1>1. \A k \in Key \ J : rec[k].status = "IN_PROGRESS" /\ rec[k].owner \in alive => new[k] = rec[k]
  BY DEF taken_by
<1>2. \A s : InProgress(q, s).status = "IN_PROGRESS" /\ InProgress(q, s).owner = q
  BY DEF InProgress
<1>3. u.key \in Key
  BY DEF UpdOK, UpdType
<1>4. CASE u.found = {}
  <2>1. \A k \in Key : rec[k].status = "IN_PROGRESS" /\ rec[k].owner \in alive => new[k] = rec[k]
    BY <1>1, <1>4
  <2> QED BY <1>2, <2>1, GoesOnOthers
<1>5. ASSUME NEW w \in u.found, u.found = {w}, w \in Copy,
             \/ /\ w[1] # u.key /\ w[2].status = "SCHEDULED"
                /\ new = [[rec EXCEPT ![u.key] = Scheduled] EXCEPT ![w[1]] = Scheduled]
             \/ new = [[rec EXCEPT ![w[1]] = NoRec] EXCEPT ![u.key] = w[2]]
      PROVE  GoesOn(rec, new, q, {})
  <2>1. J = {w[1]} /\ w[1] \in Key /\ rec[w[1]] = w[2]
    BY <1>5 DEF Copy
  <2> HIDE DEF J
  <2>2. rec[w[1]].status = "IN_PROGRESS" => new[u.key] = rec[w[1]]
    <3>1. CASE w[2].status = "SCHEDULED"
      BY <2>1, <3>1
    <3>2. CASE new = [[rec EXCEPT ![w[1]] = NoRec] EXCEPT ![u.key] = w[2]]
      BY <1>3, <2>1, <3>2
    <3> QED BY <1>5, <3>1, <3>2
  <2>3. ASSUME NEW s \in Nat, NEW k \in Key, rec[k] = InProgress(q, s)
        PROVE  \E j \in Key : new[j] = InProgress(q, s)
    <3>1. CASE k = w[1]
      BY <1>2, <1>3, <2>2, <2>3, <3>1
    <3>2. CASE k # w[1]
      BY <1>1, <1>2, <2>1, <2>3, <3>2
    <3> QED BY <3>1, <3>2
  <2> QED BY <2>3 DEF GoesOn
<1>6. u.found = {} \/ \E w \in u.found :
        /\ u.found = {w} /\ w \in Copy
        /\ \/ /\ w[1] # u.key /\ w[2].status = "SCHEDULED"
              /\ new = [[rec EXCEPT ![u.key] = Scheduled] EXCEPT ![w[1]] = Scheduled]
           \/ new = [[rec EXCEPT ![w[1]] = NoRec] EXCEPT ![u.key] = w[2]]
  BY DEF Stored
<1> QED BY <1>4, <1>5, <1>6

\* The part of the invariant about orphans, from that of process p.
LEMMA OrphanStep ==
  ASSUME OrphanInv, TaskTypes, alive \subseteq Pid, taken \subseteq taken', NEW p,
         OthersTodo(p), \A q \in Pid \ {p} : aa'[q] = aa[q], alive' \subseteq alive \cup {p},
         taken' = {} => \A q \in alive \ {p} : GoesOn(rec, rec', q, {}),
         taken' = {} /\ p \in alive' => Kept(rec', Todo(p)', aa'[p], p)
  PROVE  OrphanInv'
<1> SUFFICES ASSUME taken' = {}, NEW q \in alive'
             PROVE  Kept(rec', Todo(q)', aa'[q], q)
  BY DEF OrphanInv
<1>1. CASE q # p
  <2>1. q \in alive /\ q \in Pid /\ taken = {}
    BY <1>1
  <2>2. Kept(rec, Todo(q), aa[q], q) /\ GoesOn(rec, rec', q, {})
    BY <1>1, <2>1 DEF OrphanInv
  <2>3. Todo(q) \in Seq(Task) /\ aa[q] \in SUBSET Nat
    BY <2>1, TodoOf DEF TaskTypes, HeldTypes
  <2>4. Kept(rec', Todo(q), aa[q], q)
    BY <2>2, <2>3, KeptOn
  <2>5. Todo(q)' = Todo(q) /\ aa'[q] = aa[q]
    BY <1>1, <2>1 DEF OthersTodo
  <2> QED BY <2>4, <2>5
<1>2. CASE q = p
  BY <1>2
<1> QED BY <1>1, <1>2

\* Neither tasks nor adapters change.
LEMMA OrphanQuiet ==
  ASSUME OrphanInv, TaskTypes, alive \subseteq Pid, taken \subseteq taken', alive' \subseteq alive,
         \A q \in Pid : Todo(q)' = Todo(q), aa' = aa,
         taken' = {} => \A q \in alive : GoesOn(rec, rec', q, {})
  PROVE  OrphanInv'
<1>1. PICK p : p \notin Pid
  BY RecMgrAssumption
<1>2. p \notin alive' /\ OthersTodo(p)
  BY <1>1 DEF OthersTodo
<1> QED BY <1>1, <1>2, OrphanStep

-----------------------------------------------------------------------------
(* The steps, by kind.                                                     *)

\* Nothing was replaced.
LEMMA GoesOnSame ==
  ASSUME NEW db, NEW p, NEW but
  PROVE  GoesOn(db, db, p, but)
BY DEF GoesOn

\* A process ends, for whatever reason.
LEMMA EndStep ==
  ASSUME Inv, NEW p \in Pid, Dies(p), now' = now, rec' = rec, DataInv', taken \subseteq taken',
         Fewer(lb')
  PROVE  Inv'
<1>1. RunInv' /\ HkInv' /\ UpdInv' /\ DeadInv' /\ \A q \in Pid \ {p} : aa'[q] = aa[q]
  BY Ended DEF Inv
<1>2. TaskTypes' /\ QueueInv'
  BY TasksEnd DEF Inv
<1>3. OthersTodo(p)
  BY ForgetTasks DEF Inv, TaskTypes
<1>4. OrphanInv'
  <2>1. alive' \subseteq alive \cup {p} /\ p \notin alive' /\ alive \subseteq Pid
    BY DEF Dies, Inv, RunInv
  <2>2. \A q \in alive \ {p} : GoesOn(rec, rec', q, {})
    BY GoesOnSame
  <2>3. OrphanInv /\ TaskTypes
    BY DEF Inv
  <2> QED BY <1>1, <1>3, <2>1, <2>2, <2>3, OrphanStep
<1> QED BY <1>1, <1>2, <1>4 DEF Inv

\* A process that runs changes the databases or its copies.
LEMMA RecordStep ==
  ASSUME Inv, NEW p \in alive, UNCHANGED <<now, alive, aa, lb>>, TodoTypes',
         \A q \in Pid : Todo(q)' = Todo(q), DataInv', HkInv', UpdInv',
         \A q \in Pid \ {p} : /\ hk'[q] = hk[q] /\ pend'[q] = pend[q]
                              /\ rq'[q] = rq[q] /\ upd'[q] = upd[q],
         taken \subseteq taken',
         taken' = {} => \A q \in alive : GoesOn(rec, rec', q, {})
  PROVE  Inv'
<1>1. TaskTypes' /\ QueueInv'
  BY TasksSame DEF Inv
<1>2. DeadInv'
  BY DeadOthers DEF Inv
<1>3. OrphanInv'
  BY OrphanQuiet DEF Inv, RunInv
<1>4. RunInv'
  BY DEF Inv, RunInv
<1> QED BY <1>1, <1>2, <1>3, <1>4 DEF Inv

\* The tasks stay as they are.
LEMMA TodoUnchanged ==
  ASSUME TodoTypes, UNCHANGED <<pend, rq>>
  PROVE  TodoTypes' /\ \A q \in Pid : Todo(q)' = Todo(q)
BY DEF TodoTypes, Todo

\* stop_recording, whoever calls it, for the record r as its caller read it.
LEMMA StopStep ==
  ASSUME Inv, NEW p \in alive, pend[p] = NoPend, NEW k \in Key, NEW r \in GoodRec,
         stop_recording(p, k, r), NEW h, HkOK(h, now), Finish(p, h), UNCHANGED <<now, rec, epg, disk, taken>>
  PROVE  Inv'
<1>0. p \in Pid /\ rec \in [Key -> GoodRec] /\ DataInv /\ HkInv /\ UpdInv /\ TaskTypes /\ QueueInv
  BY DEF Inv, RunInv, DataInv
<1>1. CASE alive' = alive \ {p} /\ UNCHANGED lb
  <2>1. Dies(p)
    BY <1>1 DEF Finish
  <2>2. Fewer(lb')
    BY <1>0, <1>1, SubsetFewer
  <2>3. DataInv'
    BY <1>0, <1>1 DEF DataInv
  <2> QED BY <1>0, <1>1, <2>1, <2>2, <2>3, EndStep
<1>2. CASE UNCHANGED <<alive, pend, rq, aa, lb, upd>>
  <2>1. hk' = [hk EXCEPT ![p] = h]
    BY <1>2 DEF Finish
  <2>2. HkInv' /\ \A q \in Pid \ {p} : hk'[q] = hk[q]
    BY <1>0, <2>1, HkStep
  <2>3. TodoTypes' /\ \A q \in Pid : Todo(q)' = Todo(q)
    BY <1>0, <1>2, TodoUnchanged DEF TaskTypes
  <2>4. UpdInv' /\ DataInv'
    BY <1>0, <1>2 DEF UpdInv, DataInv
  <2>5. \A q \in alive : GoesOn(rec, rec', q, {})
    BY <1>2, GoesOnSame
  <2>6. \A q \in Pid \ {p} : /\ hk'[q] = hk[q] /\ pend'[q] = pend[q]
                             /\ rq'[q] = rq[q] /\ upd'[q] = upd[q]
    BY <1>2, <2>2
  <2> QED BY <1>2, <2>2, <2>3, <2>4, <2>5, <2>6, RecordStep
<1> DEFINE s == r.sub
           t == [op |-> "unsubscribe", key |-> k, sub |-> s]
<1>3. ASSUME NEW b \in buffer(p, s), k \in b.recs, r.owner = p, s \in aa[p],
             lb' = (lb \ {b}) \cup {[b EXCEPT !.recs = @ \ {k}]},
             pend' = [pend EXCEPT ![p] = [key |-> k, status |-> "COPYING", task |-> <<t>>]],
             UNCHANGED <<alive, rq, aa, upd>>
      PROVE  Inv'
  <2>1. hk' = [hk EXCEPT ![p] = h]
    BY <1>3 DEF Finish
  <2>2. HkInv' /\ \A q \in Pid \ {p} : hk'[q] = hk[q]
    BY <1>0, <2>1, HkStep
  <2>3. UpdInv'
    BY <1>0, <1>3 DEF UpdInv
  <2>5. DataInv'
    BY <1>0 DEF DataInv
  <2> HIDE DEF s
  <2>6. PICK x : x = t
    OBVIOUS
  <2>7. PendTask(p, k, "COPYING", x) /\ Leaves(k, b)
    BY <1>3, <2>6 DEF PendTask, Leaves
  <2>8. TaskIs(x, "unsubscribe", k, s)
    BY <2>6 DEF TaskIs
  <2> HIDE DEF t
  <2>9. rq' = rq /\ aa' = aa /\ s \in aa[p] /\ b \in buffer(p, s) /\ k \in b.recs
    BY <1>3
  <2>10. /\ TaskTypes' /\ QueueInv' /\ OthersTodo(p) /\ Todo(p)' = Append(Todo(p), x)
         /\ x \in Task /\ x.op = "unsubscribe" /\ x.sub = s
    BY <1>0, <2>7, <2>8, <2>9, TasksStop
  <2>11. \A q \in Pid \ {p} : pend'[q] = pend[q]
    BY <1>0, <1>3 DEF TaskTypes, TodoTypes
  <2>12. DeadInv'
    BY <1>3, <2>2, <2>11, DeadOthers DEF Inv
  <2>13. RunInv'
    BY <1>3 DEF Inv, RunInv
  <2>14. OrphanInv'
    <3>1. /\ \A q \in alive \ {p} : GoesOn(rec, rec', q, {})
          /\ GoesOn(rec, rec', p, {s})
      BY GoesOnSame
    <3>2. ASSUME taken' = {}
          PROVE  Kept(rec', Todo(p)', aa'[p], p)
      <4>1. taken = {}
        BY <3>2
      <4>2. Kept(rec, Todo(p), aa[p], p)
        BY <4>1 DEF Inv, OrphanInv
      <4>3. Todo(p) \in Seq(Task) /\ aa[p] \in SUBSET Nat
        BY <1>0, TodoOf DEF TaskTypes, HeldTypes
      <4>4. GoesOn(rec, rec', p, {s})
        BY <3>1
      <4>5. Kept(rec', Append(Todo(p), x), aa[p], p)
        BY <2>10, <4>2, <4>3, <4>4, KeptAppend
      <4> QED BY <2>9, <2>10, <4>5
    <3>3. alive' \subseteq alive \cup {p} /\ OrphanInv /\ alive \subseteq Pid
      BY <1>3 DEF Inv, RunInv
    <3> QED BY <1>0, <2>9, <2>10, <3>1, <3>2, <3>3, OrphanStep
  <2> QED BY <2>2, <2>3, <2>5, <2>10, <2>12, <2>13, <2>14 DEF Inv
<1> HIDE DEF t, s
<1>4. \/ alive' = alive \ {p} /\ UNCHANGED lb
      \/ UNCHANGED <<alive, pend, rq, aa, lb, upd>>
      \/ /\ r.owner = p /\ s \in aa[p]
         /\ \E b \in buffer(p, s) : /\ k \in b.recs
                                    /\ lb' = (lb \ {b}) \cup {[b EXCEPT !.recs = @ \ {k}]}
         /\ pend' = [pend EXCEPT ![p] = [key |-> k, status |-> "COPYING", task |-> <<t>>]]
         /\ UNCHANGED <<alive, rq, aa, upd>>
  BY DEF stop_recording, s, t
<1> QED BY <1>1, <1>2, <1>3, <1>4

-----------------------------------------------------------------------------
(* The steps, one by one.                                                  *)

\* Time passes.
LEMMA TickStep ==
  ASSUME Inv, Tick
  PROVE  Inv'
<1>0. UNCHANGED <<alive, rec, epg, hk, pend, rq, aa, lb, disk, upd, taken>>
  BY DEF Tick
<1>1. now \in Nat /\ now' \in 0 .. MaxTime /\ now <= now' /\ MaxTime \in Nat
  BY RecMgrAssumption DEF Tick, Inv, RunInv
<1>2. RunInv'
  BY <1>0, <1>1 DEF Inv, RunInv
<1>3. ASSUME NEW h, HkOK(h, now) PROVE HkOK(h, now')
  <2>1. h \in HkType
    BY <1>3 DEF HkOK
  <2>2. h.start \in SUBSET Copy /\ h.fail \in SUBSET Copy
    BY <2>1 DEF HkType
  <2>3. \A w \in Copy : From[w[1]] \in Nat /\ To[w[1]] \in Nat
    BY RecMgrAssumption DEF Copy
  <2>4. \A w \in Copy : /\ From[w[1]] <= now => From[w[1]] <= now'
                        /\ To[w[1]] <= now => To[w[1]] <= now'
    BY <1>1, <2>3
  <2> QED BY <1>3, <2>2, <2>4 DEF HkOK
<1>4. HkInv'
  BY <1>0, <1>3 DEF Inv, HkInv
<1>5. DataInv' /\ UpdInv' /\ DeadInv'
  BY <1>0 DEF Inv, DataInv, UpdInv, DeadInv
<1>6. TodoTypes' /\ \A q \in Pid : Todo(q)' = Todo(q)
  BY <1>0, TodoUnchanged DEF Inv, TaskTypes
<1>7. TaskTypes' /\ QueueInv'
  BY <1>0, <1>6, TasksSame DEF Inv
<1>8. \A q \in alive : GoesOn(rec, rec', q, {})
  BY <1>0, GoesOnSame
<1>9. OrphanInv'
  BY <1>0, <1>6, <1>8, OrphanQuiet DEF Inv, RunInv
<1> QED BY <1>2, <1>4, <1>5, <1>7, <1>9 DEF Inv

\* Housekeeping looks at the recordings.
LEMMA HousekeepingStep ==
  ASSUME Inv, NEW p \in Pid, Housekeeping(p)
  PROVE  Inv'
<1>0. /\ p \in alive /\ hk' = [hk EXCEPT ![p] = housekeeping(rec)]
      /\ UNCHANGED <<now, alive, rec, epg, pend, rq, aa, lb, disk, upd, taken>>
  BY DEF Housekeeping, Ready
<1>1. HkInv' /\ \A q \in Pid \ {p} : hk'[q] = hk[q]
  BY <1>0, HousekeepingOK, HkStep DEF Inv, DataInv
<1>2. TodoTypes' /\ \A q \in Pid : Todo(q)' = Todo(q)
  BY <1>0, TodoUnchanged DEF Inv, TaskTypes
<1>3. DataInv' /\ UpdInv'
  BY <1>0 DEF Inv, DataInv, UpdInv
<1>4. \A q \in alive : GoesOn(rec, rec', q, {})
  BY <1>0, GoesOnSame
<1>5. \A q \in Pid \ {p} : hk'[q] = hk[q] /\ pend'[q] = pend[q] /\ rq'[q] = rq[q] /\ upd'[q] = upd[q]
  BY <1>0, <1>1
<1>6. UNCHANGED <<now, alive, aa, lb>> /\ taken \subseteq taken'
  BY <1>0
<1> QED BY <1>0, <1>1, <1>2, <1>3, <1>4, <1>5, <1>6, RecordStep

\* A copy that housekeeping has not handled yet.
LEMMA HkCopy ==
  ASSUME Inv, NEW p \in Pid
  PROVE  /\ hk[p] \in HkType /\ HkOK(hk[p], now)
         /\ \A w \in hk[p].stop : /\ w[1] \in Key /\ w[2] \in GoodRec
                                  /\ w[2].status = "IN_PROGRESS"
         /\ \A w \in hk[p].start : /\ w[1] \in Key /\ w[2] \in GoodRec
                                   /\ w[2].status = "SCHEDULED" /\ From[w[1]] <= now
         /\ \A w \in hk[p].fail : /\ w[1] \in Key /\ w[2] \in GoodRec
                                  /\ w[2].status = "SCHEDULED" /\ To[w[1]] <= now
<1>1. HkOK(hk[p], now)
  BY DEF Inv, HkInv
<1>2. hk[p] \in HkType
  BY <1>1 DEF HkOK
<1>3. hk[p].stop \in SUBSET Copy /\ hk[p].start \in SUBSET Copy /\ hk[p].fail \in SUBSET Copy
  BY <1>2 DEF HkType
<1>4. \A w \in Copy : w[1] \in Key /\ w[2] \in GoodRec
  BY DEF Copy
<1> QED BY <1>1, <1>2, <1>3, <1>4 DEF HkOK

\* The history variable tells that the copy is still right.
LEMMA NotStale ==
  ASSUME NEW w, taken' = taken \cup stale(w)
  PROVE  taken \subseteq taken' /\ (taken' = {} => rec[w[1]] = w[2])
BY DEF stale, stale_at

\* Housekeeping stops a recording.
LEMMA HousekeepingStopStep ==
  ASSUME Inv, NEW p \in Pid, HousekeepingStop(p)
  PROVE  Inv'
<1>1. PICK w \in hk[p].stop : /\ stop_recording(p, w[1], w[2])
                              /\ Finish(p, [hk[p] EXCEPT !.stop = @ \ {w}])
  BY DEF HousekeepingStop
<1>2. p \in alive /\ pend[p] = NoPend /\ UNCHANGED <<now, rec, epg, disk, taken>>
  BY DEF HousekeepingStop
<1>3. w[1] \in Key /\ w[2] \in GoodRec /\ HkOK(hk[p], now)
  BY HkCopy
<1>4. PICK h : h = [hk[p] EXCEPT !.stop = @ \ {w}]
  OBVIOUS
<1>5. HkOK(h, now) /\ Finish(p, h)
  BY <1>1, <1>3, <1>4, HkLess
<1> QED BY <1>1, <1>2, <1>3, <1>5, StopStep

\* The tasks when recmgr goes on with what is left of stop_recording.
LEMMA StopGoesOn ==
  ASSUME TodoTypes, StopInv, NEW p \in Pid, pend[p].status \in {"COPYING", "LINKED"},
         NEW st \in {"LINKED", "FINISHED"}, pend' = [pend EXCEPT ![p].status = st], rq' = rq
  PROVE  /\ TodoTypes' /\ \A q \in Pid : Todo(q)' = Todo(q)
         /\ \A q \in Pid \ {p} : pend'[q] = pend[q]
         /\ pend'[p] \in PendType /\ pend'[p].status = st /\ pend'[p].key = pend[p].key
         /\ pend'[p].task = pend[p].task /\ pend[p].key \in Key
<1>1. pend \in [Pid -> PendType] /\ rq \in [Pid -> Seq(Task)] /\ pend[p].key \in Key
  BY DEF TodoTypes, StopInv, StopOK
<1>2. PICK d : d = [pend[p] EXCEPT !.status = st]
  OBVIOUS
<1>3. pend[p] \in PendType
  BY <1>1
<1>4. d \in PendType /\ d.status = st /\ d.key = pend[p].key /\ d.task = pend[p].task
  BY <1>2, <1>3 DEF PendType
<1>5. pend' = [pend EXCEPT ![p] = d]
  BY <1>2
<1>6. pend' \in [Pid -> PendType] /\ pend'[p] = d /\ \A q \in Pid \ {p} : pend'[q] = pend[q]
  BY <1>1, <1>4, <1>5
<1>7. TodoTypes'
  BY <1>1, <1>6 DEF TodoTypes
<1>8. \A q \in Pid : pend'[q].task = pend[q].task
  BY <1>4, <1>6
<1>9. \A q \in Pid : Todo(q)' = Todo(q)
  BY <1>8 DEF Todo
<1> QED BY <1>1, <1>4, <1>6, <1>7, <1>9

\* The files of the recording are linked.
LEMMA LinkFilesStep ==
  ASSUME Inv, StopInv, NEW p \in Pid, LinkFiles(p)
  PROVE  Inv'
<1>0. /\ p \in alive /\ pend[p].status = "COPYING" /\ disk' = disk \cup {pend[p].key}
      /\ pend' = [pend EXCEPT ![p].status = "LINKED"]
      /\ UNCHANGED <<now, alive, rec, epg, hk, rq, aa, lb, upd, taken>>
  BY DEF LinkFiles
<1>1. /\ TodoTypes' /\ \A q \in Pid : Todo(q)' = Todo(q)
      /\ \A q \in Pid \ {p} : pend'[q] = pend[q]
      /\ pend[p].key \in Key
  BY <1>0, StopGoesOn DEF Inv, TaskTypes
<1>2. DataInv' /\ UpdInv' /\ HkInv'
  BY <1>0, <1>1 DEF Inv, DataInv, UpdInv, HkInv
<1>3. \A q \in alive : GoesOn(rec, rec', q, {})
  BY <1>0, GoesOnSame
<1>4. \A q \in Pid \ {p} : hk'[q] = hk[q] /\ pend'[q] = pend[q] /\ rq'[q] = rq[q] /\ upd'[q] = upd[q]
  BY <1>0, <1>1
<1>5. UNCHANGED <<now, alive, aa, lb>> /\ taken \subseteq taken'
  BY <1>0
<1> QED BY <1>0, <1>1, <1>2, <1>3, <1>4, <1>5, RecordStep

\* The recording that is over is stored as finished.
LEMMA StoreFinishedStep ==
  ASSUME Inv, StopInv, NEW p \in Pid, StoreFinished(p)
  PROVE  Inv'
<1> DEFINE k == pend[p].key
           s == pend[p].task[1].sub
           fin == [NoRec EXCEPT !.status = "FINISHED"]
<1>0. /\ p \in alive /\ pend[p].status = "LINKED" /\ rec' = [rec EXCEPT ![k] = fin]
      /\ taken' = taken \cup stale(<<k, InProgress(p, s)>>)
      /\ pend' = [pend EXCEPT ![p].status = "FINISHED"]
      /\ UNCHANGED <<now, alive, epg, hk, rq, aa, lb, disk, upd>>
  BY DEF StoreFinished, InProgress
<1>1. /\ TodoTypes' /\ \A q \in Pid : Todo(q)' = Todo(q)
      /\ \A q \in Pid \ {p} : pend'[q] = pend[q]
      /\ k \in Key
  BY <1>0, StopGoesOn DEF Inv, TaskTypes
<1>2. rec \in [Key -> GoodRec] /\ fin \in GoodRec
  BY NewRecords DEF Inv, DataInv
<1>3. Released(Todo(p), s)
  <2>1. PICK t \in Task : pend[p].task = <<t>> /\ t.op = "unsubscribe"
    BY <1>0 DEF StopInv, StopOK
  <2>2. rq[p] \in Seq(Task)
    BY DEF Inv, TaskTypes, TodoTypes
  <2>3. Todo(p) = Append(rq[p], t) /\ s = t.sub
    BY <2>1, <2>2, TodoFacts DEF Todo
  <2>4. Len(rq[p]) + 1 \in DOMAIN Append(rq[p], t) /\ Append(rq[p], t)[Len(rq[p]) + 1] = t
    BY <2>2, AppendTask
  <2> QED BY <2>1, <2>3, <2>4 DEF Released
<1>4. PICK w : w = <<k, InProgress(p, s)>>
  OBVIOUS
<1>5. taken \subseteq taken' /\ (taken' = {} => rec[k] = InProgress(p, s))
  <2>1. taken \subseteq taken' /\ (taken' = {} => rec[w[1]] = w[2])
    BY <1>0, <1>4, NotStale
  <2> QED BY <1>4, <2>1
<1> HIDE DEF k, s, fin
<1>6. TaskTypes' /\ QueueInv'
  BY <1>0, <1>1, TasksSame DEF Inv
<1>7. RunInv' /\ DataInv' /\ HkInv' /\ UpdInv'
  BY <1>0, <1>1, <1>2 DEF Inv, RunInv, DataInv, HkInv, UpdInv
<1>8. DeadInv'
  BY <1>0, <1>1, DeadOthers DEF Inv
<1>9. ASSUME taken' = {}
      PROVE  /\ \A q \in alive \ {p} : GoesOn(rec, rec', q, {})
             /\ GoesOn(rec, rec', p, {s})
  <2>1. rec[k].owner = p /\ rec[k].sub = s
    BY <1>5, <1>9 DEF InProgress
  <2> QED BY <1>0, <1>1, <1>2, <2>1, GoesOnStopped
<1>10. ASSUME taken' = {}
       PROVE  Kept(rec', Todo(p)', aa'[p], p)
  <2>1. Kept(rec, Todo(p), aa[p], p)
    BY <1>0, <1>5, <1>10 DEF Inv, OrphanInv
  <2>2. Todo(p) \in Seq(Task) /\ aa[p] \in SUBSET Nat
    BY TodoOf DEF Inv, TaskTypes, HeldTypes
  <2>3. GoesOn(rec, rec', p, {s})
    BY <1>9, <1>10
  <2>4. Kept(rec', Todo(p), aa[p], p)
    BY <1>3, <2>1, <2>2, <2>3, KeptReleased
  <2> QED BY <1>0, <1>1, <2>4
<1>11. OrphanInv'
  <2>1. OrphanInv /\ TaskTypes /\ alive \subseteq Pid /\ alive' \subseteq alive \cup {p}
    BY <1>0 DEF Inv, RunInv
  <2>2. OthersTodo(p) /\ \A q \in Pid \ {p} : aa'[q] = aa[q]
    BY <1>0, <1>1 DEF OthersTodo
  <2> QED BY <1>5, <1>9, <1>10, <2>1, <2>2, OrphanStep
<1> QED BY <1>6, <1>7, <1>8, <1>11 DEF Inv

\* Housekeeping marks a recording it could not start as failed.
LEMMA HousekeepingFailStep ==
  ASSUME Inv, NEW p \in Pid, HousekeepingFail(p)
  PROVE  Inv'
<1>1. PICK w \in hk[p].fail : /\ rec' = [rec EXCEPT ![w[1]] = [w[2] EXCEPT !.status = "FAILED"]]
                              /\ hk' = [hk EXCEPT ![p].fail = @ \ {w}]
                              /\ taken' = taken \cup stale(w)
  BY DEF HousekeepingFail
<1>2. p \in alive /\ UNCHANGED <<now, alive, epg, pend, rq, aa, lb, disk, upd>>
  BY DEF HousekeepingFail
<1>3. w[1] \in Key /\ w[2] \in GoodRec /\ HkOK(hk[p], now) /\ w[2].status = "SCHEDULED"
  BY HkCopy
<1>4. hk' = [hk EXCEPT ![p] = [hk[p] EXCEPT !.fail = @ \ {w}]]
  BY <1>1
<1>5. PICK h : h = [hk[p] EXCEPT !.fail = @ \ {w}]
  OBVIOUS
<1>6. HkOK(h, now) /\ hk' = [hk EXCEPT ![p] = h]
  BY <1>3, <1>4, <1>5, HkLess
<1>7. HkInv' /\ \A q \in Pid \ {p} : hk'[q] = hk[q]
  BY <1>2, <1>6, HkStep DEF Inv
<1>8. PICK r : r = [w[2] EXCEPT !.status = "FAILED"]
  OBVIOUS
<1>9. rec' = [rec EXCEPT ![w[1]] = r] /\ r \in GoodRec /\ rec \in [Key -> GoodRec]
  BY <1>1, <1>3, <1>8, NewRecords DEF Inv, DataInv
<1>10. DataInv' /\ UpdInv'
  BY <1>2, <1>3, <1>9 DEF Inv, DataInv, UpdInv
<1>11. TodoTypes' /\ \A q \in Pid : Todo(q)' = Todo(q)
  BY <1>2, TodoUnchanged DEF Inv, TaskTypes
<1>12. taken \subseteq taken' /\ (taken' = {} => rec[w[1]] = w[2])
  BY <1>1, NotStale
<1>13. taken' = {} => \A q \in alive : GoesOn(rec, rec', q, {})
  BY <1>3, <1>9, <1>12, GoesOnBut
<1>14. \A q \in Pid \ {p} : hk'[q] = hk[q] /\ pend'[q] = pend[q] /\ rq'[q] = rq[q] /\ upd'[q] = upd[q]
  BY <1>2, <1>7
<1>15. UNCHANGED <<now, alive, aa, lb>>
  BY <1>2
<1> QED BY <1>2, <1>7, <1>10, <1>11, <1>12, <1>13, <1>14, <1>15, RecordStep

\* Housekeeping starts a recording.
LEMMA HousekeepingStartStep ==
  ASSUME Inv, NEW p \in Pid, HousekeepingStart(p)
  PROVE  Inv'
<1>1. PICK w \in hk[p].start :
        LET s == next_subscription_id(p) IN
        /\ rec' = [rec EXCEPT ![w[1]] = [status |-> "IN_PROGRESS", owner |-> p, sub |-> s]]
        /\ pend' = [pend EXCEPT ![p] =
                      [key |-> w[1], status |-> "IN_PROGRESS",
                       task |-> <<[op |-> "start", key |-> w[1], sub |-> s]>>]]
        /\ hk' = [hk EXCEPT ![p].start = @ \ {w}]
        /\ taken' = taken \cup stale(w)
  BY DEF HousekeepingStart
<1>2. p \in alive /\ pend[p] = NoPend /\ UNCHANGED <<now, alive, epg, rq, aa, lb, disk, upd>>
  BY DEF HousekeepingStart
<1>3. w[1] \in Key /\ w[2] \in GoodRec /\ HkOK(hk[p], now) /\ w[2].status = "SCHEDULED"
  BY HkCopy
<1>4. PICK s : s = next_subscription_id(p)
  OBVIOUS
<1>5. PICK t : t = [op |-> "start", key |-> w[1], sub |-> s]
  OBVIOUS
<1>6. PICK h : h = [hk[p] EXCEPT !.start = @ \ {w}]
  OBVIOUS
<1>7. /\ rec' = [rec EXCEPT ![w[1]] = InProgress(p, s)]
      /\ hk' = [hk EXCEPT ![p] = h]
      /\ PendTask(p, w[1], "IN_PROGRESS", t) /\ TaskIs(t, "start", w[1], s)
      /\ taken' = taken \cup stale(w)
  BY <1>1, <1>2, <1>4, <1>5, <1>6 DEF InProgress, PendTask, TaskIs
<1>8. HkOK(h, now)
  BY <1>3, <1>6, HkLess
<1>9. HkInv' /\ \A q \in Pid \ {p} : hk'[q] = hk[q]
  BY <1>2, <1>7, <1>8, HkStep DEF Inv
<1>10. rec \in [Key -> GoodRec] /\ TaskTypes /\ QueueInv /\ aa' = aa /\ lb' = lb
  BY <1>2 DEF Inv, DataInv
<1>11. /\ TaskTypes' /\ QueueInv' /\ OthersTodo(p) /\ Todo(p)' = Append(Todo(p), t)
       /\ t \in Task /\ s \in Nat /\ t.sub = s
  BY <1>2, <1>3, <1>4, <1>7, <1>10, TasksStart
<1>12. InProgress(p, s) \in GoodRec
  BY <1>11, NewRecords
<1>13. rec' \in [Key -> GoodRec] /\ rec'[w[1]] = InProgress(p, s)
  BY <1>3, <1>7, <1>10, <1>12
<1>14. DataInv' /\ UpdInv'
  BY <1>2, <1>13 DEF Inv, DataInv, UpdInv
<1>15. \A q \in Pid \ {p} : pend'[q] = pend[q]
  BY <1>7 DEF Inv, TaskTypes, TodoTypes, PendTask
<1>16. DeadInv'
  BY <1>2, <1>9, <1>15, DeadOthers DEF Inv
<1>17. RunInv'
  BY <1>2 DEF Inv, RunInv
<1>18. taken \subseteq taken' /\ (taken' = {} => rec[w[1]] = w[2])
  BY <1>7, NotStale
<1>19. taken' = {} => \A q \in alive : GoesOn(rec, rec', q, {})
  BY <1>3, <1>7, <1>10, <1>18, GoesOnBut
<1>20. ASSUME taken' = {} PROVE Kept(rec', Todo(p)', aa'[p], p)
  <2>1. Kept(rec, Todo(p), aa[p], p)
    BY <1>2, <1>18, <1>20 DEF Inv, OrphanInv
  <2>2. Todo(p) \in Seq(Task) /\ aa[p] \in SUBSET Nat
    BY TodoOf DEF Inv, TaskTypes, HeldTypes
  <2>3. \E k \in Key : rec'[k] = InProgress(p, t.sub)
    BY <1>3, <1>11, <1>13
  <2>4. GoesOn(rec, rec', p, {})
    BY <1>2, <1>19, <1>20
  <2>5. Kept(rec', Append(Todo(p), t), aa[p], p)
    BY <1>11, <2>1, <2>2, <2>3, <2>4, KeptAppend
  <2> QED BY <1>10, <1>11, <2>5
<1>21. OrphanInv'
  <2>1. OrphanInv /\ TaskTypes /\ alive \subseteq Pid /\ alive' \subseteq alive \cup {p}
    BY <1>2 DEF Inv, RunInv
  <2>2. \A q \in Pid \ {p} : aa'[q] = aa[q]
    BY <1>10
  <2> QED BY <1>11, <1>18, <1>19, <1>20, <2>1, <2>2, OrphanStep
<1> QED BY <1>9, <1>11, <1>14, <1>16, <1>17, <1>21 DEF Inv

\* The second transaction of update_recording, and the task that follows it.
LEMMA UpdateEpgStatusStep ==
  ASSUME Inv, NEW p \in Pid, UpdateEpgStatus(p)
  PROVE  Inv'
<1>0. /\ p \in alive /\ UNCHANGED <<now, rec, lb, disk, taken>>
      /\ pend[p].status \notin {"COPYING", "LINKED"}
      /\ rec \in [Key -> GoodRec] /\ epg \in [Key -> GuideStatus] /\ disk \subseteq Key
  BY DEF UpdateEpgStatus, Inv, DataInv
<1>1. CASE Dies(p) /\ UNCHANGED epg
  <2>1. DataInv'
    BY <1>0, <1>1 DEF DataInv
  <2>2. Fewer(lb')
    BY <1>0, SubsetFewer DEF Inv
  <2> QED BY <1>0, <1>1, <2>1, <2>2, EndStep
<1>2. CASE /\ epg' = IF epg[pend[p].key] = "absent" THEN epg
                     ELSE [epg EXCEPT ![pend[p].key] = pend[p].status]
           /\ rq' = [rq EXCEPT ![p] = @ \o pend[p].task]
           /\ pend' = [pend EXCEPT ![p] = NoPend]
           /\ UNCHANGED <<alive, hk, aa, upd>>
  <2>1. pend[p] \in PendType
    BY TodoOf DEF Inv, TaskTypes
  <2>2. pend[p].status \in GuideStatus
    BY <1>0, <2>1 DEF PendType, GuideStatus
  <2>3. epg' \in [Key -> GuideStatus]
    BY <1>0, <1>2, <2>2
  <2>4. DataInv' /\ UpdInv' /\ HkInv'
    BY <1>0, <1>2, <2>3 DEF Inv, DataInv, UpdInv, HkInv
  <2>5. TodoTypes' /\ \A q \in Pid : Todo(q)' = Todo(q)
    BY <1>2, TaskPushed DEF Inv, TaskTypes
  <2>6. \A q \in Pid \ {p} : hk'[q] = hk[q] /\ pend'[q] = pend[q] /\ rq'[q] = rq[q] /\ upd'[q] = upd[q]
    BY <1>2 DEF Inv, TaskTypes, TodoTypes
  <2>7. \A q \in alive : GoesOn(rec, rec', q, {})
    BY <1>0, GoesOnSame
  <2>8. UNCHANGED <<now, alive, aa, lb>> /\ taken \subseteq taken'
    BY <1>0, <1>2
  <2> QED BY <1>0, <2>4, <2>5, <2>6, <2>7, <2>8, RecordStep
<1> QED BY <1>1, <1>2 DEF UpdateEpgStatus

\* The recording that a toggle is about exists and is active.
LEMMA TargetActive ==
  ASSUME NEW p, NEW k \in Key, NEW j \in toggle_target(p, k)
  PROVE  j \in Key /\ rec[j].status \in Active
<1>1. \/ best_matching(rec, k, FALSE) = {}
      \/ \E i \in Key : best_matching(rec, k, FALSE) = {i} /\ rec[i].status \in Active /\ overlapping(i, k)
  BY BestMatching
<1>2. \/ best_matching(rec, k, TRUE) = {}
      \/ \E i \in Key : best_matching(rec, k, TRUE) = {i} /\ rec[i].status \in Active /\ overlapping(i, k)
  BY BestMatching
<1>3. j \in best_matching(rec, k, FALSE) \/ j \in best_matching(rec, k, TRUE)
  BY DEF toggle_target
<1> QED BY <1>1, <1>2, <1>3

\* The user cancels a recording.
LEMMA ToggleDeleteStep ==
  ASSUME Inv, NEW p \in Pid, NEW k \in Key, ToggleDelete(p, k)
  PROVE  Inv'
<1>1. PICK j \in toggle_target(p, k) :
        /\ rec[j].status = "SCHEDULED" /\ rec' = [rec EXCEPT ![j] = NoRec]
        /\ pend' = [pend EXCEPT ![p] = [key |-> j, status |-> "NONE", task |-> <<>>]]
  BY DEF ToggleDelete
<1>2. /\ p \in alive /\ pend[p] = NoPend /\ hk' = [hk EXCEPT ![p] = housekeeping(rec')]
      /\ UNCHANGED <<now, alive, epg, rq, aa, lb, disk, upd, taken>>
  BY DEF ToggleDelete, Request, Ready
<1>3. j \in Key /\ rec \in [Key -> GoodRec]
  BY TargetActive DEF Inv, DataInv
<1>4. rec' \in [Key -> GoodRec]
  BY <1>1, <1>3, NewRecords
<1>5. HkOK(housekeeping(rec'), now)
  BY <1>4, HousekeepingOK
<1>6. HkInv' /\ \A q \in Pid \ {p} : hk'[q] = hk[q]
  BY <1>2, <1>5, HkStep DEF Inv
<1>7. TodoTypes' /\ \A q \in Pid : Todo(q)' = Todo(q)
  BY <1>1, <1>2, <1>3, NothingToPush DEF Inv, TaskTypes
<1>8. DataInv' /\ UpdInv'
  BY <1>2, <1>4 DEF Inv, DataInv, UpdInv
<1>9. \A q \in alive : GoesOn(rec, rec', q, {})
  BY <1>1, <1>3, GoesOnBut
<1>10. \A q \in Pid \ {p} : hk'[q] = hk[q] /\ pend'[q] = pend[q] /\ rq'[q] = rq[q] /\ upd'[q] = upd[q]
  BY <1>1, <1>2, <1>6 DEF Inv, TaskTypes, TodoTypes
<1>11. UNCHANGED <<now, alive, aa, lb>> /\ taken \subseteq taken'
  BY <1>2
<1> QED BY <1>2, <1>6, <1>7, <1>8, <1>9, <1>10, <1>11, RecordStep

\* The user stops a recording.
LEMMA ToggleStopStep ==
  ASSUME Inv, NEW p \in Pid, NEW k \in Key, ToggleStop(p, k)
  PROVE  Inv'
<1>1. PICK j \in toggle_target(p, k) : stop_recording(p, j, rec[j]) /\ Finish(p, Idle)
  BY DEF ToggleStop
<1>2. p \in alive /\ pend[p] = NoPend /\ UNCHANGED <<now, rec, epg, disk, taken>>
  BY DEF ToggleStop, Request, Ready
<1>3. j \in Key /\ rec[j] \in GoodRec
  BY TargetActive DEF Inv, DataInv
<1>4. PICK r : r = rec[j]
  OBVIOUS
<1>5. r \in GoodRec /\ stop_recording(p, j, r)
  BY <1>1, <1>3, <1>4
<1> QED BY <1>1, <1>2, <1>3, <1>5, IdleOK, StopStep

\* A step of recmgr that schedules recordings.
LEMMA ScheduleStep ==
  ASSUME Inv, NEW p \in alive, rec' \in [Key -> GoodRec], epg' \in [Key -> GuideStatus],
         taken' = taken \cup taken_by(rec', Key), hk' = [hk EXCEPT ![p] = housekeeping(rec')],
         UNCHANGED <<now, alive, pend, rq, aa, lb, disk, upd>>
  PROVE  Inv'
<1>1. p \in Pid
  BY DEF Inv, RunInv
<1>2. HkOK(housekeeping(rec'), now)
  BY HousekeepingOK
<1>3. HkInv' /\ \A q \in Pid \ {p} : hk'[q] = hk[q]
  BY <1>1, <1>2, HkStep DEF Inv
<1>4. TodoTypes' /\ \A q \in Pid : Todo(q)' = Todo(q)
  BY TodoUnchanged DEF Inv, TaskTypes
<1>5. DataInv' /\ UpdInv'
  BY DEF Inv, DataInv, UpdInv
<1>6. taken \subseteq taken' /\ (taken' = {} => \A q \in alive : GoesOn(rec, rec', q, {}))
  BY GoesOnTaken
<1>7. \A q \in Pid \ {p} : hk'[q] = hk[q] /\ pend'[q] = pend[q] /\ rq'[q] = rq[q] /\ upd'[q] = upd[q]
  BY <1>3
<1>8. UNCHANGED <<now, alive, aa, lb>>
  OBVIOUS
<1> QED BY <1>3, <1>4, <1>5, <1>6, <1>7, <1>8, RecordStep

\* The user schedules a recording.
LEMMA ToggleNewStep ==
  ASSUME Inv, NEW p \in Pid, NEW k \in Key, ToggleNew(p, k)
  PROVE  Inv'
<1>0. p \in alive /\ UNCHANGED <<now, lb, disk>> /\ DataInv
  BY DEF ToggleNew, Request, Ready, Inv
<1>1. CASE Dies(p) /\ UNCHANGED <<rec, epg, taken>>
  <2>1. DataInv'
    BY <1>0, <1>1 DEF DataInv
  <2>2. Fewer(lb')
    BY <1>0, SubsetFewer DEF Inv
  <2> QED BY <1>0, <1>1, <2>1, <2>2, EndStep
<1>2. CASE /\ rec' = [rec EXCEPT ![k] = Scheduled] /\ epg' = [epg EXCEPT ![k] = "SCHEDULED"]
           /\ taken' = taken \cup taken_by(rec', Key)
           /\ hk' = [hk EXCEPT ![p] = housekeeping(rec')]
           /\ UNCHANGED <<alive, pend, rq, aa, upd>>
  <2>1. rec' \in [Key -> GoodRec] /\ epg' \in [Key -> GuideStatus]
    BY <1>0, <1>2, NewRecords DEF DataInv, GuideStatus
  <2> QED BY <1>0, <1>2, <2>1, ScheduleStep
<1> QED BY <1>1, <1>2 DEF ToggleNew

\* The user schedules a recording for a time range.
LEMMA ToggleNewAnonymousStep ==
  ASSUME Inv, NEW p \in Pid, NEW k \in Key, ToggleNewAnonymous(p, k)
  PROVE  Inv'
<1>0. /\ p \in alive /\ UNCHANGED <<now, alive, pend, rq, aa, lb, disk, upd>> /\ DataInv
      /\ taken' = taken \cup taken_by(rec', Key) /\ hk' = [hk EXCEPT ![p] = housekeeping(rec')]
  BY DEF ToggleNewAnonymous, Request, Ready, Inv
<1>1. \E new : /\ rec' = [j \in Key |-> IF j \in new THEN Scheduled ELSE rec[j]]
               /\ epg' = [j \in Key |-> IF j \in new THEN "SCHEDULED" ELSE epg[j]]
  BY DEF ToggleNewAnonymous
<1>2. rec' \in [Key -> GoodRec] /\ epg' \in [Key -> GuideStatus]
  BY <1>0, <1>1, NewRecords DEF DataInv, GuideStatus
<1> QED BY <1>0, <1>2, ScheduleStep

\* A tuner looks for the recording of a guide entry.
LEMMA EpgReadStep ==
  ASSUME Inv, SnapshotInv, NEW p \in Pid, NEW k \in Key, EpgRead(p, k)
  PROVE  Inv'
<1>0. p \in alive /\ UNCHANGED <<now, alive, rec, epg, hk, pend, rq, aa, lb, disk, taken>>
  BY DEF EpgRead
<1>1. UpdInv' /\ \A q \in Pid \ {p} : upd'[q] = upd[q]
  BY EpgReadOK DEF Inv, DataInv
<1>2. TodoTypes' /\ \A q \in Pid : Todo(q)' = Todo(q)
  BY <1>0, TodoUnchanged DEF Inv, TaskTypes
<1>3. DataInv' /\ HkInv'
  BY <1>0 DEF Inv, DataInv, HkInv
<1>4. \A q \in alive : GoesOn(rec, rec', q, {})
  BY <1>0, GoesOnSame
<1>5. \A q \in Pid \ {p} : hk'[q] = hk[q] /\ pend'[q] = pend[q] /\ rq'[q] = rq[q] /\ upd'[q] = upd[q]
  BY <1>0, <1>1
<1>6. UNCHANGED <<now, alive, aa, lb>> /\ taken \subseteq taken'
  BY <1>0
<1> QED BY <1>0, <1>1, <1>2, <1>3, <1>4, <1>5, <1>6, RecordStep

\* The keys a tuner found, and the events of its copies that are no longer right.
FoundKeys(u) == {w[1] : w \in u.found}
StaleFound(u) == UNION {stale_at(w, u.key) : w \in u.found}

\* A tuner stores a guide entry and the recordings it found for it.
LEMMA EpgStoreStep ==
  ASSUME Inv, NEW p \in Pid, EpgStore(p)
  PROVE  Inv'
<1> DEFINE u == upd[p]
<1>0. /\ p \in alive /\ UNCHANGED <<now, lb, disk>> /\ DataInv /\ rec \in [Key -> GoodRec]
      /\ upd[p] # NoUpd /\ UpdOK(upd[p]) /\ DOMAIN upd = Pid
  BY DEF EpgStore, Inv, UpdInv, DataInv
<1>1. CASE Dies(p) /\ UNCHANGED <<rec, epg, taken>>
  <2>1. DataInv'
    BY <1>0, <1>1 DEF DataInv
  <2>2. Fewer(lb')
    BY <1>0, SubsetFewer DEF Inv
  <2> QED BY <1>0, <1>1, <2>1, <2>2, EndStep
<1>2. CASE /\ ~epg_store_fails(u) /\ rec' = checked_autorecs(u)
           /\ epg' = [j \in Key |->
                        IF j = u.key
                        THEN IF u.key \in Autorec /\ marked(u) = "NONE"
                             THEN "SCHEDULED" ELSE marked(u)
                        ELSE IF j \notin Anonymous /\ Event[j] = Event[u.key]
                             THEN "absent" ELSE epg[j]]
           /\ taken' = taken \cup StaleFound(u) \cup taken_by(rec', Key \ FoundKeys(u))
           /\ upd' = [upd EXCEPT ![p] = NoUpd]
           /\ UNCHANGED <<alive, hk, pend, rq, aa>>
  <2>1. Stored(u, rec, rec')
    BY <1>0, <1>2, EpgStored
  <2>2. rec' \in [Key -> GoodRec]
    BY <1>0, <2>1, StoredGood
  <2>3. marked(u) \in GuideStatus
    <3>1. CASE u.found = {}
      BY <3>1 DEF marked, GuideStatus
    <3>2. ASSUME NEW w \in u.found, u.found = {w}, Matches(u, w)
          PROVE  marked(u) \in GuideStatus
      BY <3>2 DEF marked, GuideStatus, Matches, Active
    <3> QED BY <1>0, <3>1, <3>2 DEF UpdOK
  <2>4. epg' \in [Key -> GuideStatus]
    <3>1. \A j \in Key : epg[j] \in GuideStatus
      BY <1>0 DEF DataInv
    <3>2. "SCHEDULED" \in GuideStatus /\ "absent" \in GuideStatus
      BY DEF GuideStatus
    <3> HIDE DEF u
    <3> QED BY <1>2, <2>3, <3>1, <3>2
  <2>5. DataInv'
    BY <1>0, <2>2, <2>4 DEF DataInv
  <2>6. UpdInv' /\ \A q \in Pid \ {p} : upd'[q] = upd[q]
    BY <1>0, <1>2 DEF Inv, UpdInv
  <2>7. HkInv'
    BY <1>0, <1>2 DEF Inv, HkInv
  <2>8. TodoTypes' /\ \A q \in Pid : Todo(q)' = Todo(q)
    BY <1>2, TodoUnchanged DEF Inv, TaskTypes
  <2>9. taken \subseteq taken' /\ (taken' = {} => \A q \in alive : GoesOn(rec, rec', q, {}))
    <3>1. taken \subseteq taken'
      BY <1>2
    <3>2. ASSUME taken' = {}, NEW q \in alive
          PROVE  GoesOn(rec, rec', q, {})
      <4> DEFINE S == StaleFound(u)
                 T == taken_by(rec', Key \ FoundKeys(u))
      <4>0. taken' = taken \cup S \cup T
        BY <1>2
      <4> HIDE DEF S, T
      <4>1. T = {} /\ S = {}
        BY <3>2, <4>0
      <4>2. ASSUME NEW w \in u.found PROVE rec[w[1]] = w[2]
        <5>1. stale_at(w, u.key) = {}
          BY <4>1 DEF S, StaleFound
        <5> QED BY <5>1 DEF stale_at
      <4> HIDE DEF u
      <4>3. UpdOK(u)
        BY <1>0 DEF u
      <4> QED BY <1>0, <2>1, <4>1, <4>2, <4>3, GoesOnStored DEF T, FoundKeys
    <3> QED BY <3>1, <3>2
  <2>10. \A q \in Pid \ {p} : hk'[q] = hk[q] /\ pend'[q] = pend[q] /\ rq'[q] = rq[q] /\ upd'[q] = upd[q]
    BY <1>2, <2>6
  <2>11. UNCHANGED <<now, alive, aa, lb>>
    BY <1>0, <1>2
  <2> QED BY <1>0, <2>5, <2>6, <2>7, <2>8, <2>9, <2>10, <2>11, RecordStep
<1> QED BY <1>1, <1>2 DEF EpgStore, StaleFound, FoundKeys

\* The receiver thread executes a task.
LEMMA TaskStep ==
  ASSUME Inv, NEW p \in Pid, StartTask(p) \/ UnsubscribeTask(p)
  PROVE  Inv'
<1>0. /\ p \in alive /\ UNCHANGED <<now, alive, rec, epg, hk, pend, disk, upd, taken>>
      /\ rq' = [rq EXCEPT ![p] = Tail(@)]
  BY DEF StartTask, UnsubscribeTask
<1>1. /\ TaskTypes' /\ QueueInv' /\ OthersTodo(p) /\ Todo(p)' = Tail(Todo(p)) /\ Todo(p) # <<>>
      /\ \/ Head(Todo(p)).op = "start" /\ aa'[p] \in {aa[p], aa[p] \cup {Head(Todo(p)).sub}}
         \/ Head(Todo(p)).op = "unsubscribe" /\ aa'[p] = aa[p] \ {Head(Todo(p)).sub}
      /\ \A q \in Pid \ {p} : aa'[q] = aa[q]
  <2>1. CASE StartTask(p)
    BY <2>1, TasksStarted DEF Inv
  <2>2. CASE UnsubscribeTask(p)
    BY <2>2, TasksReleased DEF Inv
  <2> QED BY <2>1, <2>2
<1>2. RunInv' /\ DataInv' /\ HkInv' /\ UpdInv'
  BY <1>0 DEF Inv, RunInv, DataInv, HkInv, UpdInv
<1>3. \A q \in Pid \ {p} : rq'[q] = rq[q]
  BY <1>0 DEF Inv, TaskTypes, TodoTypes
<1>4. DeadInv'
  BY <1>0, <1>1, <1>3, DeadOthers DEF Inv
<1>5. ASSUME taken' = {} PROVE Kept(rec', Todo(p)', aa'[p], p)
  <2>1. Kept(rec, Todo(p), aa[p], p)
    BY <1>0, <1>5 DEF Inv, OrphanInv
  <2>2. Todo(p) \in Seq(Task) /\ aa[p] \in SUBSET Nat
    BY TodoOf DEF Inv, TaskTypes, HeldTypes
  <2>3. QueueOK(Todo(p), aa[p], p, lb)
    BY DEF Inv, QueueInv
  <2>4. Kept(rec, Tail(Todo(p)), aa'[p], p)
    BY <1>1, <2>1, <2>2, <2>3, KeptTail
  <2> QED BY <1>0, <1>1, <2>4
<1>6. OrphanInv'
  <2>1. OrphanInv /\ TaskTypes /\ alive \subseteq Pid /\ alive' \subseteq alive \cup {p}
        /\ taken \subseteq taken'
    BY <1>0 DEF Inv, RunInv
  <2>2. \A q \in alive \ {p} : GoesOn(rec, rec', q, {})
    BY <1>0, GoesOnSame
  <2> QED BY <1>1, <1>5, <2>1, <2>2, OrphanStep
<1> QED BY <1>1, <1>2, <1>4, <1>6 DEF Inv

\* A process crashes or exits.
LEMMA CrashStep ==
  ASSUME Inv, NEW p \in Pid, Crash(p) \/ Exit(p)
  PROVE  Inv'
<1>1. Dies(p) /\ UNCHANGED <<now, rec, epg, disk, taken>>
  BY DEF Crash, Exit
<1>2. DataInv'
  BY <1>1 DEF Inv, DataInv
<1>3. Fewer(lb')
  <2>1. CASE Crash(p)
    BY <2>1, SubsetFewer DEF Crash, Inv
  <2>2. CASE Exit(p)
    <3>1. lb' = {IF b.owner = p THEN [b EXCEPT !.recs = {}] ELSE b : b \in lb}
      BY <2>2 DEF Exit
    <3>2. Fewer({IF b.owner = p THEN [b EXCEPT !.recs = {}] ELSE b : b \in lb})
      BY ExitFewer DEF Inv
    <3> QED BY <3>1, <3>2
  <2> QED BY <2>1, <2>2
<1> QED BY <1>1, <1>2, <1>3, EndStep

\* A process starts, repairs the databases and removes the buffers of the dead.
LEMMA StartupStep ==
  ASSUME Inv, NEW p \in Pid, Startup(p)
  PROVE  Inv'
<1>0. /\ p \notin alive /\ Cardinality(alive) < MaxAlive /\ alive' = alive \cup {p}
      /\ rec' = [k \in Key |-> restarted(k)] /\ epg' = [k \in Key |-> cleaned(k)]
      /\ taken' = taken \cup taken_by(rec', Key)
      /\ disk' = disk \cup finalized({b \in lb : b.owner \notin alive})
      /\ lb' = lb \ {b \in lb : b.owner \notin alive}
      /\ UNCHANGED <<now, hk, pend, rq, aa, upd>>
  BY DEF Startup
<1>1. RunInv'
  <2>1. IsFiniteSet(alive) /\ MaxAlive \in Nat /\ alive \subseteq Pid
    BY RecMgrAssumption DEF Inv, RunInv
  <2>2. IsFiniteSet(alive \cup {p}) /\ Cardinality(alive \cup {p}) = Cardinality(alive) + 1
    BY <1>0, <2>1, FS_AddElement
  <2>3. Cardinality(alive) \in Nat
    BY <2>1, FS_CardinalityType
  <2>4. Cardinality(alive') <= MaxAlive
    BY <1>0, <2>1, <2>2, <2>3
  <2> QED BY <1>0, <2>1, <2>2, <2>4 DEF Inv, RunInv
<1>2. DataInv'
  <2>1. rec \in [Key -> GoodRec] /\ epg \in [Key -> GuideStatus] /\ disk \subseteq Key
    BY DEF Inv, DataInv
  <2>2. \A k \in Key : restarted(k) \in GoodRec
    BY <2>1, NewRecords DEF restarted
  <2>3. \A k \in Key : cleaned(k) \in GuideStatus
    BY <2>1 DEF cleaned, GuideStatus
  <2>4. lb \in SUBSET Buffer
    BY DEF Inv, TaskTypes, HeldTypes
  <2>5. \A b \in lb : b.recs \subseteq Key
    BY <2>4 DEF Buffer
  <2>6. disk' \subseteq Key
    BY <1>0, <2>1, <2>5 DEF finalized
  <2>7. rec' \in [Key -> GoodRec]
    BY <1>0, <2>2
  <2>8. epg' \in [Key -> GuideStatus]
    BY <1>0, <2>3
  <2> QED BY <2>6, <2>7, <2>8 DEF DataInv
<1>3. HkInv' /\ UpdInv' /\ DeadInv'
  BY <1>0 DEF Inv, HkInv, UpdInv, DeadInv
<1>4. TaskTypes' /\ QueueInv'
  <2>1. lb' \in SUBSET lb /\ UNCHANGED <<pend, rq, aa>>
    BY <1>0
  <2> QED BY <2>1, TasksCleaned DEF Inv
<1>5. OrphanInv'
  <2>1. rq[p] = <<>> /\ pend[p] = NoPend /\ aa[p] = {}
    BY <1>0 DEF Inv, DeadInv
  <2>2. Todo(p)' = <<>> /\ aa'[p] = {}
    BY <1>0, <2>1 DEF Todo, NoPend
  <2>3. Kept(rec', Todo(p)', aa'[p], p)
    BY <2>2 DEF Kept
  <2>4. /\ OthersTodo(p) /\ \A q \in Pid \ {p} : aa'[q] = aa[q]
        /\ OrphanInv /\ TaskTypes /\ alive \subseteq Pid /\ alive' \subseteq alive \cup {p}
        /\ taken \subseteq taken'
    BY <1>0 DEF OthersTodo, Todo, Inv, RunInv
  <2>5. taken' = {} => \A q \in alive \ {p} : GoesOn(rec, rec', q, {})
    BY <1>0, GoesOnTaken
  <2> QED BY <2>3, <2>4, <2>5, OrphanStep
<1> QED BY <1>1, <1>2, <1>3, <1>4, <1>5 DEF Inv

\* The databases are empty and nothing runs.
LEMMA InitInv ==
  ASSUME Init
  PROVE  Inv
<1>0. /\ now = 0 /\ alive = {} /\ rec = [k \in Key |-> NoRec]
      /\ epg \in [Key -> {"absent", "NONE"}]
      /\ hk = [p \in Pid |-> Idle] /\ pend = [p \in Pid |-> NoPend]
      /\ rq = [p \in Pid |-> <<>>] /\ aa = [p \in Pid |-> {}]
      /\ lb = {} /\ disk = {} /\ upd = [p \in Pid |-> NoUpd] /\ taken = {}
  BY DEF Init
<1>1. RunInv
  <2>1. IsFiniteSet({}) /\ Cardinality({}) = 0
    BY FS_EmptySet
  <2> QED BY <1>0, <2>1, RecMgrAssumption DEF RunInv
<1>2. DataInv
  BY <1>0, NewRecords DEF DataInv, GuideStatus
<1>3. HkInv /\ UpdInv
  BY <1>0, IdleOK DEF HkInv, UpdInv
<1>4. DeadInv
  BY <1>0 DEF DeadInv
<1>5. TodoTypes
  BY <1>0, NoPendType DEF TodoTypes
<1>6. TaskTypes
  BY <1>0, <1>5, FS_EmptySet DEF TaskTypes, HeldTypes
<1>7. QueueInv
  <2>1. BuffersOK(lb)
    BY <1>0 DEF BuffersOK
  <2>2. ASSUME NEW p \in Pid PROVE QueueOK(Todo(p), aa[p], p, lb)
    <3>1. Todo(p) = <<>>
      BY <1>0 DEF Todo, NoPend
    <3> QED BY <3>1 DEF QueueOK
  <2> QED BY <2>1, <2>2 DEF QueueInv
<1>8. OrphanInv
  BY <1>0 DEF OrphanInv
<1> QED BY <1>1, <1>2, <1>3, <1>4, <1>6, <1>7, <1>8 DEF Inv

\* Nothing happens.
LEMMA StutterStep ==
  ASSUME Inv, UNCHANGED vars
  PROVE  Inv'
<1>0. UNCHANGED <<now, alive, rec, epg, hk, pend, rq, aa, lb, disk, upd, taken>>
  BY DEF vars
<1>1. RunInv' /\ DataInv' /\ HkInv' /\ UpdInv' /\ DeadInv'
  BY <1>0 DEF Inv, RunInv, DataInv, HkInv, UpdInv, DeadInv
<1>2. TodoTypes' /\ \A q \in Pid : Todo(q)' = Todo(q)
  BY <1>0, TodoUnchanged DEF Inv, TaskTypes
<1>3. TaskTypes' /\ QueueInv'
  BY <1>0, <1>2, TasksSame DEF Inv
<1>4. \A q \in alive : GoesOn(rec, rec', q, {})
  BY <1>0, GoesOnSame
<1>5. OrphanInv'
  BY <1>0, <1>2, <1>4, OrphanQuiet DEF Inv, RunInv
<1> QED BY <1>1, <1>3, <1>5 DEF Inv

\* Every step preserves the invariant.
LEMMA NextInv ==
  ASSUME Inv, SnapshotInv, StopInv, [Next]_vars
  PROVE  Inv'
<1>1. CASE Tick
  BY <1>1, TickStep
<1>2. ASSUME NEW p \in Pid, Manager(p)
      PROVE  Inv'
  BY <1>2, HousekeepingStep, HousekeepingStopStep, HousekeepingFailStep,
     HousekeepingStartStep, UpdateEpgStatusStep, LinkFilesStep, StoreFinishedStep DEF Manager
<1>3. ASSUME NEW p \in Pid, StartTask(p) \/ UnsubscribeTask(p)
      PROVE  Inv'
  BY <1>3, TaskStep
<1>4. ASSUME NEW p \in Pid, EpgStore(p)
      PROVE  Inv'
  BY <1>4, EpgStoreStep
<1>5. ASSUME NEW p \in Pid, Crash(p) \/ Exit(p)
      PROVE  Inv'
  BY <1>5, CrashStep
<1>6. ASSUME NEW p \in Pid, Startup(p)
      PROVE  Inv'
  BY <1>6, StartupStep
<1>7. ASSUME NEW p \in Pid, NEW k \in Key,
             \/ ToggleDelete(p, k) \/ ToggleStop(p, k) \/ ToggleNew(p, k)
             \/ ToggleNewAnonymous(p, k) \/ EpgRead(p, k)
      PROVE  Inv'
  BY <1>7, ToggleDeleteStep, ToggleStopStep, ToggleNewStep, ToggleNewAnonymousStep, EpgReadStep
<1>8. CASE UNCHANGED vars
  BY <1>8, StutterStep
<1> QED BY <1>1, <1>2, <1>3, <1>4, <1>5, <1>6, <1>7, <1>8 DEF Next

\* The read transactions of the tuners show records.
LEMMA NextSnapshot ==
  ASSUME Inv, SnapshotInv, [Next]_vars
  PROVE  SnapshotInv'
<1>1. CASE rtxn' = rtxn
  BY <1>1 DEF SnapshotInv
<1>2. ASSUME NEW p \in Pid, Dies(p)
      PROVE  SnapshotInv'
  BY <1>2 DEF SnapshotInv, Dies
<1>3. ASSUME NEW p \in Pid, NEW k \in Key, EpgRead(p, k)
      PROVE  SnapshotInv'
  <2>1. PICK db \in {rec} \cup rtxn[p] : rtxn' = [rtxn EXCEPT ![p] = @ \cup {db}]
    BY <1>3 DEF EpgRead
  <2>2. db \in [Key -> GoodRec]
    BY DEF SnapshotInv, Inv, DataInv
  <2> QED BY <2>1, <2>2 DEF SnapshotInv
<1>4. ASSUME NEW p \in Pid, Manager(p)
      PROVE  rtxn' = rtxn \/ Dies(p)
  BY <1>4 DEF Manager, Housekeeping, HousekeepingStop, HousekeepingFail, HousekeepingStart,
              UpdateEpgStatus, LinkFiles, StoreFinished, Finish
<1>5. ASSUME NEW p \in Pid,
             \/ StartTask(p) \/ UnsubscribeTask(p) \/ EpgStore(p)
             \/ Crash(p) \/ Exit(p) \/ Startup(p)
      PROVE  rtxn' = rtxn \/ Dies(p)
  BY <1>5 DEF StartTask, UnsubscribeTask, EpgStore, Crash, Exit, Startup
<1>6. ASSUME NEW p \in Pid, NEW k \in Key,
             ToggleDelete(p, k) \/ ToggleStop(p, k) \/ ToggleNew(p, k) \/ ToggleNewAnonymous(p, k)
      PROVE  rtxn' = rtxn \/ Dies(p)
  BY <1>6 DEF ToggleDelete, ToggleStop, ToggleNew, ToggleNewAnonymous, Finish
<1>7. CASE Tick \/ UNCHANGED vars
  BY <1>1, <1>7 DEF Tick, vars
<1> QED BY <1>1, <1>2, <1>3, <1>4, <1>5, <1>6, <1>7 DEF Next

\* recmgr of process p goes on to d.
LEMMA StopChange ==
  ASSUME StopInv, TodoTypes, NEW p \in Pid, NEW d, StopOK(d), pend' = [pend EXCEPT ![p] = d]
  PROVE  StopInv'
<1>1. pend'[p] = d /\ \A q \in Pid \ {p} : pend'[q] = pend[q]
  BY DEF TodoTypes
<1> QED BY <1>1 DEF StopInv

\* stop_recording leaves the link of the files, the store and the release to do.
LEMMA StopLeft ==
  ASSUME Inv, StopInv, NEW p \in alive, NEW k \in Key, NEW r \in GoodRec,
         stop_recording(p, k, r), NEW h, Finish(p, h)
  PROVE  StopInv'
<1>0. p \in Pid /\ TodoTypes /\ StopOK(NoPend)
  BY DEF Inv, RunInv, TaskTypes, StopOK, NoPend
<1>1. CASE pend' = pend
  BY <1>1 DEF StopInv
<1>2. CASE Dies(p)
  BY <1>0, <1>2, StopChange DEF Dies
<1> DEFINE t == [op |-> "unsubscribe", key |-> k, sub |-> r.sub]
           d == [key |-> k, status |-> "COPYING", task |-> <<t>>]
<1>3. CASE pend' = [pend EXCEPT ![p] = d]
  <2>1. r.sub \in Nat
    BY DEF GoodRec, RecType
  <2>2. t \in Task /\ t.op = "unsubscribe"
    BY <2>1 DEF Task
  <2> HIDE DEF t
  <2>3. StopOK(d)
    BY <2>2 DEF StopOK
  <2> HIDE DEF d
  <2> QED BY <1>0, <1>3, <2>3, StopChange
<1>4. p \in alive' \/ Dies(p)
  BY DEF Finish
<1>5. p \in alive' => pend' = pend \/ pend' = [pend EXCEPT ![p] = d]
  BY DEF stop_recording
<1> QED BY <1>1, <1>2, <1>3, <1>4, <1>5

\* A step of recmgr keeps what is left of stop_recording in order.
LEMMA ManagerStop ==
  ASSUME Inv, StopInv, NEW p \in Pid, Manager(p)
  PROVE  StopInv'
<1>0. TodoTypes /\ StopOK(NoPend)
  BY DEF Inv, TaskTypes, StopOK, NoPend
<1>1. CASE pend' = pend
  BY <1>1 DEF StopInv
<1>2. CASE HousekeepingStop(p)
  <2>1. PICK w \in hk[p].stop : /\ stop_recording(p, w[1], w[2])
                                /\ Finish(p, [hk[p] EXCEPT !.stop = @ \ {w}])
    BY <1>2 DEF HousekeepingStop
  <2>2. PICK h : h = [hk[p] EXCEPT !.stop = @ \ {w}]
    OBVIOUS
  <2>3. p \in alive /\ w[1] \in Key /\ w[2] \in GoodRec
    BY <1>2, HkCopy DEF HousekeepingStop
  <2> QED BY <2>1, <2>2, <2>3, StopLeft
<1>3. CASE HousekeepingStart(p)
  <2>1. PICK d : d.status = "IN_PROGRESS" /\ pend' = [pend EXCEPT ![p] = d]
    BY <1>3 DEF HousekeepingStart
  <2>2. StopOK(d)
    BY <2>1 DEF StopOK
  <2> QED BY <1>0, <2>1, <2>2, StopChange
<1>4. CASE UpdateEpgStatus(p)
  <2>1. pend' = [pend EXCEPT ![p] = NoPend]
    BY <1>4 DEF UpdateEpgStatus, Dies
  <2> QED BY <1>0, <2>1, StopChange
<1>5. CASE LinkFiles(p) \/ StoreFinished(p)
  <2>1. PICK st \in {"LINKED", "FINISHED"} : pend' = [pend EXCEPT ![p].status = st]
    BY <1>5 DEF LinkFiles, StoreFinished
  <2>2. pend[p].status \in {"COPYING", "LINKED"} /\ rq' = rq
    BY <1>5 DEF LinkFiles, StoreFinished
  <2>3. /\ \A q \in Pid \ {p} : pend'[q] = pend[q]
        /\ pend'[p].key = pend[p].key /\ pend'[p].task = pend[p].task
    BY <1>0, <2>1, <2>2, StopGoesOn
  <2>4. StopOK(pend'[p])
    BY <2>2, <2>3 DEF StopInv, StopOK
  <2> QED BY <2>3, <2>4 DEF StopInv
<1>6. CASE Housekeeping(p) \/ HousekeepingFail(p)
  BY <1>1, <1>6 DEF Housekeeping, HousekeepingFail
<1> QED BY <1>2, <1>3, <1>4, <1>5, <1>6 DEF Manager

\* Every step keeps what is left of stop_recording in order.
LEMMA NextStop ==
  ASSUME Inv, StopInv, [Next]_vars
  PROVE  StopInv'
<1>0. TodoTypes /\ StopOK(NoPend)
  BY DEF Inv, TaskTypes, StopOK, NoPend
<1>1. CASE pend' = pend
  BY <1>1 DEF StopInv
<1>2. ASSUME NEW p \in Pid, Dies(p)
      PROVE  StopInv'
  BY <1>0, <1>2, StopChange DEF Dies
<1>3. ASSUME NEW p \in Pid, NEW k \in Key, ToggleStop(p, k)
      PROVE  StopInv'
  <2>1. PICK j \in toggle_target(p, k) : stop_recording(p, j, rec[j]) /\ Finish(p, Idle)
    BY <1>3 DEF ToggleStop
  <2>2. p \in alive /\ j \in Key /\ rec[j] \in GoodRec
    BY <1>3, TargetActive DEF ToggleStop, Request, Ready, Inv, DataInv
  <2>3. PICK r : r = rec[j]
    OBVIOUS
  <2> QED BY <2>1, <2>2, <2>3, StopLeft
<1>4. ASSUME NEW p \in Pid, NEW k \in Key, ToggleDelete(p, k)
      PROVE  StopInv'
  <2>1. PICK d : d.status = "NONE" /\ pend' = [pend EXCEPT ![p] = d]
    BY <1>4 DEF ToggleDelete
  <2>2. StopOK(d)
    BY <2>1 DEF StopOK
  <2> QED BY <1>0, <2>1, <2>2, StopChange
<1>5. ASSUME NEW p \in Pid,
             \/ StartTask(p) \/ UnsubscribeTask(p) \/ EpgStore(p)
             \/ Crash(p) \/ Exit(p) \/ Startup(p)
      PROVE  pend' = pend \/ Dies(p)
  BY <1>5 DEF StartTask, UnsubscribeTask, EpgStore, Crash, Exit, Startup
<1>6. ASSUME NEW p \in Pid, NEW k \in Key,
             ToggleNew(p, k) \/ ToggleNewAnonymous(p, k) \/ EpgRead(p, k)
      PROVE  pend' = pend \/ Dies(p)
  BY <1>6 DEF ToggleNew, ToggleNewAnonymous, EpgRead
<1>7. CASE Tick \/ UNCHANGED vars
  BY <1>1, <1>7 DEF Tick, vars
<1> QED BY <1>1, <1>2, <1>3, <1>4, <1>5, <1>6, <1>7, ManagerStop DEF Next

\* The invariant of the recording manager.
THEOREM RecInvariant == Spec => [](Inv /\ SnapshotInv /\ StopInv)
<1>1. Init => Inv /\ SnapshotInv /\ StopInv
  <2>1. Init => SnapshotInv
    BY DEF Init, SnapshotInv
  <2>2. Init => StopInv
    BY DEF Init, StopInv, StopOK, NoPend
  <2> QED BY <2>1, <2>2, InitInv
<1>2. Inv /\ SnapshotInv /\ StopInv /\ [Next]_vars => Inv' /\ SnapshotInv' /\ StopInv'
  BY NextInv, NextSnapshot, NextStop
<1> QED BY <1>1, <1>2, PTL DEF Spec

\* A recording that is not in progress has neither an owner nor a subscription.
THEOREM RecTypes == Spec => []RecTypeOK
<1>1. Inv => RecTypeOK
  <2> SUFFICES ASSUME Inv PROVE RecTypeOK
    OBVIOUS
  <2>1. /\ now \in 0 .. MaxTime /\ alive \subseteq Pid /\ Cardinality(alive) <= MaxAlive
        /\ disk \subseteq Key
        /\ epg \in [Key -> {"absent", "NONE", "SCHEDULED", "IN_PROGRESS", "FINISHED"}]
    BY DEF Inv, RunInv, DataInv, GuideStatus
  <2>2. \A r \in GoodRec : /\ r \in RecType
                           /\ r.status # "IN_PROGRESS" => r.owner = NoPid /\ r.sub = NoSub
    BY DEF GoodRec
  <2>3. rec \in [Key -> GoodRec]
    BY DEF Inv, DataInv
  <2>4. rec \in [Key -> RecType]
    BY <2>2, <2>3
  <2> QED BY <2>1, <2>2, <2>3, <2>4 DEF RecTypeOK
<1> QED BY <1>1, RecInvariant, PTL

\* No tuner is kept for nothing: a subscription that a running process holds for a
\* recording, or is about to make, belongs to a recording in progress or is being
\* released, unless a record was overwritten from a stale copy or by another instance.
THEOREM NothingOrphaned == Spec => []NoOrphanSubscription
<1>1. Inv => NoOrphanSubscription
  <2> SUFFICES ASSUME Inv, taken = {}, NEW p \in alive, NEW s \in recording_subs(p)
               PROVE  \/ being_released(p, s)
                      \/ \E k \in Key : rec[k] = [status |-> "IN_PROGRESS", owner |-> p, sub |-> s]
    BY DEF NoOrphanSubscription
  <2>0. p \in Pid /\ Kept(rec, Todo(p), aa[p], p)
    BY DEF Inv, RunInv, OrphanInv
  <2> DEFINE q == rq[p]
             r == pend[p].task
  <2>1. q \in Seq(Task) /\ r \in Seq(Task)
    BY <2>0, TodoOf DEF Inv, TaskTypes
  <2> HIDE DEF q, r
  <2>2. /\ Len(q) \in Nat /\ Len(r) \in Nat /\ DOMAIN q = 1 .. Len(q) /\ DOMAIN r = 1 .. Len(r)
        /\ DOMAIN (q \o r) = 1 .. Len(q) + Len(r)
        /\ \A i \in 1 .. Len(q) + Len(r) :
             (q \o r)[i] = IF i <= Len(q) THEN q[i] ELSE r[i - Len(q)]
    BY <2>1, ConcatProperties, LenProperties
  <2>3. \A i \in DOMAIN (q \o r) : \/ i \in DOMAIN q /\ (q \o r)[i] = q[i]
                                   \/ i - Len(q) \in DOMAIN r /\ (q \o r)[i] = r[i - Len(q)]
    BY <2>2
  <2>4. \A i \in DOMAIN q : i \in DOMAIN (q \o r) /\ (q \o r)[i] = q[i]
    BY <2>2
  <2>5. Released(q \o r, s) \/ \E k \in Key : rec[k] = InProgress(p, s)
    <3>1. Kept(rec, q \o r, aa[p], p)
      BY <2>0 DEF Todo, q, r
    <3>2. s \in aa[p] \/ \E i \in DOMAIN q : q[i].sub = s
      BY DEF recording_subs, q
    <3> QED BY <2>4, <3>1, <3>2 DEF Kept
  <2>6. Released(q \o r, s) => being_released(p, s)
    BY <2>3 DEF Released, being_released, q, r
  <2> QED BY <2>5, <2>6 DEF InProgress
<1> QED BY <1>1, RecInvariant, PTL

-----------------------------------------------------------------------------
(* What has been recorded is kept.                                         *)

\* What process p has recorded for k leaves a buffer for the recordings directory
\* only, or because the user ends the program, and the hands of recmgr because the
\* process ends.
Safe(p, k) ==
  /\ Buffered(p, k) => k \in disk' \/ Buffered(p, k)' \/ Linking(p, k)' \/ Exit(p)
  /\ Linking(p, k) => k \in disk' \/ Linking(p, k)' \/ p \in alive \ alive'

DataSafe == \A p \in Pid : \A k \in Key : Safe(p, k)

\* Nothing is taken from the buffers, and no other recmgr than that of p goes on.
LEMMA QuietSafe ==
  ASSUME NEW p, pend[p].status # "COPYING" \/ pend'[p] = pend[p], lb \subseteq lb',
         \A q \in Pid \ {p} : pend'[q] = pend[q]
  PROVE  DataSafe
<1>1. ASSUME NEW q \in Pid, NEW k \in Key, Buffered(q, k)
      PROVE  Buffered(q, k)'
  BY <1>1 DEF Buffered
<1>2. ASSUME NEW q \in Pid, NEW k \in Key, Linking(q, k)
      PROVE  Linking(q, k)'
  <2>1. pend'[q] = pend[q]
    BY <1>2 DEF Linking
  <2> QED BY <1>2, <2>1 DEF Linking
<1> QED BY <1>1, <1>2 DEF DataSafe, Safe

\* A process that ends leaves the buffers of the others alone, and its own unless
\* the user ends it.
LEMMA EndSafe ==
  ASSUME Inv, NEW p \in alive, Dies(p), \A b \in lb : b.owner # p => b \in lb',
         lb' = lb \/ Exit(p)
  PROVE  DataSafe
<1>1. p \in alive \ alive' /\ p \in Pid
  BY DEF Dies, Inv, RunInv
<1>2. \A q \in Pid \ {p} : pend'[q] = pend[q]
  BY DEF Dies, Inv, TaskTypes, TodoTypes
<1>3. ASSUME NEW q \in Pid, NEW k \in Key, Buffered(q, k)
      PROVE  Buffered(q, k)' \/ Exit(q)
  BY <1>3 DEF Buffered
<1>4. ASSUME NEW q \in Pid, q # p, NEW k \in Key, Linking(q, k)
      PROVE  Linking(q, k)'
  BY <1>2, <1>4 DEF Linking
<1> QED BY <1>1, <1>3, <1>4 DEF DataSafe, Safe

\* The tuner takes a recording from its buffer: recmgr is about to link its files.
LEMMA StopSafe ==
  ASSUME Inv, NEW p \in alive, pend[p] = NoPend, NEW k \in Key, NEW r, stop_recording(p, k, r),
         NEW h, Finish(p, h)
  PROVE  DataSafe
<1>0. p \in Pid /\ TaskTypes /\ pend \in [Pid -> PendType] /\ pend[p].status # "COPYING"
  BY DEF Inv, RunInv, TaskTypes, TodoTypes, NoPend
<1>1. CASE alive' = alive \ {p} /\ lb' = lb
  <2>1. Dies(p)
    BY <1>1 DEF Finish
  <2> QED BY <1>1, <2>1, EndSafe
<1>2. CASE lb' = lb /\ pend' = pend
  BY <1>0, <1>2, QuietSafe
<1> DEFINE t == [op |-> "unsubscribe", key |-> k, sub |-> r.sub]
           d == [key |-> k, status |-> "COPYING", task |-> <<t>>]
<1>3. ASSUME NEW b \in buffer(p, r.sub), Leaves(k, b), pend' = [pend EXCEPT ![p] = d]
      PROVE  DataSafe
  <2> DEFINE e == [b EXCEPT !.recs = @ \ {k}]
  <2>1. b \in lb /\ b \in Buffer /\ b.owner = p
    BY <1>0 DEF buffer, TaskTypes, HeldTypes
  <2>2. e.owner = p /\ e.recs = b.recs \ {k}
    BY <2>1 DEF Buffer
  <2>3. lb' = (lb \ {b}) \cup {e}
    BY <1>3 DEF Leaves
  <2>4. /\ pend'[p].key = k /\ pend'[p].status = "COPYING"
        /\ \A q \in Pid \ {p} : pend'[q] = pend[q]
    BY <1>0, <1>3
  <2> HIDE DEF e
  <2>5. ASSUME NEW q \in Pid, NEW j \in Key, Linking(q, j)
        PROVE  Linking(q, j)'
    <3>1. q # p
      BY <1>0, <2>5 DEF Linking
    <3> QED BY <2>4, <2>5, <3>1 DEF Linking
  <2>6. ASSUME NEW q \in Pid, NEW j \in Key, Buffered(q, j)
        PROVE  Buffered(q, j)' \/ Linking(q, j)'
    <3>1. PICK c \in lb : c.owner = q /\ j \in c.recs
      BY <2>6 DEF Buffered
    <3>2. CASE c # b
      BY <2>3, <3>1, <3>2 DEF Buffered
    <3>3. CASE c = b /\ j = k
      BY <2>1, <2>4, <3>1, <3>3 DEF Linking
    <3>4. CASE c = b /\ j # k
      <4>1. e \in lb' /\ e.owner = q /\ j \in e.recs
        BY <2>1, <2>2, <2>3, <3>1, <3>4
      <4> QED BY <4>1 DEF Buffered
    <3> QED BY <3>2, <3>3, <3>4
  <2> QED BY <2>5, <2>6 DEF DataSafe, Safe
<1>4. \/ alive' = alive \ {p} /\ lb' = lb
      \/ lb' = lb /\ pend' = pend
      \/ \E b \in buffer(p, r.sub) : Leaves(k, b) /\ pend' = [pend EXCEPT ![p] = d]
  BY DEF stop_recording, Leaves
<1> QED BY <1>1, <1>2, <1>3, <1>4

\* recmgr loses nothing.
LEMMA ManagerSafe ==
  ASSUME Inv, NEW p \in Pid, Manager(p)
  PROVE  DataSafe
<1>0. pend \in [Pid -> PendType] /\ p \in alive
  BY DEF Inv, TaskTypes, TodoTypes, Manager, Housekeeping, Ready, HousekeepingStop,
         HousekeepingFail, HousekeepingStart, UpdateEpgStatus, LinkFiles, StoreFinished
<1>1. CASE HousekeepingStop(p)
  <2>1. PICK w \in hk[p].stop : /\ stop_recording(p, w[1], w[2])
                                /\ Finish(p, [hk[p] EXCEPT !.stop = @ \ {w}])
    BY <1>1 DEF HousekeepingStop
  <2>2. PICK h : h = [hk[p] EXCEPT !.stop = @ \ {w}]
    OBVIOUS
  <2>3. w[1] \in Key /\ pend[p] = NoPend
    BY <1>1, HkCopy DEF HousekeepingStop
  <2> QED BY <1>0, <2>1, <2>2, <2>3, StopSafe
<1>2. CASE Housekeeping(p) \/ HousekeepingFail(p)
  BY <1>2, QuietSafe DEF Housekeeping, HousekeepingFail
<1>3. CASE HousekeepingStart(p)
  <2>1. lb' = lb /\ pend[p].status # "COPYING" /\ \A q \in Pid \ {p} : pend'[q] = pend[q]
    BY <1>0, <1>3 DEF HousekeepingStart, NoPend
  <2> QED BY <2>1, QuietSafe
<1>4. CASE UpdateEpgStatus(p)
  <2>1. /\ lb' = lb /\ pend[p].status # "COPYING"
        /\ pend' = [pend EXCEPT ![p] = NoPend]
    BY <1>4 DEF UpdateEpgStatus, Dies
  <2>2. \A q \in Pid \ {p} : pend'[q] = pend[q]
    BY <1>0, <2>1
  <2> QED BY <2>1, <2>2, QuietSafe
<1>5. CASE StoreFinished(p)
  <2>1. lb' = lb /\ pend[p].status # "COPYING" /\ \A q \in Pid \ {p} : pend'[q] = pend[q]
    BY <1>0, <1>5 DEF StoreFinished
  <2> QED BY <2>1, QuietSafe
<1>6. CASE LinkFiles(p)
  <2>1. lb' = lb /\ disk' = disk \cup {pend[p].key} /\ \A q \in Pid \ {p} : pend'[q] = pend[q]
    BY <1>0, <1>6 DEF LinkFiles
  <2>2. ASSUME NEW q \in Pid, NEW k \in Key, Linking(q, k)
        PROVE  k \in disk' \/ Linking(q, k)'
    <3>1. CASE q = p
      BY <2>1, <2>2, <3>1 DEF Linking
    <3>2. CASE q # p
      BY <2>1, <2>2, <3>2 DEF Linking
    <3> QED BY <3>1, <3>2
  <2>3. ASSUME NEW q \in Pid, NEW k \in Key, Buffered(q, k)
        PROVE  Buffered(q, k)'
    BY <2>1, <2>3 DEF Buffered
  <2> QED BY <2>2, <2>3 DEF DataSafe, Safe
<1> QED BY <1>1, <1>2, <1>3, <1>4, <1>5, <1>6 DEF Manager

\* No step loses what has been recorded.
LEMMA NextSafe ==
  ASSUME Inv, [Next]_vars
  PROVE  DataSafe
<1>1. CASE pend' = pend /\ lb \subseteq lb'
  BY <1>1, QuietSafe
<1>2. ASSUME NEW p \in alive, Dies(p), lb' = lb
      PROVE  DataSafe
  BY <1>2, EndSafe
<1>3. ASSUME NEW p \in Pid, NEW k \in Key, ToggleStop(p, k)
      PROVE  DataSafe
  <2>1. PICK j \in toggle_target(p, k) : stop_recording(p, j, rec[j]) /\ Finish(p, Idle)
    BY <1>3 DEF ToggleStop
  <2>2. p \in alive /\ pend[p] = NoPend /\ j \in Key
    BY <1>3, TargetActive DEF ToggleStop, Request, Ready
  <2>3. PICK r : r = rec[j]
    OBVIOUS
  <2> QED BY <2>1, <2>2, <2>3, StopSafe
<1>4. ASSUME NEW p \in Pid, NEW k \in Key, ToggleDelete(p, k)
      PROVE  DataSafe
  <2>1. lb' = lb /\ pend[p].status # "COPYING" /\ \A q \in Pid \ {p} : pend'[q] = pend[q]
    BY <1>4 DEF ToggleDelete, Request, Ready, NoPend, Inv, TaskTypes, TodoTypes
  <2> QED BY <2>1, QuietSafe
<1>5. ASSUME NEW p \in Pid, StartTask(p)
      PROVE  DataSafe
  BY <1>1, <1>5 DEF StartTask
<1>6. ASSUME NEW p \in Pid, UnsubscribeTask(p)
      PROVE  DataSafe
  <2>1. lb' = lb /\ pend' = pend
    BY <1>6, TasksReleased DEF Inv, UnsubscribeTask
  <2> QED BY <1>1, <2>1
<1>7. ASSUME NEW p \in Pid, Exit(p)
      PROVE  DataSafe
  <2>1. p \in alive /\ Dies(p) /\ \A b \in lb : b.owner # p => b \in lb'
    BY <1>7 DEF Exit, Ready
  <2> QED BY <1>7, <2>1, EndSafe
<1>8. ASSUME NEW p \in Pid, Startup(p)
      PROVE  DataSafe
  <2> DEFINE old == {b \in lb : b.owner \notin alive}
  <2>1. lb' = lb \ old /\ disk' = disk \cup finalized(old) /\ pend' = pend
    BY <1>8 DEF Startup
  <2> HIDE DEF old
  <2>2. \A b \in old : \A k \in b.recs : k \in disk'
    BY <2>1 DEF finalized
  <2>3. \A b \in lb \ old : b \in lb'
    BY <2>1
  <2>4. ASSUME NEW q \in Pid, NEW k \in Key, Buffered(q, k)
        PROVE  k \in disk' \/ Buffered(q, k)'
    BY <2>1, <2>2, <2>3, <2>4 DEF Buffered
  <2>5. ASSUME NEW q \in Pid, NEW k \in Key, Linking(q, k)
        PROVE  Linking(q, k)'
    BY <2>1, <2>5 DEF Linking
  <2> QED BY <2>4, <2>5 DEF DataSafe, Safe
<1>9. CASE Tick \/ UNCHANGED vars
  BY <1>1, <1>9 DEF Tick, vars
<1>10. ASSUME NEW p \in Pid, EpgStore(p) \/ Crash(p)
       PROVE  DataSafe
  <2>1. p \in alive /\ lb' = lb /\ (pend' = pend \/ Dies(p))
    BY <1>10 DEF EpgStore, Crash
  <2> QED BY <1>1, <1>2, <2>1
<1>11. ASSUME NEW p \in Pid, NEW k \in Key,
              ToggleNew(p, k) \/ ToggleNewAnonymous(p, k) \/ EpgRead(p, k)
       PROVE  DataSafe
  <2>1. p \in alive /\ lb' = lb /\ (pend' = pend \/ Dies(p))
    BY <1>11 DEF ToggleNew, ToggleNewAnonymous, EpgRead, Request, Ready
  <2> QED BY <1>1, <1>2, <2>1
<1> QED BY <1>3, <1>4, <1>5, <1>6, <1>7, <1>8, <1>9, <1>10, <1>11, ManagerSafe DEF Next

\* What has been recorded is kept (stop_recording, mpm_copylist_t::run,
\* remove_old_livebuffers): it leaves a live buffer for the recordings directory
\* only, or because the user ends the program, and what the buffer has forgotten is
\* lost only by a process that ends before recmgr has linked the files.
THEOREM RecordedDataKept == Spec => DataKept
<1>1. Inv /\ [Next]_vars =>
        [\A p \in Pid : \A k \in Key :
           /\ Buffered(p, k) => k \in disk' \/ Buffered(p, k)' \/ Linking(p, k)' \/ Exit(p)
           /\ Linking(p, k) => k \in disk' \/ Linking(p, k)' \/ p \in alive \ alive']_vars
  BY NextSafe DEF DataSafe, Safe
<1> QED BY <1>1, RecInvariant, PTL DEF Spec, DataKept

-----------------------------------------------------------------------------
(* The life cycle of recordings: what one step does to their status.       *)

\* A recording follows the guide from key j to key k.
MovesTo(j, k) ==
  /\ rec[j].status \in Active /\ overlapping(j, k)
  /\ rec'[j].status = "NONE" /\ rec'[k].status = rec[j].status

\* What happens to the recording of key k is a step of the life cycle.
Lives(k) ==
  \/ Event[k] \in taken'
  \/ \E j \in Key \ {k} : MovesTo(j, k) \/ MovesTo(k, j)
  \/ Lifecycle!Goes(k, rec[k].status, rec'[k].status)

\* The life cycle of every recording makes a step of the abstract specification.
LEMMA LivesRefines ==
  ASSUME now' \in {now, now + 1}, now' # now => rec' = rec, taken \subseteq taken',
         \A k \in Key : Lives(k)
  PROVE  Lifecycle!Next
<1> DEFINE st == [k \in Key |-> rec[k].status]
           st1 == [k \in Key |-> rec'[k].status]
<1>1. \A k \in Key : st[k] = rec[k].status /\ st1[k] = rec'[k].status
  OBVIOUS
<1>2. now' # now => st1 = st
  OBVIOUS
<1> HIDE DEF st, st1
<1>3. ASSUME NEW k \in Key
      PROVE  \/ Event[k] \in taken'
             \/ \E j \in Key \ {k} : MovesTo(k, j) \/ MovesTo(j, k)
             \/ Lifecycle!Goes(k, st[k], st1[k])
  BY <1>1 DEF Lives
<1>4. ASSUME NEW j \in Key, NEW k \in Key, MovesTo(j, k)
      PROVE  st[j] \in Lifecycle!Pending /\ overlapping(j, k) /\ st1[j] = "NONE" /\ st1[k] = st[j]
  BY <1>1, <1>4 DEF MovesTo, Active, Lifecycle!Pending
<1>5. Lifecycle!Moved = {j \in Key : \E k \in Key \ {j} :
        \/ st[j] \in Lifecycle!Pending /\ overlapping(j, k) /\ st1[j] = "NONE" /\ st1[k] = st[j]
        \/ st[k] \in Lifecycle!Pending /\ overlapping(k, j) /\ st1[k] = "NONE" /\ st1[j] = st[k]}
  BY DEF Lifecycle!Moved, Lifecycle!Moves, st, st1
<1>6. \A k \in Key : \/ Event[k] \in taken' \/ k \in Lifecycle!Moved
                     \/ Lifecycle!Goes(k, st[k], st1[k])
  BY <1>3, <1>4, <1>5
<1> QED BY <1>2, <1>6 DEF Lifecycle!Next, st, st1

\* One record is replaced.
LEMMA OneRefines ==
  ASSUME rec \in [Key -> GoodRec], now' = now, taken \subseteq taken', NEW k \in Key, NEW r,
         rec' = [rec EXCEPT ![k] = r],
         Event[k] \in taken' \/ Lifecycle!Goes(k, rec[k].status, r.status)
  PROVE  Lifecycle!Next
<1>1. rec'[k] = r /\ \A j \in Key \ {k} : rec'[j] = rec[j]
  OBVIOUS
<1>2. \A j \in Key \ {k} : Lifecycle!Goes(j, rec[j].status, rec'[j].status)
  BY <1>1 DEF Lifecycle!Goes
<1>3. \A j \in Key : Lives(j)
  BY <1>1, <1>2 DEF Lives
<1> QED BY <1>3, LivesRefines

\* No record is replaced.
LEMMA SameRefines ==
  ASSUME rec' = rec, now' \in {now, now + 1}, taken \subseteq taken'
  PROVE  Lifecycle!Next
<1>1. \A j \in Key : Lives(j)
  BY DEF Lives, Lifecycle!Goes
<1> QED BY <1>1, LivesRefines

\* A recording may always be scheduled.
LEMMA GoesScheduled ==
  ASSUME NEW k, NEW a
  PROVE  Lifecycle!Goes(k, a, "SCHEDULED")
BY DEF Lifecycle!Goes, Lifecycle!Schedule, Lifecycle!Resume, Lifecycle!Pending

\* The history variable has the events of a copy that is no longer right.
LEMMA StaleTaken ==
  ASSUME NEW w, NEW k, stale_at(w, k) \subseteq taken', rec[w[1]] # w[2]
  PROVE  Event[w[1]] \in taken' /\ Event[k] \in taken'
BY DEF stale_at

\* stop_recording completes a recording when its files are linked.
LEMMA FinishedRefines ==
  ASSUME Inv, StopInv, NEW p \in Pid, StoreFinished(p)
  PROVE  Lifecycle!Next
<1> DEFINE k == pend[p].key
           was == InProgress(p, pend[p].task[1].sub)
           fin == [NoRec EXCEPT !.status = "FINISHED"]
<1>1. fin.status = "FINISHED" /\ was.status = "IN_PROGRESS"
  BY NewRecords DEF InProgress
<1>2. PICK w : w = <<k, was>>
  OBVIOUS
<1>3. /\ rec' = [rec EXCEPT ![k] = fin] /\ now' = now /\ taken' = taken \cup stale(w)
      /\ pend[p].status = "LINKED"
  BY <1>2 DEF StoreFinished, InProgress
<1>4. k \in Key /\ rec \in [Key -> GoodRec] /\ w[1] = k /\ w[2] = was
  BY <1>2, <1>3 DEF Inv, DataInv, StopInv, StopOK
<1>5. taken \subseteq taken' /\ stale_at(w, k) \subseteq taken'
  BY <1>3, <1>4 DEF stale
<1> HIDE DEF k, was, fin
<1>6. Event[k] \in taken' \/ rec[k] = was
  BY <1>4, <1>5, StaleTaken
<1>7. Lifecycle!Goes(k, "IN_PROGRESS", "FINISHED")
  BY DEF Lifecycle!Goes, Lifecycle!Complete
<1>8. Event[k] \in taken' \/ Lifecycle!Goes(k, rec[k].status, fin.status)
  BY <1>1, <1>6, <1>7
<1> QED BY <1>3, <1>4, <1>5, <1>8, OneRefines

\* Records are replaced by scheduled ones, and by nothing else.
LEMMA ScheduleRefines ==
  ASSUME now' = now, taken \subseteq taken',
         \A k \in Key : rec'[k] \in {rec[k], Scheduled}
  PROVE  Lifecycle!Next
<1>1. ASSUME NEW k \in Key PROVE Lives(k)
  <2>1. CASE rec'[k] = rec[k]
    BY <2>1 DEF Lives, Lifecycle!Goes
  <2>2. CASE rec'[k] = Scheduled
    <3>1. rec'[k].status = "SCHEDULED"
      BY <2>2, NewRecords
    <3> QED BY <3>1, GoesScheduled DEF Lives
  <2> QED BY <2>1, <2>2
<1> QED BY <1>1, LivesRefines

\* A tuner moves the recording it found to the key of the guide entry.
LEMMA MoveRefines ==
  ASSUME rec \in [Key -> GoodRec], now' = now, taken \subseteq taken', NEW u, NEW w \in Copy,
         u.key \in Key, Matches(u, w), stale_at(w, u.key) \subseteq taken',
         rec' = [[rec EXCEPT ![w[1]] = NoRec] EXCEPT ![u.key] = w[2]]
  PROVE  Lifecycle!Next
<1>1. w[1] \in Key /\ w[2] \in GoodRec
  BY DEF Copy
<1>2. /\ \A j \in Key \ {w[1], u.key} : rec'[j] = rec[j]
      /\ rec'[u.key] = w[2] /\ (w[1] # u.key => rec'[w[1]] = NoRec)
  BY <1>1
<1>3. \A j \in Key \ {w[1], u.key} : Lives(j)
  BY <1>2 DEF Lives, Lifecycle!Goes
<1>4. CASE rec[w[1]] # w[2]
  <2>1. Lives(w[1]) /\ Lives(u.key)
    BY <1>4, StaleTaken DEF Lives
  <2> QED BY <1>3, <2>1, LivesRefines
<1>5. CASE rec[w[1]] = w[2] /\ w[1] = u.key
  <2>1. Lives(u.key)
    BY <1>2, <1>5 DEF Lives, Lifecycle!Goes
  <2> QED BY <1>3, <1>5, <2>1, LivesRefines
<1>6. CASE rec[w[1]] = w[2] /\ w[1] # u.key
  <2>1. MovesTo(w[1], u.key)
    BY <1>2, <1>6, NewRecords DEF MovesTo, Matches
  <2>2. Lives(w[1]) /\ Lives(u.key)
    BY <1>1, <1>6, <2>1 DEF Lives
  <2> QED BY <1>3, <2>2, LivesRefines
<1> QED BY <1>4, <1>5, <1>6

\* Housekeeping completes, misses or begins recordings.
LEMMA ManagerRefines ==
  ASSUME Inv, StopInv, NEW p \in Pid, Manager(p)
  PROVE  Lifecycle!Next
<1>0. rec \in [Key -> GoodRec]
  BY DEF Inv, DataInv
<1>1. CASE Housekeeping(p) \/ UpdateEpgStatus(p) \/ HousekeepingStop(p) \/ LinkFiles(p)
  <2>1. rec' = rec /\ now' = now /\ taken' = taken
    BY <1>1 DEF Housekeeping, UpdateEpgStatus, HousekeepingStop, LinkFiles
  <2> QED BY <2>1, SameRefines
<1>2. CASE StoreFinished(p)
  BY <1>2, FinishedRefines
<1>3. CASE HousekeepingFail(p)
  <2>1. PICK w \in hk[p].fail : /\ rec' = [rec EXCEPT ![w[1]] = [w[2] EXCEPT !.status = "FAILED"]]
                                /\ taken' = taken \cup stale(w)
    BY <1>3 DEF HousekeepingFail
  <2>2. now' = now /\ taken \subseteq taken' /\ stale_at(w, w[1]) \subseteq taken'
    BY <1>3, <2>1 DEF HousekeepingFail, stale
  <2>3. w[1] \in Key /\ w[2] \in GoodRec /\ w[2].status = "SCHEDULED" /\ To[w[1]] <= now
    BY HkCopy
  <2>4. Event[w[1]] \in taken' \/ rec[w[1]] = w[2]
    BY <2>2, StaleTaken
  <2>5. PICK r : r = [w[2] EXCEPT !.status = "FAILED"]
    OBVIOUS
  <2>6. r.status = "FAILED" /\ rec' = [rec EXCEPT ![w[1]] = r]
    BY <2>1, <2>3, <2>5, NewRecords
  <2>7. Lifecycle!Goes(w[1], "SCHEDULED", "FAILED")
    BY <2>3 DEF Lifecycle!Goes, Lifecycle!Miss
  <2>8. Event[w[1]] \in taken' \/ Lifecycle!Goes(w[1], rec[w[1]].status, r.status)
    BY <2>3, <2>4, <2>6, <2>7
  <2> QED BY <1>0, <2>2, <2>3, <2>6, <2>8, OneRefines
<1>4. CASE HousekeepingStart(p)
  <2>1. PICK w \in hk[p].start : \E s :
          /\ rec' = [rec EXCEPT ![w[1]] = [status |-> "IN_PROGRESS", owner |-> p, sub |-> s]]
          /\ taken' = taken \cup stale(w)
    BY <1>4 DEF HousekeepingStart
  <2>2. now' = now /\ taken \subseteq taken' /\ stale_at(w, w[1]) \subseteq taken'
    BY <1>4, <2>1 DEF HousekeepingStart, stale
  <2>3. w[1] \in Key /\ w[2].status = "SCHEDULED" /\ From[w[1]] <= now
    BY HkCopy
  <2>4. Event[w[1]] \in taken' \/ rec[w[1]] = w[2]
    BY <2>2, StaleTaken
  <2>5. PICK r : r.status = "IN_PROGRESS" /\ rec' = [rec EXCEPT ![w[1]] = r]
    BY <2>1
  <2>6. Lifecycle!Goes(w[1], "SCHEDULED", "IN_PROGRESS")
    BY <2>3 DEF Lifecycle!Goes, Lifecycle!Begin
  <2>7. Event[w[1]] \in taken' \/ Lifecycle!Goes(w[1], rec[w[1]].status, r.status)
    BY <2>3, <2>4, <2>5, <2>6
  <2> QED BY <1>0, <2>2, <2>3, <2>5, <2>7, OneRefines
<1> QED BY <1>1, <1>2, <1>3, <1>4 DEF Manager

\* The user schedules, cancels and stops recordings.
LEMMA ToggleRefines ==
  ASSUME Inv, NEW p \in Pid, NEW k \in Key,
         \/ ToggleDelete(p, k) \/ ToggleStop(p, k) \/ ToggleNew(p, k)
         \/ ToggleNewAnonymous(p, k) \/ EpgRead(p, k)
  PROVE  Lifecycle!Next
<1>0. rec \in [Key -> GoodRec]
  BY DEF Inv, DataInv
<1>1. CASE ToggleDelete(p, k)
  <2>1. PICK j \in toggle_target(p, k) :
          rec[j].status = "SCHEDULED" /\ rec' = [rec EXCEPT ![j] = NoRec]
    BY <1>1 DEF ToggleDelete
  <2>2. j \in Key /\ now' = now /\ taken \subseteq taken'
    BY <1>1, TargetActive DEF ToggleDelete
  <2>3. Lifecycle!Goes(j, rec[j].status, NoRec.status)
    BY <2>1, NewRecords DEF Lifecycle!Goes, Lifecycle!Cancel
  <2> QED BY <1>0, <2>1, <2>2, <2>3, OneRefines
<1>2. CASE ToggleStop(p, k)
  <2>1. rec' = rec /\ now' = now /\ taken' = taken
    BY <1>2 DEF ToggleStop
  <2> QED BY <2>1, SameRefines
<1>3. CASE ToggleNew(p, k)
  <2>1. \A j \in Key : rec'[j] \in {rec[j], Scheduled}
    BY <1>0, <1>3 DEF ToggleNew
  <2>2. now' = now /\ taken \subseteq taken'
    BY <1>3 DEF ToggleNew
  <2> QED BY <2>1, <2>2, ScheduleRefines
<1>4. CASE ToggleNewAnonymous(p, k)
  <2>1. \E new : rec' = [j \in Key |-> IF j \in new THEN Scheduled ELSE rec[j]]
    BY <1>4 DEF ToggleNewAnonymous
  <2>2. \A j \in Key : rec'[j] \in {rec[j], Scheduled}
    BY <2>1
  <2>3. now' = now /\ taken \subseteq taken'
    BY <1>4 DEF ToggleNewAnonymous
  <2> QED BY <2>2, <2>3, ScheduleRefines
<1>5. CASE EpgRead(p, k)
  <2>1. rec' = rec /\ now' = now /\ taken' = taken
    BY <1>5 DEF EpgRead
  <2> QED BY <2>1, SameRefines
<1> QED BY <1>1, <1>2, <1>3, <1>4, <1>5

\* A tuner stores a guide entry.
LEMMA EpgStoreRefines ==
  ASSUME Inv, NEW p \in Pid, EpgStore(p)
  PROVE  Lifecycle!Next
<1>0. rec \in [Key -> GoodRec] /\ now' = now /\ UpdOK(upd[p])
  BY DEF Inv, DataInv, UpdInv, EpgStore
<1>1. \/ UNCHANGED <<rec, taken>>
      \/ /\ ~epg_store_fails(upd[p]) /\ rec' = checked_autorecs(upd[p])
         /\ taken' = taken \cup StaleFound(upd[p]) \cup taken_by(rec', Key \ FoundKeys(upd[p]))
  BY DEF EpgStore, StaleFound, FoundKeys
<1>2. CASE UNCHANGED <<rec, taken>>
  BY <1>0, <1>2, SameRefines
<1>3. CASE /\ ~epg_store_fails(upd[p]) /\ rec' = checked_autorecs(upd[p])
           /\ taken' = taken \cup StaleFound(upd[p]) \cup taken_by(rec', Key \ FoundKeys(upd[p]))
  <2>1. PICK u : u = upd[p]
    OBVIOUS
  <2>2. UpdOK(u) /\ Stored(u, rec, rec')
    BY <1>0, <1>3, <2>1, EpgStored
  <2>3. taken \subseteq taken' /\ \A w \in u.found : stale_at(w, u.key) \subseteq taken'
    BY <1>3, <2>1 DEF StaleFound
  <2>4. u.key \in Key
    BY <2>2 DEF UpdOK, UpdType
  <2>5. CASE AddsScheduled(u, rec, rec')
    <3>1. \A j \in Key : rec'[j] \in {rec[j], Scheduled}
      BY <1>0, <2>5 DEF AddsScheduled
    <3> QED BY <1>0, <2>3, <3>1, ScheduleRefines
  <2>6. ASSUME NEW w \in Copy,
               rec' = [[rec EXCEPT ![u.key] = Scheduled] EXCEPT ![w[1]] = Scheduled]
        PROVE  Lifecycle!Next
    <3>1. \A j \in Key : rec'[j] \in {rec[j], Scheduled}
      BY <1>0, <2>6
    <3> QED BY <1>0, <2>3, <3>1, ScheduleRefines
  <2>7. ASSUME NEW w \in u.found, w \in Copy, Matches(u, w),
               rec' = [[rec EXCEPT ![w[1]] = NoRec] EXCEPT ![u.key] = w[2]]
        PROVE  Lifecycle!Next
    BY <1>0, <2>3, <2>4, <2>7, MoveRefines
  <2> QED BY <2>2, <2>5, <2>6, <2>7 DEF Stored
<1> QED BY <1>1, <1>2, <1>3

\* A process starts again what was in progress, or finds that it is over.
LEMMA StartupRefines ==
  ASSUME Inv, NEW p \in Pid, Startup(p)
  PROVE  Lifecycle!Next
<1>0. now' = now /\ taken \subseteq taken' /\ rec' = [k \in Key |-> restarted(k)]
  BY DEF Startup
<1>1. ASSUME NEW k \in Key PROVE Lives(k)
  <2> DEFINE fin == [NoRec EXCEPT !.status = "FINISHED"]
  <2>1. fin.status = "FINISHED" /\ Scheduled.status = "SCHEDULED"
    BY NewRecords
  <2>2. rec'[k] = rec[k] \/ (rec[k].status = "IN_PROGRESS" /\ rec'[k] \in {fin, Scheduled})
    BY <1>0 DEF restarted
  <2> HIDE DEF fin
  <2>3. Lifecycle!Goes(k, rec[k].status, rec'[k].status)
    BY <2>1, <2>2 DEF Lifecycle!Goes, Lifecycle!Complete, Lifecycle!Resume
  <2> QED BY <2>3 DEF Lives
<1> QED BY <1>0, <1>1, LivesRefines

\* Every step is a step of the life cycle.
LEMMA NextRefines ==
  ASSUME Inv, StopInv, Next
  PROVE  Lifecycle!Next
<1>1. CASE Tick
  <2>1. rec' = rec /\ now' \in {now, now + 1} /\ taken' = taken
    BY <1>1 DEF Tick
  <2> QED BY <2>1, SameRefines
<1>2. ASSUME NEW p \in Pid, StartTask(p) \/ UnsubscribeTask(p) \/ Crash(p) \/ Exit(p)
      PROVE  Lifecycle!Next
  <2>1. rec' = rec /\ now' = now /\ taken' = taken
    BY <1>2 DEF StartTask, UnsubscribeTask, Crash, Exit
  <2> QED BY <2>1, SameRefines
<1> QED BY <1>1, <1>2, ManagerRefines, ToggleRefines, EpgStoreRefines, StartupRefines DEF Next

\* The recording manager implements the life cycle the user is promised, whatever
\* crashes, asserts or exits on the way: a recording that was started is never
\* reported as failed, none is finished that was not started, and none starts before
\* its time.
THEOREM ImplementsLifecycle == Spec => Lifecycle!Safety
<1>1. Init => Lifecycle!Init
  BY NewRecords DEF Init, Lifecycle!Init
<1>2. Inv /\ StopInv /\ [Next]_vars => [Lifecycle!Next]_<<now, [k \in Key |-> rec[k].status], taken>>
  <2>1. CASE Next
    BY <2>1, NextRefines
  <2>2. CASE UNCHANGED vars
    BY <2>2 DEF vars
  <2> QED BY <2>1, <2>2
<1> QED BY <1>1, <1>2, RecInvariant, PTL DEF Spec, Lifecycle!Safety
=============================================================================
