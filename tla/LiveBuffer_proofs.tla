-------------------------- MODULE LiveBuffer_proofs --------------------------
(***************************************************************************)
(* The live buffer, for any number of packets, parts, recordings, clients  *)
(* and jumps: the parts in the database form a partition of the stream,    *)
(* the player reads only what was written, and it misses no notification.  *)
(*                                                                         *)
(* The player combines a snapshot of the database with the present state   *)
(* of the meta_marker and of the disk, so the inductive invariant has to   *)
(* say what an old copy of a part still tells about the present: KnownPart *)
(* holds of every record that the database ever showed to the player.      *)
(***************************************************************************)
EXTENDS LiveBuffer, WellFoundedInduction, TLAPS

Part   == [fileno: Nat, time: Nat, end_time: Nat, first: Nat, last: Nat]
Marker == [start: Nat, end: Nat]
Meta   == [safe: Nat, file: Part, marker: Nat, pmt: BOOLEAN, interrupted: BOOLEAN]
Seen   == [safe: Nat, pmt: BOOLEAN]
Reader == [pc: {"closed", "opening", "idle", "jumping", "wait_pmt", "reading",
                "part_end", "next", "ended", "aborted"},
           file: Part, mapped: BOOLEAN, pos: Nat, readable: Nat, must_exit: BOOLEAN,
           blocked: BOOLEAN, seen: Seen]
Snapshot == [files: SUBSET Part, markers: Seq(Marker), time: Nat]

LiveTypeOK ==
  /\ files \in SUBSET Part /\ on_disk \in SUBSET Nat /\ markers \in Seq(Marker)
  /\ decrypted \in 0..MaxPackets /\ Len(markers) <= decrypted
  /\ wpc \in {"idle", "parsed", "removing", "aborted"} /\ fresh \in BOOLEAN
  /\ mm \in Meta
  /\ rd \in Reader
  /\ snap \in Snapshot

-----------------------------------------------------------------------------
(* The inductive invariant.                                                *)

Growing(f) == f.last = Inf /\ f.end_time = Inf
Ended(f) == /\ f.end_time <= Len(markers) /\ f.last <= decrypted
            /\ f.first <= f.last /\ f.time < f.end_time

\* What an old copy f of a part, read from the database at any time before,
\* still tells: where the part began, and where it ended if it had ended then.
KnownPart(f) ==
  /\ f \in Part /\ f.first <= decrypted
  /\ Growing(f) \/ Ended(f)
  /\ \A g \in files : Growing(g) => f.fileno <= g.fileno
  /\ \A g \in files : g.fileno = f.fileno =>
        g.first = f.first /\ g.time = f.time /\ (Growing(f) \/ g = f)

\* The part w being written is the last one, and the only one that grows; the
\* meta_marker is of this part, or of one after it that could not be made.
Written(w) ==
  /\ w \in files /\ Growing(w) /\ w.fileno \in on_disk
  /\ w.time <= Len(markers)
  /\ mm.file = w \/ mm.file = [w EXCEPT !.fileno = @ + 1]
  /\ \A f \in files : f # w => ~Growing(f) /\ f.fileno < w.fileno
  /\ \A f \in files : KnownPart(f) /\ f.time <= w.time
LastPart == \E w \in files : Written(w)

Successors ==
  \A f \in files : ~Growing(f) =>
    \E g \in files : follows(f, g) /\ g.first = f.last /\ g.time = f.end_time

\* Markers that were saved before a part began lie before it, those that were
\* saved while it was written lie in it.
MarkersInParts ==
  \A t \in 1..Len(markers) :
    /\ markers[t].end <= decrypted
    /\ \A f \in files : t <= f.time => markers[t].end <= f.first
    /\ \A f \in files : t > f.time /\ t <= f.end_time
                        => markers[t].end >= f.first /\ markers[t].end <= f.last

\* What is published lags behind between parsing and publishing, and after a part
\* could not be made.
Published ==
  /\ mm.safe <= decrypted /\ mm.marker <= Len(markers)
  /\ wpc \in {"idle", "removing"} /\ mm.file \in files => mm.safe = decrypted
  /\ wpc = "parsed" => mm.safe < decrypted
  /\ wpc = "parsed" /\ fresh => mm.file.time < Len(markers)
  /\ wpc = "removing" => \E f \in files : ~Growing(f)

WriterInv == LastPart /\ Successors /\ MarkersInParts /\ Published

\* The file of a part can still be opened, or all older parts have gone as well.
Reachable(f) == f.fileno \in on_disk \/ \A g \in files : f.fileno <= g.fileno

\* The snapshot in which the player looks for a part: when its last part has been
\* removed since, no part that the player knows is left either.
SnapInv ==
  opening =>
    /\ \A f \in snap.files : KnownPart(f)
    /\ Len(snap.markers) <= Len(markers)
    /\ \A t \in 1..Len(snap.markers) : snap.markers[t] = markers[t]
    /\ snap.time < Inf
    /\ \E l \in snap.files :
         /\ Growing(l) /\ Reachable(l) /\ rd.file.fileno <= l.fileno
         /\ rd.mapped /\ rd.file.fileno = l.fileno => rd.file.time = l.time
         /\ \A f \in snap.files : f.time <= l.time
    /\ \A f \in snap.files, g \in files :
         Growing(f) /\ g.fileno = f.fileno => Len(snap.markers) <= g.end_time

MappedInv ==
  /\ \A g \in files : Growing(g) => rd.file.fileno <= g.fileno
  /\ rd.mapped => KnownPart(rd.file)
  /\ rd.pc \in {"idle", "jumping", "wait_pmt", "reading", "part_end", "next"} => rd.mapped

IInv == LiveTypeOK /\ WriterInv /\ SnapInv /\ MappedInv /\ ReadsWritten

-----------------------------------------------------------------------------
(* Least and greatest elements.                                            *)

\* A set of natural numbers that is not empty has a least element.
LEMMA LeastOf ==
  ASSUME NEW S \in SUBSET Nat, S # {}
  PROVE  \E x \in S : \A y \in S : x <= y
<1>1. IsWellFoundedOn(OpToRel(<, Nat), Nat)
  BY NatLessThanWellFounded
<1>2. PICK x \in S : \A y \in S : ~(<<y, x>> \in OpToRel(<, Nat))
  BY <1>1, WFMin
<1>3. \A y \in S : ~(y < x)
  BY <1>2 DEF OpToRel
<1> QED BY <1>3

\* A set of natural numbers that is bounded and not empty has a greatest one.
LEMMA GreatestOf ==
  ASSUME NEW n \in Nat, NEW S \in SUBSET (0..n), S # {}
  PROVE  \E x \in S : \A y \in S : y <= x
<1> DEFINE T == {n - x : x \in S}
<1>a. \A x \in S : n - x \in Nat
  OBVIOUS
<1>1. T \in SUBSET Nat /\ T # {}
  BY <1>a, Zenon
<1>2. PICK z \in T : \A y \in T : z <= y
  BY <1>1, LeastOf
<1>3. PICK x \in S : z = n - x
  OBVIOUS
<1>4. \A y \in S : n - x <= n - y
  BY <1>2, <1>3
<1> QED BY <1>4

\* The greater of two numbers.
LEMMA MaxOfTwo ==
  ASSUME NEW a \in Nat, NEW b \in Nat
  PROVE  Max({a, b}) = IF a >= b THEN a ELSE b
<1> DEFINE m == IF a >= b THEN a ELSE b
<1>1. m \in {a, b} /\ \A y \in {a, b} : m >= y
  OBVIOUS
<1>2. \A x \in {a, b} : (\A y \in {a, b} : x >= y) => x = m
  OBVIOUS
<1> QED BY <1>1, <1>2 DEF Max

\* The bound of packets is a number, so Inf lies beyond every packet.
LEMMA InfType == MaxPackets \in Nat /\ Inf \in Nat /\ Inf = MaxPackets + 2
BY LiveBufferAssumption DEF Inf

-----------------------------------------------------------------------------
(* What a copy of a part tells stays true.                                 *)

\* As long as no part begins.
LEMMA KnownKept ==
  ASSUME NEW f, KnownPart(f), files' \subseteq files,
         decrypted \in Nat, decrypted' \in Nat, decrypted <= decrypted',
         Len(markers) \in Nat, Len(markers') \in Nat, Len(markers) <= Len(markers')
  PROVE  KnownPart(f)'
<1>1. f \in Part /\ f.first \in Nat /\ f.last \in Nat /\ f.end_time \in Nat
  BY DEF KnownPart, Part
<1>2. Ended(f) => Ended(f)'
  BY <1>1 DEF Ended
<1>3. \A g : Growing(g) <=> Growing(g)'
  BY DEF Growing, Inf
<1> QED BY <1>1, <1>2, <1>3 DEF KnownPart

\* The part being written, as numbers, and what the meta_marker tells of it.
LEMMA WrittenTypes ==
  ASSUME IInv, NEW w, Written(w)
  PROVE  /\ w \in Part /\ w \in files /\ Growing(w)
         /\ w.fileno \in Nat /\ w.time \in Nat /\ w.end_time \in Nat
         /\ w.first \in Nat /\ w.last \in Nat /\ w.first <= decrypted
         /\ mm.file.time = w.time /\ w.fileno <= mm.file.fileno
         /\ mm.file.fileno = w.fileno => mm.file = w
<1>1. w \in files /\ files \in SUBSET Part /\ Growing(w) /\ KnownPart(w)
  BY DEF IInv, LiveTypeOK, Written
<1>2. w \in Part /\ w.fileno \in Nat /\ w.time \in Nat /\ w.end_time \in Nat
      /\ w.first \in Nat /\ w.last \in Nat
  BY <1>1 DEF Part
<1>3. CASE mm.file = w
  BY <1>1, <1>2, <1>3 DEF KnownPart
<1>4. CASE mm.file = [w EXCEPT !.fileno = @ + 1]
  <2>1. mm.file.time = w.time /\ mm.file.fileno = w.fileno + 1
    BY <1>2, <1>4 DEF Part
  <2> QED BY <2>1, <1>1, <1>2 DEF KnownPart
<1> QED BY <1>3, <1>4 DEF Written

\* testf of the part that ends: the meta_marker is of a part that was made.
LEMMA MadePart ==
  ASSUME IInv, NEW end, testf(closed_part(end))
  PROVE  Written(mm.file)
<1>1. PICK w \in files : Written(w)
  BY DEF IInv, WriterInv, LastPart
<1>2. mm.file.time = w.time /\ (mm.file.fileno = w.fileno => mm.file = w)
  BY <1>1, WrittenTypes
<1>3. mm.file \in Part
  BY DEF IInv, LiveTypeOK, Meta
<1>4. closed_part(end).time = mm.file.time /\ closed_part(end).fileno = mm.file.fileno
  BY <1>3 DEF closed_part, Part
<1>5. w.fileno = mm.file.fileno
  BY <1>2, <1>4 DEF testf
<1> QED BY <1>1, <1>2, <1>5

\* next_data_file: the new part is another one, and the one that ends keeps its
\* beginning.
LEMMA KnownNext ==
  ASSUME IInv, NEW end \in Nat, next_data_file(end), end <= decrypted,
         NEW f, KnownPart(f)
  PROVE  KnownPart(f)'
<1> DEFINE c == closed_part(end)
           n == next_part(end)
<1>w. Written(mm.file)
  BY MadePart DEF next_data_file, new_file_ok
<1>0. /\ LiveTypeOK /\ mm.file \in Part /\ mm.file \in files /\ Growing(mm.file)
  BY <1>w DEF IInv, Written, LiveTypeOK, Meta, Reader, Snapshot
<1>1. /\ f \in Part /\ f.fileno \in Nat /\ mm.file.fileno \in Nat
      /\ f.fileno <= mm.file.fileno /\ f.first <= decrypted /\ (Growing(f) \/ Ended(f))
  BY <1>0 DEF KnownPart, Part
<1>2. /\ files' = (files \ {mm.file}) \cup {c, n} /\ mm'.file = n
      /\ markers' = markers /\ decrypted' = decrypted
  BY <1>0 DEF next_data_file, LiveTypeOK, Meta, Reader, Snapshot
<1>3. /\ c.fileno = mm.file.fileno /\ c.first = mm.file.first /\ c.time = mm.file.time
      /\ n.fileno = mm.file.fileno + 1
  BY <1>0 DEF closed_part, next_part, Part
<1>4. f.fileno = mm.file.fileno => mm.file.first = f.first /\ mm.file.time = f.time /\ Growing(f)
  BY <1>0 DEF KnownPart
<1> HIDE DEF c, n
<1>5. ASSUME NEW g \in files', g.fileno = f.fileno
      PROVE  g.first = f.first /\ g.time = f.time /\ (Growing(f) \/ g = f)
  <2>0. n.fileno # f.fileno
    BY <1>1, <1>3
  <2>1. g # n
    BY <2>0, <1>5
  <2>2. CASE g = c
    BY <2>2, <1>3, <1>4, <1>5
  <2>3. CASE g \in files
    BY <2>3, <1>5 DEF KnownPart
  <2> QED BY <2>1, <2>2, <2>3, <1>2
<1>g. \A g : Growing(g) <=> Growing(g)'
  BY DEF Growing, Inf
<1>7. ASSUME NEW g \in files', Growing(g) PROVE f.fileno <= g.fileno
  <2>1. CASE g \in {c, n}
    BY <2>1, <1>1, <1>3
  <2>2. CASE g \in files
    BY <2>2, <1>7 DEF KnownPart
  <2> QED BY <2>1, <2>2, <1>2
<1>6. Growing(f)' \/ Ended(f)'
  BY <1>1, <1>2, <1>g DEF Ended
<1> QED BY <1>1, <1>2, <1>5, <1>6, <1>7, <1>g DEF KnownPart

-----------------------------------------------------------------------------
(* Opening a part.                                                         *)

\* The part that open_file_containing_time takes is one the player was shown,
\* and what open_ takes for its end was written and lies in the part, although
\* the part may have ended since the snapshot was made.
LEMMA OpenedPart ==
  ASSUME IInv, opening, found
  PROVE  /\ KnownPart(opened_part)
         /\ start_packet(opened_part) \in Nat /\ last_packet(opened_part) \in Nat
         /\ opened_part.first <= start_packet(opened_part)
         /\ last_packet(opened_part) <= decrypted
         /\ \A f \in files : f.fileno = opened_part.fileno
                             => last_packet(opened_part) <= f.last
<1> DEFINE p == opened_part
           L == Len(snap.markers)
           e == end_marker_packet
<1>0. LiveTypeOK /\ WriterInv /\ SnapInv /\ MappedInv
  BY DEF IInv
<1>a. /\ snap.files \in SUBSET Part /\ snap.time \in Nat /\ L \in Nat /\ snap.markers \in Seq(Marker)
      /\ Len(markers) \in Nat /\ decrypted \in Nat /\ markers \in Seq(Marker)
      /\ decrypted <= MaxPackets /\ mm.marker \in Nat /\ files \in SUBSET Part
  BY <1>0, InfType DEF LiveTypeOK, Meta, Reader, Snapshot
<1>b. /\ \A f \in snap.files : KnownPart(f)
      /\ L <= Len(markers)
      /\ \A t \in 1..L : snap.markers[t] = markers[t]
      /\ snap.time < Inf
      /\ \A f \in snap.files, g \in files : Growing(f) /\ g.fileno = f.fileno => L <= g.end_time
  BY <1>0 DEF SnapInv
<1>1. KnownPart(p) /\ (Growing(p) => p \in snap.files \/ \A g \in files : g.fileno # p.fileno)
  <2>1. CASE current_file_ok
    BY <2>1, <1>0 DEF current_file_ok, opened_part, MappedInv, Growing
  <2>2. CASE ~current_file_ok
    <3>1. leq_parts # {} /\ leq_parts \in SUBSET snap.files
      BY <2>2 DEF found, leq_parts
    <3>2. \A f \in leq_parts : f.time \in 0..snap.time
      BY <1>a DEF leq_parts, Part
    <3>3. {f.time : f \in leq_parts} \in SUBSET (0..snap.time) /\ {f.time : f \in leq_parts} # {}
      BY <3>1, <3>2, Zenon
    <3>4. PICK t \in {f.time : f \in leq_parts} : \A y \in {f.time : f \in leq_parts} : y <= t
      BY <3>3, <1>a, GreatestOf
    <3>5. \E f \in leq_parts : \A g \in leq_parts : g.time <= f.time
      BY <3>4, Zenon
    <3>6. part_at_time \in snap.files
      BY <3>5, <3>1, Zenon DEF part_at_time
    <3>7. PICK l \in snap.files : /\ Growing(l) /\ Reachable(l) /\ rd.file.fileno <= l.fileno
                                  /\ rd.mapped /\ rd.file.fileno = l.fileno => rd.file.time = l.time
                                  /\ \A f \in snap.files : f.time <= l.time
      BY <1>0 DEF SnapInv
    <3>8. part_at_time.time <= l.time /\ snap.time < l.end_time
      BY <3>6, <3>7, <1>b DEF Growing
    <3>9. openable \in SUBSET snap.files /\ (l.fileno \in on_disk \/ is_open(l) => l \in openable)
      BY <3>8, <3>7, <1>a, <3>6 DEF openable, Part
    <3>10. CASE openable = {}
      <4>1. p = rd.file /\ rd.mapped /\ KnownPart(rd.file)
        BY <3>10, <2>2, <1>0 DEF found, opened_part, MappedInv
      <4>2. l.fileno \notin on_disk /\ ~is_open(l)
        BY <3>9, <3>10
      <4>3. (\A g \in files : l.fileno <= g.fileno) /\ rd.file.fileno # l.fileno
        BY <4>1, <4>2, <3>7 DEF Reachable, is_open
      <4>4. \A g \in files : g.fileno # rd.file.fileno
        <5>1. l.fileno \in Nat /\ rd.file.fileno \in Nat /\ \A g \in files : g.fileno \in Nat
          BY <1>a, <4>1 DEF KnownPart, Part
        <5> QED BY <5>1, <4>3, <3>7
      <4> QED BY <4>1, <4>4
    <3>11. CASE openable # {}
      <4>1. \A f \in openable : f.time \in Nat
        BY <3>9, <1>a DEF Part
      <4>2. {f.time : f \in openable} \in SUBSET Nat /\ {f.time : f \in openable} # {}
        BY <4>1, <3>11, Zenon
      <4>3. PICK u \in {f.time : f \in openable} : \A y \in {f.time : f \in openable} : u <= y
        BY <4>2, LeastOf
      <4>4. \E f \in openable : \A g \in openable : f.time <= g.time
        BY <4>3, Zenon
      <4>5. p \in openable
        BY <4>4, <2>2, <3>11, Zenon DEF opened_part
      <4> QED BY <4>5, <3>9, <1>b
    <3> QED BY <3>10, <3>11
  <2> QED BY <2>1, <2>2
<1> HIDE DEF p
<1>2. p \in Part /\ p.first \in Nat /\ p.last \in Nat /\ p.fileno \in Nat /\ p.first <= decrypted
  BY <1>1 DEF KnownPart, Part
<1>3. start_packet(p) \in Nat /\ p.first <= start_packet(p)
  <2>1. start_marker # 0 => start_marker \in 1..Len(markers)
    <3>1. mm.marker <= Len(markers)
      BY <1>0 DEF WriterInv, Published
    <3> QED BY <3>1, <1>a, <1>b DEF start_marker, beyond_last_marker
  <2>2. marker_start \in Nat
    <3>1. CASE start_marker = 0
      BY <3>1, InfType DEF marker_start
    <3>2. CASE start_marker # 0
      <4>1. markers[start_marker] \in Marker
        BY <3>2, <2>1, <1>a
      <4> QED BY <4>1, <3>2 DEF marker_start, Marker
    <3> QED BY <3>1, <3>2
  <2> QED BY <2>2, <1>2 DEF start_packet
<1>4. L # 0 => markers[L] \in Marker /\ e = markers[L].end /\ e \in Nat /\ L \in 1..Len(markers)
  <2>1. CASE L # 0
    <3>1. L \in 1..L /\ L \in 1..Len(markers) /\ snap.markers # <<>>
      BY <2>1, <1>a, <1>b
    <3>2. e = Last(snap.markers).end
      BY <3>1 DEF end_marker_packet
    <3>3. Last(snap.markers) = markers[L]
      BY <3>1, <1>b DEF Last
    <3>4. markers[L] \in Marker
      BY <3>1, <1>a
    <3> QED BY <3>1, <3>2, <3>3, <3>4 DEF Marker
  <2> QED BY <2>1
<1>5. L = 0 => e = 0
  BY <1>a DEF end_marker_packet
<1>6. e \in Nat /\ e <= decrypted
  <2>1. CASE L = 0
    BY <2>1, <1>5, <1>a
  <2>2. CASE L # 0
    BY <2>2, <1>4, <1>0 DEF WriterInv, MarkersInParts
  <2> QED BY <2>1, <2>2
<1> HIDE DEF e, L
<1>7. CASE p.last # Inf
  <2>1. Ended(p) /\ ~Growing(p)
    BY <1>7, <1>1 DEF KnownPart, Growing
  <2>2. last_packet(p) = p.last
    BY <2>1, <1>7, <1>2, MaxOfTwo DEF last_packet, Ended
  <2>3. \A f \in files : f.fileno = p.fileno => f = p
    BY <2>1, <1>1 DEF KnownPart
  <2> QED BY <2>1, <2>2, <2>3, <1>1, <1>2, <1>3 DEF Ended, p
<1>8. CASE p.last = Inf
  <2>1. Growing(p)
    BY <1>8, <1>1, <1>a, InfType DEF KnownPart, Ended
  <2>2. last_packet(p) = IF p.first >= e THEN p.first ELSE e
    BY <1>8, <1>2, <1>6, MaxOfTwo DEF last_packet, e
  <2>3. ASSUME NEW f \in files, f.fileno = p.fileno
        PROVE  p.first <= f.last /\ e <= f.last
    <3>1. f.first = p.first /\ KnownPart(f) /\ p \in snap.files
      BY <2>1, <2>3, <1>1, <1>0 DEF KnownPart, WriterInv, LastPart, Written
    <3>2. f \in Part /\ f.first \in Nat /\ f.last \in Nat /\ f.time \in Nat /\ f.end_time \in Nat
      BY <1>a DEF Part
    <3>3. f.first <= f.last
      BY <3>1, <3>2, <1>a, <1>2, InfType DEF KnownPart, Growing, Ended
    <3>4. CASE L = 0
      BY <3>4, <3>3, <3>1, <3>2, <1>5
    <3>5. CASE L # 0
      <4>1. L \in 1..Len(markers) /\ e = markers[L].end /\ L \in Nat
        BY <3>5, <1>4, <1>a
      <4>2. L <= f.end_time
        BY <3>1, <2>1, <2>3, <1>b
      <4>3. /\ L <= f.time => markers[L].end <= f.first
            /\ L > f.time /\ L <= f.end_time => markers[L].end <= f.last
        BY <4>1, <1>0 DEF WriterInv, MarkersInParts
      <4>4. e <= f.first \/ e <= f.last
        BY <4>1, <4>2, <4>3, <3>2
      <4> QED BY <4>4, <3>1, <3>2, <3>3, <1>6
    <3> QED BY <3>4, <3>5
  <2>4. last_packet(p) \in Nat /\ last_packet(p) <= decrypted
    BY <2>2, <1>2, <1>6
  <2>5. \A f \in files : f.fileno = p.fileno => last_packet(p) <= f.last
    BY <2>2, <2>3
  <2> QED BY <2>4, <2>5, <1>1, <1>3 DEF p
<1> QED BY <1>7, <1>8

-----------------------------------------------------------------------------
(* The service thread's part of the invariant.                             *)

\* The steps of the player change nothing of it; an assertion that fails ends
\* the service thread.
LEMMA WriterSame ==
  ASSUME IInv, UNCHANGED <<files, on_disk, markers, decrypted, fresh>>,
         wpc' = wpc \/ wpc' = "aborted",
         mm'.file = mm.file, mm'.safe = mm.safe, mm'.marker = mm.marker
  PROVE  WriterInv' /\ \A f : KnownPart(f) => KnownPart(f)'
<1>0. LiveTypeOK /\ WriterInv
  BY DEF IInv
<1>1. \A f : Growing(f) <=> Growing(f)'
  BY DEF Growing, Inf
<1>2. \A f : Ended(f) <=> Ended(f)'
  BY DEF Ended
<1>3. \A f : KnownPart(f) <=> KnownPart(f)'
  BY <1>1, <1>2 DEF KnownPart
<1>4. LastPart'
  <2>1. \A w : Written(w) => Written(w)'
    BY <1>1, <1>3 DEF Written
  <2> QED BY <2>1, <1>0 DEF WriterInv, LastPart
<1>5. Successors' /\ MarkersInParts'
  BY <1>0, <1>1 DEF WriterInv, Successors, MarkersInParts
<1>6. Published'
  BY <1>0, <1>1 DEF WriterInv, Published
<1> QED BY <1>3, <1>4, <1>5, <1>6 DEF WriterInv

\* The part being written and the markers, as numbers.
LEMMA WriterTypes ==
  ASSUME IInv
  PROVE  /\ files \in SUBSET Part /\ markers \in Seq(Marker) /\ Len(markers) \in Nat
         /\ decrypted \in Nat /\ decrypted <= MaxPackets /\ Len(markers) <= decrypted
         /\ mm.file \in Part /\ mm.file.fileno \in Nat /\ mm.file.time \in Nat
         /\ mm.file.end_time \in Nat /\ mm.file.first \in Nat /\ mm.file.last \in Nat
         /\ mm.safe \in Nat /\ mm.marker \in Nat
         /\ rd.file \in Part /\ rd.file.fileno \in Nat
         /\ snap.files \in SUBSET Part /\ Len(snap.markers) \in Nat /\ snap.time \in Nat
<1>1. LiveTypeOK
  BY DEF IInv
<1>2. /\ files \in SUBSET Part /\ markers \in Seq(Marker) /\ decrypted \in 0..MaxPackets
      /\ Len(markers) <= decrypted
  BY <1>1 DEF LiveTypeOK, Meta, Reader, Snapshot
<1>3. mm.file \in Part /\ mm.safe \in Nat /\ mm.marker \in Nat
  BY <1>1 DEF LiveTypeOK, Meta, Reader, Snapshot
<1>4. rd.file \in Part
  BY <1>1 DEF LiveTypeOK, Meta, Reader, Snapshot
<1>5. snap.files \in SUBSET Part /\ snap.markers \in Seq(Marker) /\ snap.time \in Nat
  BY <1>1 DEF LiveTypeOK, Meta, Reader, Snapshot
<1>6. \A f \in Part : /\ f.fileno \in Nat /\ f.time \in Nat /\ f.end_time \in Nat
                     /\ f.first \in Nat /\ f.last \in Nat
  BY DEF Part
<1>7. Len(markers) \in Nat /\ Len(snap.markers) \in Nat
  BY <1>2, <1>5
<1> QED BY <1>2, <1>3, <1>4, <1>5, <1>6, <1>7, InfType

\* Where a marker ends is a number.
LEMMA MarkerTypes ==
  ASSUME IInv, NEW t \in 1..Len(markers)
  PROVE  markers[t] \in Marker /\ markers[t].end \in Nat
<1>1. markers \in Seq(Marker)
  BY WriterTypes
<1>2. markers[t] \in Marker
  BY <1>1
<1> QED BY <1>2 DEF Marker

\* Parsing: a new marker lies in the part being written.
LEMMA WriterParses ==
  ASSUME IInv, NEW n \in 1..MaxChunk, ProcessChannelData(n)
  PROVE  WriterInv' /\ \A f : KnownPart(f) => KnownPart(f)'
<1>0. LiveTypeOK /\ WriterInv /\ Published /\ MarkersInParts
  BY DEF IInv, WriterInv
<1>w. PICK w \in files : Written(w)
  BY DEF IInv, WriterInv, LastPart
<1>g. \A f : Growing(f) <=> Growing(f)'
  BY DEF Growing, Inf
<1>t. n \in Nat \ {0}
  BY LiveBufferAssumption
<1>1. /\ UNCHANGED <<files, on_disk>> /\ mm'.file = mm.file /\ mm'.safe = mm.safe
      /\ mm'.marker = mm.marker /\ decrypted' = decrypted + n /\ wpc' = "parsed"
      /\ wpc = "idle"
  BY <1>0 DEF ProcessChannelData, LiveTypeOK, Meta, Reader, Snapshot
<1>n. /\ Len(markers) \in Nat /\ decrypted \in Nat /\ decrypted' \in Nat
      /\ decrypted + 1 <= decrypted' /\ mm.file.time \in Nat
      /\ w.time \in Nat /\ mm.file.time = w.time /\ mm.safe \in Nat
  BY <1>1, <1>t, <1>w, WriterTypes, WrittenTypes
<1>2. CASE markers' = markers /\ fresh' = FALSE
  <2>1. \A f : KnownPart(f) => KnownPart(f)'
    BY <1>1, <1>2, <1>t, WriterTypes, KnownKept
  <2>2. LastPart'
    <3>1. Written(w)'
      BY <1>w, <1>1, <1>2, <2>1, <1>g DEF Written
    <3> QED BY <3>1, <1>1 DEF LastPart
  <2>3. Successors'
    BY <1>0, <1>1, <1>g DEF WriterInv, Successors
  <2>4. MarkersInParts'
    <3>1. \A t \in 1..Len(markers) : markers[t] \in Marker /\ markers[t].end \in Nat
      BY MarkerTypes
    <3>2. \A t \in 1..Len(markers) : markers[t].end <= decrypted'
      BY <3>1, <1>0, <1>1, <1>t, WriterTypes DEF MarkersInParts
    <3> QED BY <3>2, <1>0, <1>1, <1>2 DEF MarkersInParts
  <2>5. Published'
    <3>1. mm.safe < decrypted' /\ mm.safe <= decrypted'
      BY <1>0, <1>n DEF Published
    <3> QED BY <3>1, <1>0, <1>1, <1>2 DEF Published
  <2> QED BY <2>1, <2>2, <2>3, <2>4, <2>5 DEF WriterInv
<1>3. CASE markers' = Append(markers, new_marker) /\ fresh' = TRUE
  <2>0. new_marker \in Marker /\ new_marker.end = decrypted + 1
    BY <1>n DEF new_marker, Marker
  <2>1. /\ Len(markers') = Len(markers) + 1
        /\ \A t \in 1..Len(markers) : markers'[t] = markers[t]
        /\ markers'[Len(markers) + 1] = new_marker
    BY <1>3, <2>0, WriterTypes
  <2>2. \A f : KnownPart(f) => KnownPart(f)'
    <3>1. Len(markers') \in Nat /\ Len(markers) <= Len(markers') /\ decrypted <= decrypted'
      BY <2>1, <1>n
    <3>2. files' \subseteq files
      BY <1>1
    <3> QED BY <3>1, <3>2, <1>n, KnownKept
  <2>3. LastPart'
    <3>1. w.time <= Len(markers')
      BY <1>w, <2>1, <1>n DEF Written
    <3>2. Written(w)'
      BY <1>w, <1>1, <2>2, <1>g, <3>1 DEF Written
    <3> QED BY <3>2, <1>1 DEF LastPart
  <2>4. Successors'
    BY <1>0, <1>1, <1>g DEF WriterInv, Successors
  <2>5. MarkersInParts'
    <3> SUFFICES ASSUME NEW t \in 1..Len(markers')
                 PROVE /\ markers'[t].end <= decrypted'
                       /\ \A f \in files : t <= f.time => markers'[t].end <= f.first
                       /\ \A f \in files : t > f.time /\ t <= f.end_time
                            => markers'[t].end >= f.first /\ markers'[t].end <= f.last
      BY <1>1 DEF MarkersInParts
    <3>1. CASE t \in 1..Len(markers)
      <4>1. markers'[t] = markers[t] /\ markers[t].end \in Nat
        BY <3>1, <2>1, MarkerTypes
      <4>2. markers[t].end <= decrypted'
        BY <4>1, <3>1, <1>0, <1>n DEF MarkersInParts
      <4> QED BY <4>1, <4>2, <3>1, <1>0 DEF MarkersInParts
    <3>2. CASE t = Len(markers) + 1
      <4>1. markers'[t].end = decrypted + 1
        BY <3>2, <2>1, <2>0
      <4>2. ASSUME NEW f \in files
            PROVE  f.time < t /\ (t <= f.end_time => f.first <= decrypted + 1 /\ decrypted + 1 <= f.last)
        <5>1. KnownPart(f) /\ f.time <= w.time /\ w.time <= Len(markers)
          BY <1>w DEF Written
        <5>2. f.time \in Nat /\ f.first \in Nat /\ f.last \in Nat /\ f.end_time \in Nat
          BY WriterTypes DEF Part
        <5>3. f.first <= decrypted /\ (Growing(f) \/ Ended(f))
          BY <5>1 DEF KnownPart
        <5>4. t <= f.end_time => Growing(f)
          BY <5>3, <5>2, <3>2, WriterTypes DEF Ended
        <5>5. Growing(f) => decrypted + 1 <= f.last
          BY WriterTypes, InfType DEF Growing
        <5>6. f.time < t
          BY <5>1, <5>2, <3>2, <1>n
        <5>7. f.first <= decrypted + 1
          BY <5>3, <5>2, <1>n
        <5> QED BY <5>4, <5>5, <5>6, <5>7
      <4>3. decrypted + 1 <= decrypted'
        BY <1>1, <1>t, WriterTypes
      <4>4. \A f \in files : f.time \in Nat
        BY WriterTypes DEF Part
      <4> QED BY <4>1, <4>2, <4>3, <4>4, <3>2, WriterTypes
    <3> QED BY <3>1, <3>2, <2>1, WriterTypes
  <2>6. Published'
    <3>1. /\ mm.file.time < Len(markers') /\ mm.marker <= Len(markers')
          /\ mm.safe <= decrypted' /\ mm.safe < decrypted'
      <4>1. w \in Part /\ w.time \in Nat /\ w.time <= Len(markers)
        BY <1>w, WriterTypes DEF Written, Part
      <4>2. mm.file.time = w.time
        BY <1>w, <4>1 DEF Written, Part
      <4>3. mm.safe \in Nat /\ mm.marker \in Nat /\ Len(markers) \in Nat
        BY WriterTypes
      <4>4. mm.safe <= decrypted /\ mm.marker <= Len(markers)
        BY <1>0 DEF Published
      <4> QED BY <4>1, <4>2, <4>3, <4>4, <2>1, <1>n
    <3> QED BY <3>1, <1>1 DEF Published
  <2> QED BY <2>2, <2>3, <2>4, <2>5, <2>6 DEF WriterInv
<1> QED BY <1>2, <1>3 DEF ProcessChannelData

\* Publishing.
LEMMA WriterPublishes ==
  ASSUME IInv, Publish
  PROVE  WriterInv' /\ \A f : KnownPart(f) => KnownPart(f)'
<1>0. LiveTypeOK /\ WriterInv /\ Published
  BY DEF IInv, WriterInv
<1>w. PICK w \in files : Written(w)
  BY DEF IInv, WriterInv, LastPart
<1>g. \A f : Growing(f) <=> Growing(f)'
  BY DEF Growing, Inf
<1>1. /\ UNCHANGED <<files, on_disk, markers, decrypted>> /\ mm'.file = mm.file
      /\ mm'.safe = decrypted /\ mm'.marker = Len(markers) /\ wpc' = "idle"
  BY <1>0 DEF Publish, LiveTypeOK, Meta, Reader, Snapshot
<1>2. \A f : KnownPart(f) => KnownPart(f)'
  BY <1>1, WriterTypes, KnownKept
<1>3. LastPart'
  <2>1. Written(w)'
    BY <1>w, <1>1, <1>2, <1>g DEF Written
  <2> QED BY <2>1, <1>1 DEF LastPart
<1>4. Successors' /\ MarkersInParts'
  BY <1>0, <1>1, <1>g DEF WriterInv, Successors, MarkersInParts
<1>5. Published'
  BY <1>1, WriterTypes DEF Published
<1> QED BY <1>2, <1>3, <1>4, <1>5 DEF WriterInv

\* A new part: the one that ends gets its end, all that was decrypted is in it,
\* and a marker was saved since it began.
LEMMA WriterNextFile ==
  ASSUME IInv, next_data_file(decrypted), mm.file.time < Len(markers), wpc' = "idle"
  PROVE  /\ WriterInv'
         /\ \A f : KnownPart(f) => KnownPart(f)'
         /\ files' \in SUBSET Part /\ mm'.file \in Part /\ on_disk' \in SUBSET Nat
<1>c. PICK c : c = closed_part(decrypted)
  OBVIOUS
<1>p. PICK n : n = next_part(decrypted)
  OBVIOUS
<1>w. Written(mm.file)
  BY MadePart DEF next_data_file, new_file_ok
<1>0. LiveTypeOK /\ WriterInv /\ Published /\ MarkersInParts /\ Successors
  BY DEF IInv, WriterInv
<1>n. /\ Len(markers) \in Nat /\ decrypted \in Nat /\ mm.file.time \in Nat
      /\ mm.file.fileno \in Nat /\ mm.file.first \in Nat /\ mm.safe \in Nat
      /\ decrypted <= MaxPackets /\ mm.file \in Part /\ files \in SUBSET Part
  BY WriterTypes
<1>1. /\ files' = (files \ {mm.file}) \cup {c, n} /\ mm'.file = n
      /\ mm'.safe = decrypted /\ mm'.marker = Len(markers)
      /\ markers' = markers /\ decrypted' = decrypted
      /\ on_disk' = on_disk \cup {n.fileno}
  BY <1>0, <1>c, <1>p DEF next_data_file, LiveTypeOK, Meta, Reader, Snapshot
<1>2. /\ c \in Part /\ c.fileno = mm.file.fileno /\ c.first = mm.file.first
      /\ c.time = mm.file.time /\ c.end_time = Len(markers) /\ c.last = decrypted
  BY <1>c, <1>n DEF closed_part, Part
<1>3. /\ n \in Part /\ n.fileno = mm.file.fileno + 1 /\ n.first = decrypted
      /\ n.time = Len(markers) /\ n.end_time = Inf /\ n.last = Inf
  BY <1>p, <1>n, InfType DEF next_part, Part
<1>4. \A f : KnownPart(f) => KnownPart(f)'
  BY <1>n, KnownNext
<1>g. \A f : (Growing(f) <=> Growing(f)') /\ (Ended(f) <=> Ended(f)')
  BY <1>1 DEF Growing, Ended, Inf
<1>5. Growing(n) /\ Ended(c) /\ ~Growing(c)
  <2>1. mm.file.first <= decrypted
    BY <1>w DEF Written, KnownPart
  <2> QED BY <2>1, <1>2, <1>3, <1>n, InfType DEF Growing, Ended
<1>6. \A f \in files : f.fileno \in Nat /\ f.time \in Nat /\ f.first \in Nat /\ f.last \in Nat
  BY <1>n DEF Part
<1>7. \A f \in files \ {mm.file} : f.fileno < mm.file.fileno /\ ~Growing(f)
  BY <1>w DEF Written
<1>8. KnownPart(c)'
  <2>1. \A g \in files' : g.fileno = c.fileno => g = c
    <3> SUFFICES ASSUME NEW g \in files', g.fileno = c.fileno PROVE g = c
      OBVIOUS
    <3>1. CASE g = n
      BY <3>1, <1>2, <1>3, <1>n
    <3>2. CASE g \in files \ {mm.file}
      BY <3>2, <1>2, <1>6, <1>7, <1>n
    <3> QED BY <3>1, <3>2, <1>1
  <2>2. c.first <= decrypted
    BY <1>2, <1>w DEF Written, KnownPart
  <2>3. \A g \in files' : Growing(g) => c.fileno <= g.fileno
    <3>1. \A g \in files' : Growing(g) => g = n
      BY <1>1, <1>5, <1>7
    <3>2. c.fileno <= n.fileno
      BY <1>2, <1>3, <1>n
    <3> QED BY <3>1, <3>2
  <2> QED BY <2>1, <2>2, <2>3, <1>1, <1>2, <1>5, <1>g DEF KnownPart
<1>9. \A g \in files' : g # n => g.fileno < n.fileno
  <2> SUFFICES ASSUME NEW g \in files', g # n PROVE g.fileno < n.fileno
    OBVIOUS
  <2>1. CASE g = c
    BY <2>1, <1>2, <1>3, <1>n
  <2>2. CASE g \in files \ {mm.file}
    BY <2>2, <1>3, <1>6, <1>7, <1>n
  <2> QED BY <2>1, <2>2, <1>1
<1>10. KnownPart(n)'
  <2>1. \A g \in files' : g.fileno = n.fileno => g = n
    <3>1. n.fileno \in Nat
      BY <1>3, <1>n
    <3> QED BY <1>9, <3>1
  <2>2. n.fileno <= n.fileno /\ n.first <= decrypted
    BY <1>3, <1>n
  <2>3. \A g \in files' : Growing(g) => g = n
    BY <1>1, <1>5, <1>7
  <2> QED BY <2>1, <2>2, <2>3, <1>1, <1>3, <1>5, <1>g DEF KnownPart
<1>11. Written(n)'
  <2>1. \A f \in files' : KnownPart(f)'
    BY <1>w, <1>1, <1>4, <1>8, <1>10 DEF Written
  <2>2. \A f \in files' : f.time <= Len(markers)
    <3>1. \A f \in files : f.time <= Len(markers)
      BY <1>w, <1>6, <1>n DEF Written
    <3>2. c.time <= Len(markers) /\ n.time <= Len(markers)
      BY <1>2, <1>3, <1>n
    <3> QED BY <3>1, <3>2, <1>1
  <2>3. \A f \in files' : f # n => ~Growing(f)'
    BY <1>1, <1>5, <1>7, <1>g
  <2>4. n.time <= Len(markers)
    BY <1>3, <1>n
  <2> QED BY <2>1, <2>2, <2>3, <2>4, <1>1, <1>3, <1>5, <1>9, <1>g DEF Written
<1>12. Successors'
  <2> SUFFICES ASSUME NEW f \in files', ~Growing(f)
               PROVE  \E g \in files' : follows(f, g) /\ g.first = f.last /\ g.time = f.end_time
    BY <1>1, <1>g DEF Successors
  <2>1. CASE f = c
    <3>1. follows(f, n) /\ n.first = f.last /\ n.time = f.end_time
      BY <2>1, <1>2, <1>3 DEF follows
    <3> QED BY <3>1, <1>1
  <2>2. CASE f \in files \ {mm.file}
    <3>1. PICK g \in files : follows(f, g) /\ g.first = f.last /\ g.time = f.end_time
      BY <2>2, <1>0, <1>7 DEF Successors
    <3>2. CASE g = mm.file
      <4>1. follows(f, c) /\ c.first = f.last /\ c.time = f.end_time
        BY <3>1, <3>2, <1>2 DEF follows
      <4> QED BY <4>1, <1>1
    <3>3. CASE g # mm.file
      BY <3>1, <3>3, <1>1
    <3> QED BY <3>2, <3>3
  <2> QED BY <2>1, <2>2, <1>1, <1>5
<1>13. MarkersInParts'
  <2> SUFFICES ASSUME NEW t \in 1..Len(markers)
               PROVE /\ markers[t].end <= decrypted
                     /\ \A f \in files' : t <= f.time => markers[t].end <= f.first
                     /\ \A f \in files' : t > f.time /\ t <= f.end_time
                          => markers[t].end >= f.first /\ markers[t].end <= f.last
    BY <1>1 DEF MarkersInParts
  <2>1. /\ markers[t].end <= decrypted
        /\ \A f \in files : t <= f.time => markers[t].end <= f.first
        /\ \A f \in files : t > f.time /\ t <= f.end_time
             => markers[t].end >= f.first /\ markers[t].end <= f.last
    BY <1>0 DEF MarkersInParts
  <2>2. t \in Nat /\ t <= Len(markers) /\ ~(t > Len(markers))
    BY <1>n
  <2>3. mm.file \in files /\ t <= mm.file.end_time
    <3>1. mm.file \in files /\ mm.file.end_time = Inf
      BY <1>w DEF Written, Growing
    <3>2. t <= Inf
      BY <2>2, <1>n, WriterTypes, InfType
    <3> QED BY <3>1, <3>2
  <2>4. /\ t <= c.time => markers[t].end <= c.first
        /\ t > c.time => markers[t].end >= c.first
        /\ markers[t].end <= c.last
    BY <2>1, <2>3, <1>2
  <2>5. markers[t].end <= n.first /\ ~(t > n.time)
    BY <2>1, <2>2, <1>3
  <2> QED BY <2>1, <2>4, <2>5, <1>1
<1>14. Published'
  <2>1. decrypted <= decrypted /\ Len(markers) <= Len(markers)
    BY <1>n
  <2> QED BY <2>1, <1>1 DEF Published
<1>15. files' \in SUBSET Part /\ mm'.file \in Part
  BY <1>1, <1>2, <1>3, <1>n
<1>16. on_disk' \in SUBSET Nat
  <2>1. n.fileno \in Nat /\ on_disk \in SUBSET Nat
    BY <1>0, <1>3, <1>n DEF LiveTypeOK, Meta, Reader, Snapshot
  <2> QED BY <2>1, <1>1
<1>17. LastPart'
  BY <1>1, <1>11 DEF LastPart
<1> QED BY <1>4, <1>17, <1>12, <1>13, <1>14, <1>15, <1>16 DEF WriterInv

\* A part that cannot be made: what was published stays as it is, and the
\* meta_marker names a part after all others.
LEMMA WriterNoFile ==
  ASSUME IInv, NEW end, no_new_file(end), wpc' = "idle"
  PROVE  WriterInv' /\ \A f : KnownPart(f) => KnownPart(f)'
<1>w. Written(mm.file)
  BY MadePart DEF no_new_file
<1>0. LiveTypeOK /\ WriterInv /\ Published
  BY DEF IInv, WriterInv
<1>1. /\ UNCHANGED <<files, on_disk, markers, decrypted>> /\ mm'.file = unmade_part
      /\ mm'.safe = mm.safe /\ mm'.marker = Len(markers)
  BY <1>0 DEF no_new_file, LiveTypeOK, Meta
<1>2. \A f : KnownPart(f) => KnownPart(f)'
  BY <1>1, WriterTypes, KnownKept
<1>g. \A f : Growing(f) <=> Growing(f)'
  BY DEF Growing, Inf
<1>3. LastPart'
  <2>1. PICK w : w = mm.file
    OBVIOUS
  <2>2. Written(w) /\ mm'.file = [w EXCEPT !.fileno = @ + 1]
    BY <2>1, <1>w, <1>1 DEF unmade_part
  <2>3. Written(w)'
    BY <2>2, <1>1, <1>2, <1>g DEF Written
  <2>4. w \in files'
    BY <2>2, <1>1 DEF Written
  <2> QED BY <2>3, <2>4 DEF LastPart
<1>4. Successors' /\ MarkersInParts'
  BY <1>0, <1>1, <1>g DEF WriterInv, Successors, MarkersInParts
<1>5. mm'.file \notin files
  <2>1. mm.file \in Part /\ mm.file.fileno \in Nat
    BY WriterTypes
  <2>2. mm'.file.fileno = mm.file.fileno + 1
    BY <2>1, <1>1 DEF unmade_part, Part
  <2>3. \A f \in files : f.fileno # mm.file.fileno + 1
    <3>1. \A f \in files : f.fileno \in Nat /\ (f = mm.file \/ f.fileno < mm.file.fileno)
      BY <1>w, WriterTypes DEF Written, Part
    <3> QED BY <3>1, <2>1
  <2> QED BY <2>2, <2>3
<1>6. Published'
  <2>1. mm.safe <= decrypted /\ Len(markers) <= Len(markers)
    BY <1>0, WriterTypes DEF Published
  <2> QED BY <2>1, <1>1, <1>5 DEF Published
<1> QED BY <1>2, <1>3, <1>4, <1>6 DEF WriterInv

\* There is an oldest part, and housekeeping does not remove the one being written.
LEMMA OldestPart ==
  ASSUME IInv
  PROVE  /\ oldest_part \in files /\ \A g \in files : oldest_part.fileno <= g.fileno
         /\ oldest_part.end_time # Inf \/ wpc = "removing" => ~Growing(oldest_part)
<1>0. LiveTypeOK /\ Published
  BY DEF IInv, WriterInv
<1>w. PICK w \in files : Written(w)
  BY DEF IInv, WriterInv, LastPart
<1>1. \A f \in files : f.fileno \in Nat
  BY WriterTypes DEF Part
<1>2. {f.fileno : f \in files} \in SUBSET Nat /\ {f.fileno : f \in files} # {}
  BY <1>w, <1>1, Zenon
<1>3. PICK n \in {f.fileno : f \in files} : \A m \in {f.fileno : f \in files} : n <= m
  BY <1>2, LeastOf
<1>4. \E f \in files : \A g \in files : f.fileno <= g.fileno
  BY <1>3, Zenon
<1>5. oldest_part \in files /\ \A g \in files : oldest_part.fileno <= g.fileno
  BY <1>4, Zenon DEF oldest_part
<1>6. oldest_part.end_time # Inf => ~Growing(oldest_part)
  BY DEF Growing
<1>7. ASSUME wpc = "removing", Growing(oldest_part) PROVE FALSE
  <2>1. PICK f \in files : ~Growing(f)
    BY <1>0, <1>7 DEF Published
  <2>2. f.fileno < w.fileno /\ oldest_part = w
    BY <2>1, <1>w, <1>5, <1>7 DEF Written
  <2>3. w.fileno <= f.fileno
    BY <2>2, <1>5
  <2> QED BY <2>2, <2>3, <1>1
<1> QED BY <1>5, <1>6, <1>7

-----------------------------------------------------------------------------
(* The player's part of the invariant.                                     *)

PlayerInv == SnapInv /\ MappedInv /\ ReadsWritten

\* No step of the service thread invalidates what the player knows: parts only
\* end where everything that may be read, or that a snapshot shows, is in them.
LEMMA PlayerKept ==
  ASSUME IInv, LiveTypeOK',
         rd' = rd \/ rd' = [rd EXCEPT !.blocked = FALSE], snap' = snap,
         \A f : KnownPart(f) => KnownPart(f)',
         \A g \in files' : g \in files \/ (g.end_time >= Len(markers) /\ g.last >= decrypted),
         decrypted <= decrypted', Len(markers) <= Len(markers'),
         \A t \in 1..Len(markers) : markers'[t] = markers[t],
         \A f \in Part : Reachable(f) => Reachable(f)',
         \A g \in files' : Growing(g) => \E w \in files : Growing(w) /\ w.fileno <= g.fileno
  PROVE  PlayerInv'
<1>0. LiveTypeOK /\ SnapInv /\ MappedInv /\ ReadsWritten
  BY DEF IInv
<1>1. /\ rd'.file = rd.file /\ rd'.pc = rd.pc /\ rd'.mapped = rd.mapped
      /\ rd'.pos = rd.pos /\ rd'.readable = rd.readable
  BY <1>0 DEF LiveTypeOK, Meta, Reader, Snapshot
<1>n. /\ Len(markers) \in Nat /\ Len(markers') \in Nat /\ decrypted \in Nat /\ decrypted' \in Nat
      /\ Len(snap.markers) \in Nat /\ rd.readable \in Nat
      /\ rd.file.fileno \in Nat
  <2>1. Len(markers') \in Nat /\ decrypted' \in Nat
    BY InfType DEF LiveTypeOK, Meta, Reader, Snapshot
  <2>2. rd.readable \in Nat
    BY <1>0 DEF LiveTypeOK, Meta, Reader, Snapshot
  <2> QED BY <2>1, <2>2, WriterTypes
<1>g. \A f : Growing(f) <=> Growing(f)'
  BY DEF Growing, Inf
<1>f. \A g \in files' : g \in Part /\ g.end_time \in Nat /\ g.last \in Nat /\ g.fileno \in Nat
  BY DEF LiveTypeOK, Meta, Reader, Snapshot, Part
<1>2. SnapInv'
  <2> SUFFICES ASSUME opening' PROVE
        /\ \A f \in snap.files : KnownPart(f)'
        /\ Len(snap.markers) <= Len(markers')
        /\ \A t \in 1..Len(snap.markers) : snap.markers[t] = markers'[t]
        /\ snap.time < Inf
        /\ \E l \in snap.files :
             /\ Growing(l) /\ Reachable(l)' /\ rd.file.fileno <= l.fileno
             /\ rd.mapped /\ rd.file.fileno = l.fileno => rd.file.time = l.time
             /\ \A f \in snap.files : f.time <= l.time
        /\ \A f \in snap.files, g \in files' :
             Growing(f) /\ g.fileno = f.fileno => Len(snap.markers) <= g.end_time
    BY <1>1, <1>g DEF SnapInv, Inf
  <2>1. opening /\ rd.pc # "closed"
    BY <1>1 DEF opening
  <2>2. /\ \A f \in snap.files : KnownPart(f)
        /\ Len(snap.markers) <= Len(markers)
        /\ \A t \in 1..Len(snap.markers) : snap.markers[t] = markers[t]
        /\ snap.time < Inf
        /\ \A f \in snap.files, g \in files : Growing(f) /\ g.fileno = f.fileno => Len(snap.markers) <= g.end_time
    BY <2>1, <1>0 DEF SnapInv
  <2>3. PICK l \in snap.files :
             /\ Growing(l) /\ Reachable(l) /\ rd.file.fileno <= l.fileno
             /\ rd.mapped /\ rd.file.fileno = l.fileno => rd.file.time = l.time
             /\ \A f \in snap.files : f.time <= l.time
    BY <2>1, <1>0 DEF SnapInv
  <2>4. Reachable(l)'
    BY <2>3, WriterTypes
  <2>5. Len(snap.markers) <= Len(markers')
    BY <2>2, <1>n
  <2>6. \A t \in 1..Len(snap.markers) : snap.markers[t] = markers'[t]
    BY <2>2, <1>n
  <2>7. ASSUME NEW f \in snap.files, NEW g \in files', Growing(f), g.fileno = f.fileno
        PROVE  Len(snap.markers) <= g.end_time
    <3>1. CASE g \in files
      BY <3>1, <2>7, <2>2
    <3>2. CASE g.end_time >= Len(markers)
      BY <3>2, <2>2, <1>n, <1>f
    <3> QED BY <3>1, <3>2
  <2> QED BY <2>2, <2>3, <2>4, <2>5, <2>6, <2>7
<1>3. MappedInv'
  <2>1. ASSUME NEW g \in files', Growing(g) PROVE rd.file.fileno <= g.fileno
    <3>1. PICK w \in files : Growing(w) /\ w.fileno <= g.fileno
      BY <2>1
    <3>2. rd.file.fileno <= w.fileno /\ w.fileno \in Nat
      BY <3>1, <1>0, WriterTypes DEF MappedInv, Part
    <3> QED BY <3>1, <3>2, <1>n, <1>f
  <2> QED BY <2>1, <1>0, <1>1, <1>g DEF MappedInv
<1>4. ReadsWritten'
  <2> SUFFICES ASSUME rd.mapped PROVE
        /\ rd.file.first <= rd.pos /\ rd.pos <= rd.readable
        /\ rd.readable <= decrypted'
        /\ \A f \in files' : f.fileno = rd.file.fileno => rd.readable <= f.last
    BY <1>1 DEF ReadsWritten
  <2>1. /\ rd.file.first <= rd.pos /\ rd.pos <= rd.readable /\ rd.readable <= decrypted
        /\ \A f \in files : f.fileno = rd.file.fileno => rd.readable <= f.last
    BY <1>0 DEF ReadsWritten
  <2>2. rd.readable <= decrypted'
    BY <2>1, <1>n
  <2>3. ASSUME NEW f \in files', f.fileno = rd.file.fileno PROVE rd.readable <= f.last
    <3>1. CASE f \in files
      BY <3>1, <2>1, <2>3
    <3>2. CASE f.last >= decrypted
      BY <3>2, <2>1, <1>n, <1>f
    <3> QED BY <3>1, <3>2
  <2> QED BY <2>1, <2>2, <2>3
<1> QED BY <1>2, <1>3, <1>4 DEF PlayerInv

\* A snapshot of the present database.
LEMMA SnapshotMade ==
  ASSUME IInv, UNCHANGED <<files, on_disk, markers, decrypted>>,
         \A f : KnownPart(f) => KnownPart(f)',
         NEW t \in Nat, t < Inf, snap' = snapshot(t),
         \A g \in files : Growing(g) => rd'.file.fileno <= g.fileno,
         rd'.mapped => KnownPart(rd'.file)
  PROVE  SnapInv'
<1>w. PICK w \in files : Written(w)
  BY DEF IInv, WriterInv, LastPart
<1>g. \A f : Growing(f) <=> Growing(f)'
  BY DEF Growing, Inf
<1>1. snap'.files = files /\ snap'.markers = markers /\ snap'.time = t
  BY DEF snapshot
<1>2. \A f \in files : KnownPart(f)'
  BY <1>w DEF Written
<1>3. /\ Growing(w) /\ Reachable(w)' /\ rd'.file.fileno <= w.fileno
      /\ rd'.mapped /\ rd'.file.fileno = w.fileno => rd'.file.time = w.time
      /\ \A f \in files : f.time <= w.time
  BY <1>w DEF Written, Reachable, KnownPart
<1>4. ASSUME NEW f \in files, NEW g \in files, Growing(f), g.fileno = f.fileno
      PROVE  Len(markers) <= g.end_time
  <2>1. f = w
    BY <1>w, <1>4 DEF Written
  <2>2. g = w
    <3>1. (g # w => g.fileno < w.fileno) /\ w.fileno \in Nat
      BY <1>w, WrittenTypes DEF Written
    <3> QED BY <3>1, <2>1, <1>4
  <2>3. g.end_time = Inf
    BY <2>2, <1>3 DEF Growing
  <2> QED BY <2>3, WriterTypes, InfType
<1>5. Len(markers) <= Len(markers)
  BY WriterTypes
<1> QED BY <1>1, <1>2, <1>3, <1>4, <1>5, <1>g DEF SnapInv, Inf

\* A step that neither begins nor removes a part.
LEMMA PartsSame ==
  ASSUME IInv, UNCHANGED <<files, on_disk>>
  PROVE  /\ \A f \in Part : Reachable(f) => Reachable(f)'
         /\ \A g \in files' : Growing(g) => \E w \in files : Growing(w) /\ w.fileno <= g.fileno
<1>1. \A g \in files : g.fileno <= g.fileno
  BY WriterTypes DEF Part
<1> QED BY <1>1 DEF Reachable

-----------------------------------------------------------------------------
(* One lemma per action of the service thread.                             *)

\* Parsing adds packets, and possibly a marker, to the last part.
LEMMA KeptBy_ProcessChannelData ==
  ASSUME IInv, NEW n \in 1..MaxChunk, ProcessChannelData(n)
  PROVE  IInv'
<1>0. LiveTypeOK
  BY DEF IInv
<1>n. /\ n \in Nat /\ n > 0 /\ decrypted \in Nat /\ Len(markers) \in Nat /\ MaxPackets \in Nat
      /\ markers \in Seq(Marker) /\ Len(markers) <= decrypted
  <2>1. MaxChunk \in Nat
    BY LiveBufferAssumption
  <2> QED BY <2>1, InfType, WriterTypes
<1>1. /\ UNCHANGED <<files, on_disk, rd, snap>> /\ mm'.file = mm.file
      /\ decrypted' = decrypted + n /\ decrypted + n <= MaxPackets /\ wpc' = "parsed"
      /\ mm' \in Meta
      /\ fresh' \in BOOLEAN
  BY <1>0 DEF ProcessChannelData, LiveTypeOK, Meta, Reader, Snapshot, rvars
<1>2. /\ markers' \in Seq(Marker) /\ Len(markers) <= Len(markers') /\ Len(markers') <= decrypted'
      /\ \A t \in 1..Len(markers) : markers'[t] = markers[t]
  <2>1. CASE markers' = markers
    BY <2>1, <1>1, <1>n
  <2>2. CASE markers' = Append(markers, new_marker)
    <3>1. new_marker \in Marker
      BY <1>n DEF new_marker, Marker
    <3> QED BY <3>1, <2>2, <1>1, <1>n
  <2> QED BY <2>1, <2>2 DEF ProcessChannelData
<1>3. LiveTypeOK'
  <2>1. decrypted' \in 0..MaxPackets
    BY <1>1, <1>n
  <2> QED BY <2>1, <1>0, <1>1, <1>2 DEF LiveTypeOK, Meta, Reader, Snapshot
<1>4. WriterInv' /\ \A f : KnownPart(f) => KnownPart(f)'
  BY WriterParses
<1>5. decrypted <= decrypted'
  BY <1>1, <1>n
<1>6. PlayerInv'
  BY <1>1, <1>2, <1>3, <1>4, <1>5, PartsSame, PlayerKept
<1> QED BY <1>3, <1>4, <1>6 DEF IInv, PlayerInv

\* Publishing lets the player read what was decrypted.
LEMMA KeptBy_Publish ==
  ASSUME IInv, Publish
  PROVE  IInv'
<1>0. LiveTypeOK
  BY DEF IInv
<1>1. /\ UNCHANGED <<files, on_disk, markers, decrypted, snap>> /\ mm'.file = mm.file
      /\ rd' = [rd EXCEPT !.blocked = FALSE] /\ wpc' = "idle" /\ fresh' = FALSE
      /\ mm' = [mm EXCEPT !.safe = decrypted, !.marker = Len(markers)]
  BY <1>0 DEF Publish, LiveTypeOK, Meta, Reader, Snapshot, rvars, notify_all
<1>2. LiveTypeOK'
  <2>1. mm' \in Meta
    BY <1>0, <1>1, WriterTypes DEF LiveTypeOK, Meta, Reader, Snapshot
  <2> QED BY <2>1, <1>0, <1>1 DEF LiveTypeOK, Meta, Reader, Snapshot
<1>4. WriterInv' /\ \A f : KnownPart(f) => KnownPart(f)'
  BY WriterPublishes
<1>5. decrypted <= decrypted' /\ Len(markers) <= Len(markers')
  BY <1>1, WriterTypes
<1>6. PlayerInv'
  BY <1>1, <1>2, <1>4, <1>5, PartsSame, PlayerKept
<1> QED BY <1>2, <1>4, <1>6 DEF IInv, PlayerInv

\* A new part begins, in process_channel_data and at the end of a recording.
LEMMA KeptBy_next_data_file ==
  ASSUME IInv, next_data_file(decrypted), mm.file.time < Len(markers), wpc' = "idle",
         fresh' \in BOOLEAN
  PROVE  IInv'
<1>0. LiveTypeOK
  BY DEF IInv
<1>n. /\ decrypted \in Nat /\ Len(markers) \in Nat /\ mm.file.fileno \in Nat /\ mm.file \in Part
  BY WriterTypes
<1>1. /\ UNCHANGED <<markers, decrypted, snap>>
      /\ mm' = [mm EXCEPT !.safe = decrypted, !.file = next_part(decrypted), !.marker = Len(markers)]
      /\ files' = (files \ {mm.file}) \cup {closed_part(decrypted), next_part(decrypted)}
      /\ on_disk' = on_disk \cup {next_part(decrypted).fileno}
      /\ rd' = [rd EXCEPT !.blocked = FALSE]
  BY DEF next_data_file, rvars, notify_all
<1>2. mm'.file = next_part(decrypted)
  BY <1>0, <1>1 DEF LiveTypeOK, Meta, Reader, Snapshot
<1>w. /\ WriterInv'
      /\ \A f : KnownPart(f) => KnownPart(f)'
      /\ files' \in SUBSET Part /\ mm'.file \in Part /\ on_disk' \in SUBSET Nat
  BY WriterNextFile
<1>3. LiveTypeOK'
  <2>1. mm' \in Meta
    <3>1. next_part(decrypted) \in Part
      BY <1>2, <1>w
    <3> QED BY <3>1, <1>0, <1>1, <1>n DEF LiveTypeOK, Meta, Reader, Snapshot
  <2> QED BY <2>1, <1>0, <1>1, <1>w DEF LiveTypeOK, Meta, Reader, Snapshot
<1>4. /\ closed_part(decrypted).end_time = Len(markers) /\ closed_part(decrypted).last = decrypted
      /\ next_part(decrypted).end_time = Inf /\ next_part(decrypted).last = Inf
      /\ next_part(decrypted).fileno = mm.file.fileno + 1
  BY <1>n DEF closed_part, next_part, Part
<1>5. /\ Len(markers) >= Len(markers) /\ decrypted >= decrypted /\ Inf >= Len(markers) /\ Inf >= decrypted
      /\ mm.file.fileno <= mm.file.fileno + 1
  BY WriterTypes, InfType
<1>6. \A g \in files' : g \in files \/ (g.end_time >= Len(markers) /\ g.last >= decrypted)
  BY <1>1, <1>4, <1>5
<1>7. decrypted <= decrypted' /\ Len(markers) <= Len(markers')
  BY <1>1, <1>5
<1>8. /\ closed_part(decrypted).fileno = mm.file.fileno /\ mm.file \in files /\ Growing(mm.file)
      /\ mm.file.fileno <= mm.file.fileno /\ \A g \in files : g.fileno <= g.fileno
  <2>1. Written(mm.file)
    BY MadePart DEF next_data_file, new_file_ok
  <2> QED BY <2>1, <1>n, WriterTypes DEF Written, closed_part, Part
<1>9. ASSUME NEW f \in Part, Reachable(f) PROVE Reachable(f)'
  <2>1. CASE f.fileno \in on_disk
    BY <2>1, <1>1 DEF Reachable
  <2>2. CASE \A g \in files : f.fileno <= g.fileno
    <3>1. f.fileno <= mm.file.fileno /\ f.fileno <= mm.file.fileno + 1
      BY <2>2, <1>8, <1>n DEF Part
    <3>2. \A g \in files' : f.fileno <= g.fileno
      BY <3>1, <2>2, <1>1, <1>4, <1>8
    <3> QED BY <3>2 DEF Reachable
  <2> QED BY <1>9, <2>1, <2>2 DEF Reachable
<1>10. \A g \in files' : Growing(g) => \E w \in files : Growing(w) /\ w.fileno <= g.fileno
  BY <1>1, <1>4, <1>5, <1>8
<1>11. PlayerInv'
  BY <1>1, <1>3, <1>w, <1>6, <1>7, <1>9, <1>10, PlayerKept
<1> QED BY <1>3, <1>w, <1>11 DEF IInv, PlayerInv

\* No part begins, because its file cannot be made.
LEMMA KeptBy_no_new_file ==
  ASSUME IInv, NEW end, no_new_file(end), wpc' = "idle", fresh' \in BOOLEAN
  PROVE  IInv'
<1>0. LiveTypeOK /\ mm \in Meta
  BY DEF IInv, LiveTypeOK
<1>1. UNCHANGED <<files, on_disk, markers, decrypted, rd, snap>>
  BY DEF no_new_file, rvars
<1>2. PICK u : u = unmade_part
  OBVIOUS
<1>3. u \in Part
  <2>1. mm.file \in Part /\ mm.file.fileno + 1 \in Nat
    BY WriterTypes
  <2> QED BY <2>1, <1>2 DEF unmade_part, Part
<1>4. LiveTypeOK'
  <2>1. mm' = [mm EXCEPT !.file = u, !.marker = Len(markers)] /\ Len(markers) \in Nat
    BY <1>2, WriterTypes DEF no_new_file
  <2>2. mm' \in Meta
    BY <2>1, <1>0, <1>3 DEF Meta
  <2> QED BY <2>2, <1>0, <1>1 DEF LiveTypeOK
<1>5. WriterInv' /\ \A f : KnownPart(f) => KnownPart(f)'
  BY WriterNoFile
<1>6. decrypted <= decrypted' /\ Len(markers) <= Len(markers')
  BY <1>1, WriterTypes
<1>7. PlayerInv'
  BY <1>1, <1>4, <1>5, <1>6, PartsSame, PlayerKept
<1> QED BY <1>4, <1>5, <1>7 DEF IInv, PlayerInv

\* A part ends after a marker that was just found in it, or goes on.
LEMMA KeptBy_StartNewFile ==
  ASSUME IInv, StartNewFile
  PROVE  IInv'
<1>1. mm.file.time < Len(markers) /\ wpc' = "idle" /\ fresh' \in BOOLEAN
  BY DEF IInv, WriterInv, Published, StartNewFile
<1>2. CASE next_data_file(decrypted)
  BY <1>1, <1>2, KeptBy_next_data_file
<1>3. CASE no_new_file(decrypted)
  BY <1>1, <1>3, KeptBy_no_new_file
<1> QED BY <1>2, <1>3 DEF StartNewFile

\* A part ends with a recording, or goes on; testf makes sure that it has a marker.
LEMMA KeptBy_StopRecording ==
  ASSUME IInv, StopRecording
  PROVE  IInv'
<1>0. wpc = "idle" /\ wpc' = "idle" /\ fresh' \in BOOLEAN
  BY DEF IInv, LiveTypeOK, StopRecording
<1>1. CASE next_data_file(mm.safe)
  <2>1. Written(mm.file)
    BY <1>1, MadePart DEF next_data_file, new_file_ok
  <2>2. mm.safe = decrypted /\ mm.file \in files /\ mm.file.time <= Len(markers)
    BY <1>0, <2>1 DEF IInv, WriterInv, Published, Written
  <2>3. mm.file.time # Len(markers)
    <3>1. next_part(mm.safe).time = Len(markers) /\ next_part(mm.safe).fileno # mm.file.fileno
      BY WriterTypes DEF next_part
    <3> QED BY <1>1, <2>2, <3>1 DEF next_data_file, new_file_ok, testf
  <2>4. mm.file.time < Len(markers)
    BY <2>2, <2>3, WriterTypes
  <2> QED BY <1>0, <1>1, <2>2, <2>4, KeptBy_next_data_file
<1>2. CASE no_new_file(mm.safe)
  BY <1>0, <1>2, KeptBy_no_new_file
<1> QED BY <1>1, <1>2 DEF StopRecording

\* The file of the oldest part goes, although the player may still play it.
LEMMA KeptBy_RemoveFile ==
  ASSUME IInv, RemoveFile
  PROVE  IInv'
<1>0. LiveTypeOK /\ WriterInv /\ Published
  BY DEF IInv, WriterInv
<1>w. PICK w \in files : Written(w)
  BY DEF IInv, WriterInv, LastPart
<1>1. /\ UNCHANGED <<files, markers, decrypted, mm, rd, snap, fresh>>
      /\ on_disk' = on_disk \ {oldest_part.fileno} /\ wpc' = "removing" /\ wpc = "idle"
      /\ oldest_part.end_time # Inf
  BY DEF RemoveFile, rvars
<1>o. /\ oldest_part \in files /\ ~Growing(oldest_part)
      /\ \A g \in files : oldest_part.fileno <= g.fileno
      /\ \A g \in files : g.fileno \in Nat /\ g.fileno <= g.fileno
  BY <1>1, OldestPart, WriterTypes DEF Part
<1>2. LiveTypeOK'
  BY <1>0, <1>1 DEF LiveTypeOK, Meta, Reader, Snapshot
<1>3. \A f : (KnownPart(f) <=> KnownPart(f)') /\ (Growing(f) <=> Growing(f)')
  BY <1>1 DEF KnownPart, Growing, Ended, Inf
<1>4. LastPart'
  <2>1. w.fileno # oldest_part.fileno
    BY <1>w, <1>o DEF Written
  <2>2. Written(w)'
    BY <2>1, <1>w, <1>1, <1>3 DEF Written
  <2> QED BY <2>2, <1>1 DEF LastPart
<1>5. Successors' /\ MarkersInParts'
  BY <1>0, <1>1, <1>3 DEF WriterInv, Successors, MarkersInParts
<1>6. Published'
  BY <1>0, <1>1, <1>3, <1>o DEF Published
<1>7. \A f \in Part : Reachable(f) => Reachable(f)'
  BY <1>1, <1>o DEF Reachable
<1>8. decrypted <= decrypted' /\ Len(markers) <= Len(markers')
  BY <1>1, WriterTypes
<1>9. PlayerInv'
  BY <1>1, <1>o, <1>2, <1>3, <1>7, <1>8, PlayerKept
<1> QED BY <1>2, <1>4, <1>5, <1>6, <1>9 DEF IInv, PlayerInv, WriterInv

\* Its record goes; no part of the database had it as successor.
LEMMA KeptBy_CommitRemoval ==
  ASSUME IInv, CommitRemoval
  PROVE  IInv'
<1>w. PICK w \in files : Written(w)
  BY DEF IInv, WriterInv, LastPart
<1>0. LiveTypeOK /\ WriterInv /\ Published /\ Successors /\ MarkersInParts
  BY DEF IInv, WriterInv
<1>1. /\ UNCHANGED <<on_disk, markers, decrypted, mm, rd, snap, fresh>>
      /\ files' = files \ {oldest_part} /\ wpc' = "idle" /\ wpc = "removing"
  BY DEF CommitRemoval, rvars
<1>2. LiveTypeOK'
  BY <1>0, <1>1 DEF LiveTypeOK, Meta, Reader, Snapshot
<1>3. decrypted <= decrypted' /\ Len(markers) <= Len(markers')
  BY <1>1, WriterTypes
<1>4. \A f : KnownPart(f) => KnownPart(f)'
  BY <1>1, <1>3, WriterTypes, KnownKept
<1>g. \A f : Growing(f) <=> Growing(f)'
  BY DEF Growing, Inf
<1>o. /\ oldest_part \in files /\ ~Growing(oldest_part)
      /\ \A g \in files : oldest_part.fileno <= g.fileno
      /\ \A g \in files : g.fileno \in Nat /\ g.fileno <= g.fileno
  BY <1>1, OldestPart, WriterTypes DEF Part
<1>5. LastPart'
  <2>1. w \in files'
    BY <1>w, <1>1, <1>o DEF Written
  <2>2. Written(w)'
    BY <2>1, <1>w, <1>1, <1>4, <1>g DEF Written
  <2> QED BY <2>1, <2>2 DEF LastPart
<1>6. Successors'
  <2> SUFFICES ASSUME NEW f \in files, f # oldest_part, ~Growing(f)
               PROVE  \E g \in files \ {oldest_part} :
                         follows(f, g) /\ g.first = f.last /\ g.time = f.end_time
    BY <1>1, <1>g DEF Successors
  <2>1. PICK g \in files : follows(f, g) /\ g.first = f.last /\ g.time = f.end_time
    BY <1>0 DEF Successors
  <2>2. f.fileno \in Nat /\ oldest_part.fileno \in Nat /\ oldest_part.fileno <= f.fileno
    BY <1>o
  <2>3. g # oldest_part
    BY <2>1, <2>2 DEF follows
  <2> QED BY <2>1, <2>3
<1>7. MarkersInParts' /\ Published'
  BY <1>0, <1>1 DEF MarkersInParts, Published
<1>8. \A f \in Part : Reachable(f) => Reachable(f)'
  BY <1>1 DEF Reachable
<1>9. PlayerInv'
  BY <1>1, <1>o, <1>2, <1>3, <1>4, <1>8, PlayerKept
<1> QED BY <1>2, <1>5, <1>6, <1>7, <1>9 DEF IInv, PlayerInv, WriterInv

-----------------------------------------------------------------------------
(* The player.                                                             *)

\* A failing assertion ends both threads and leaves nothing mapped.
LEMMA KeptBy_process_aborts ==
  ASSUME IInv, process_aborts, UNCHANGED last_words, mm'.file = mm.file,
         mm'.safe = mm.safe, mm'.marker = mm.marker,
         mm' \in Meta
  PROVE  IInv'
<1>0. LiveTypeOK
  BY DEF IInv
<1>1. /\ UNCHANGED <<files, on_disk, markers, decrypted, fresh>> /\ wpc' = "aborted"
      /\ snap' = NoSnap /\ rd' = [NoClient EXCEPT !.pc = "aborted"]
  BY DEF process_aborts, last_words
<1>2. /\ rd'.pc = "aborted" /\ rd'.mapped = FALSE /\ rd'.file.fileno = 0
  BY <1>1 DEF NoClient, FirstPart
<1>3. FirstPart \in Part
  BY InfType DEF FirstPart, Part
<1>4. LiveTypeOK'
  <2>1. snap' \in Snapshot
    BY <1>1 DEF NoSnap, Snapshot
  <2>2. rd' \in Reader
    BY <1>1, <1>3 DEF NoClient, Reader, Seen
  <2> QED BY <2>1, <2>2, <1>0, <1>1 DEF LiveTypeOK, Meta, Reader, Snapshot
<1>5. WriterInv'
  BY <1>1, WriterSame
<1>6. PlayerInv'
  <2>1. \A g \in files' : 0 <= g.fileno
    BY <1>1, WriterTypes DEF Part
  <2> QED BY <1>2, <2>1 DEF PlayerInv, SnapInv, opening, MappedInv, ReadsWritten
<1> QED BY <1>4, <1>5, <1>6 DEF IInv, PlayerInv

\* A step of the player that neither opens a part nor looks for one.
LEMMA KeptBy_PlayerStep ==
  ASSUME IInv, UNCHANGED wvars, mm'.file = mm.file, mm'.safe = mm.safe,
         mm'.marker = mm.marker, LiveTypeOK', ~opening',
         rd'.file = rd.file, rd'.mapped = rd.mapped,
         rd'.pc \in {"idle", "jumping", "wait_pmt", "reading", "part_end", "next"} => rd.mapped,
         rd.mapped => ReadsWritten'
  PROVE  IInv'
<1>1. UNCHANGED <<files, on_disk, markers, decrypted, fresh, wpc>>
  BY DEF wvars
<1>2. WriterInv' /\ \A f : KnownPart(f) => KnownPart(f)'
  BY <1>1, WriterSame
<1>g. \A f : Growing(f) <=> Growing(f)'
  BY DEF Growing, Inf
<1>3. MappedInv'
  BY <1>1, <1>2, <1>g DEF IInv, MappedInv
<1>4. SnapInv' /\ ReadsWritten'
  BY DEF SnapInv, ReadsWritten
<1> QED BY <1>2, <1>3, <1>4 DEF IInv

\* A new client looks for the first part.
LEMMA KeptBy_Open ==
  ASSUME IInv, Open
  PROVE  IInv'
<1>0. LiveTypeOK
  BY DEF IInv
<1>1. /\ UNCHANGED <<files, on_disk, markers, decrypted, fresh, wpc, mm>>
      /\ rd' = [NoClient EXCEPT !.pc = "opening"] /\ snap' = snapshot(0)
  BY DEF Open, wvars
<1>2. rd'.pc = "opening" /\ rd'.mapped = FALSE /\ rd'.file.fileno = 0
  BY <1>1 DEF NoClient, FirstPart
<1>3. FirstPart \in Part
  BY InfType DEF FirstPart, Part
<1>4. LiveTypeOK'
  <2>1. snap' \in Snapshot
    BY <1>0, <1>1 DEF snapshot, LiveTypeOK, Meta, Reader, Snapshot
  <2>2. rd' \in Reader
    BY <1>1, <1>3 DEF NoClient, Reader, Seen
  <2> QED BY <2>1, <2>2, <1>0, <1>1 DEF LiveTypeOK, Meta, Reader, Snapshot
<1>5. WriterInv' /\ \A f : KnownPart(f) => KnownPart(f)'
  BY <1>1, WriterSame
<1>6. 0 \in Nat /\ 0 < Inf /\ \A g \in files : 0 <= g.fileno
  BY InfType, WriterTypes DEF Part
<1>7. SnapInv'
  BY <1>1, <1>2, <1>5, <1>6, SnapshotMade
<1>8. MappedInv' /\ ReadsWritten'
  BY <1>1, <1>2, <1>6 DEF MappedInv, ReadsWritten
<1> QED BY <1>4, <1>5, <1>7, <1>8 DEF IInv

\* A jump looks for a time, and keeps the part that is mapped.
LEMMA KeptBy_Jump ==
  ASSUME IInv, NEW t \in 0..(Len(markers) + 1), Jump(t)
  PROVE  IInv'
<1>0. LiveTypeOK /\ MappedInv /\ ReadsWritten
  BY DEF IInv
<1>1. /\ UNCHANGED <<files, on_disk, markers, decrypted, fresh, wpc, mm>>
      /\ rd' = [rd EXCEPT !.pc = "jumping"] /\ snap' = snapshot(t) /\ rd.pc = "idle"
  BY DEF Jump, wvars
<1>2. /\ rd'.pc = "jumping" /\ rd'.mapped = rd.mapped /\ rd'.file = rd.file
      /\ rd'.pos = rd.pos /\ rd'.readable = rd.readable
  BY <1>0, <1>1 DEF LiveTypeOK, Meta, Reader, Snapshot
<1>3. t \in Nat /\ t < Inf
  BY WriterTypes, InfType
<1>4. LiveTypeOK'
  <2>1. snap' \in Snapshot
    BY <1>0, <1>1, <1>3 DEF snapshot, LiveTypeOK, Meta, Reader, Snapshot
  <2> QED BY <2>1, <1>0, <1>1 DEF LiveTypeOK, Meta, Reader, Snapshot
<1>5. WriterInv' /\ \A f : KnownPart(f) => KnownPart(f)'
  BY <1>1, WriterSame
<1>6. SnapInv'
  BY <1>0, <1>1, <1>2, <1>3, <1>5, SnapshotMade DEF MappedInv
<1>g. \A f : Growing(f) <=> Growing(f)'
  BY DEF Growing, Inf
<1>7. MappedInv' /\ ReadsWritten'
  BY <1>0, <1>1, <1>2, <1>5, <1>g DEF MappedInv, ReadsWritten
<1> QED BY <1>4, <1>5, <1>6, <1>7 DEF IInv

\* A part is mapped, up to what is known to be in it.
LEMMA KeptBy_OpenPart ==
  ASSUME IInv, OpenPart
  PROVE  IInv'
<1>0. LiveTypeOK
  BY DEF IInv
<1>1. /\ UNCHANGED <<files, on_disk, markers, decrypted, fresh, wpc, mm>>
      /\ snap' = NoSnap /\ opening /\ found
      /\ rd' = [rd EXCEPT !.pc = IF rd.pc = "next" THEN "reading" ELSE "idle",
                      !.file = opened_part, !.mapped = TRUE,
                      !.pos = start_packet(opened_part),
                      !.readable = last_packet(opened_part)]
      /\ start_packet(opened_part) <= last_packet(opened_part)
  BY DEF OpenPart, wvars
<1>2. /\ KnownPart(opened_part)
      /\ start_packet(opened_part) \in Nat /\ last_packet(opened_part) \in Nat
      /\ opened_part.first <= start_packet(opened_part)
      /\ last_packet(opened_part) <= decrypted
      /\ \A f \in files : f.fileno = opened_part.fileno => last_packet(opened_part) <= f.last
  BY <1>1, OpenedPart
<1>3. PICK p, a, z : p = opened_part /\ a = start_packet(opened_part) /\ z = last_packet(opened_part)
  OBVIOUS
<1>4. /\ KnownPart(p) /\ p \in Part /\ a \in Nat /\ z \in Nat /\ p.first <= a /\ a <= z /\ z <= decrypted
      /\ \A g \in files : Growing(g) => p.fileno <= g.fileno
      /\ \A f \in files : f.fileno = p.fileno => z <= f.last
  BY <1>1, <1>2, <1>3 DEF KnownPart
<1>5. rd' = [rd EXCEPT !.pc = IF rd.pc = "next" THEN "reading" ELSE "idle",
                      !.file = p, !.mapped = TRUE, !.pos = a, !.readable = z]
  BY <1>1, <1>3
<1>6. /\ rd'.pc \in {"reading", "idle"} /\ rd'.file = p /\ rd'.mapped /\ rd'.pos = a
      /\ rd'.readable = z
  BY <1>0, <1>5 DEF LiveTypeOK, Meta, Reader, Snapshot
<1>7. LiveTypeOK'
  <2>1. snap' \in Snapshot
    BY <1>1 DEF NoSnap, Snapshot
  <2>2. rd' \in Reader
    BY <1>0, <1>4, <1>5 DEF LiveTypeOK, Meta, Reader, Snapshot
  <2> QED BY <2>1, <2>2, <1>0, <1>1 DEF LiveTypeOK, Meta, Reader, Snapshot
<1>8. WriterInv' /\ \A f : KnownPart(f) => KnownPart(f)'
  BY <1>1, WriterSame
<1>9. SnapInv'
  BY <1>6 DEF SnapInv, opening
<1>g. \A f : Growing(f) <=> Growing(f)'
  BY DEF Growing, Inf
<1>10. MappedInv' /\ ReadsWritten'
  BY <1>1, <1>4, <1>6, <1>8, <1>g DEF MappedInv, ReadsWritten
<1> QED BY <1>7, <1>8, <1>9, <1>10 DEF IInv

\* No part is found.
LEMMA KeptBy_OpenPartNotFound ==
  ASSUME IInv, OpenPartNotFound
  PROVE  IInv'
<1>0. LiveTypeOK
  BY DEF IInv
<1>1. CASE rd.pc = "jumping"
  BY <1>0, <1>1, KeptBy_process_aborts DEF OpenPartNotFound, LiveTypeOK, Meta, Reader, Snapshot
<1>2. CASE rd.pc # "jumping"
  <2>1. /\ UNCHANGED <<files, on_disk, markers, decrypted, fresh, wpc, mm>>
        /\ snap' = NoSnap /\ rd' = [rd EXCEPT !.pc = "ended", !.mapped = FALSE]
    BY <1>2 DEF OpenPartNotFound, last_words
  <2>2. rd'.pc = "ended" /\ rd'.mapped = FALSE /\ rd'.file = rd.file
    BY <1>0, <2>1 DEF LiveTypeOK, Meta, Reader, Snapshot
  <2>3. LiveTypeOK'
    <3>1. snap' \in Snapshot
      BY <2>1 DEF NoSnap, Snapshot
    <3> QED BY <3>1, <1>0, <2>1 DEF LiveTypeOK, Meta, Reader, Snapshot
  <2>4. WriterInv' /\ \A f : KnownPart(f) => KnownPart(f)'
    BY <2>1, WriterSame
  <2>g. \A f : Growing(f) <=> Growing(f)'
    BY DEF Growing, Inf
  <2>5. PlayerInv'
    BY <2>1, <2>2, <2>g DEF IInv, PlayerInv, SnapInv, opening, MappedInv, ReadsWritten
  <2> QED BY <2>3, <2>4, <2>5 DEF IInv, PlayerInv
<1> QED BY <1>1, <1>2

\* Packets are read up to where the part is known to be readable.
LEMMA KeptBy_Copy ==
  ASSUME IInv, NEW n \in 1..MaxChunk, Copy(n)
  PROVE  IInv'
<1>0. LiveTypeOK /\ MappedInv /\ ReadsWritten
  BY DEF IInv
<1>1. UNCHANGED wvars /\ UNCHANGED <<mm, snap>> /\ UNCHANGED <<files, decrypted>> /\ rd.pc = "reading"
  BY DEF Copy, rvars, wvars
<1>2. CASE rd.must_exit
  <2>1. rd' = [rd EXCEPT !.pc = "ended", !.blocked = FALSE]
    BY <1>2 DEF Copy, end_read
  <2>2. /\ rd'.pc = "ended" /\ rd'.mapped = rd.mapped /\ rd'.file = rd.file
        /\ rd'.pos = rd.pos /\ rd'.readable = rd.readable
    BY <1>0, <2>1 DEF LiveTypeOK, Meta, Reader, Snapshot
  <2>3. LiveTypeOK'
    BY <1>0, <1>1, <2>1 DEF LiveTypeOK, Meta, Reader, Snapshot, wvars
  <2>4. ReadsWritten'
    BY <1>0, <1>1, <2>2 DEF ReadsWritten
  <2> QED BY <1>1, <2>2, <2>3, <2>4, KeptBy_PlayerStep DEF opening
<1>3. CASE ~rd.must_exit
  <2>1. rd' = [rd EXCEPT !.pos = @ + n, !.pc = "idle"] /\ rd.pos + n <= rd.readable
    BY <1>3 DEF Copy
  <2>2. /\ rd'.pc = "idle" /\ rd'.mapped = rd.mapped /\ rd'.file = rd.file
        /\ rd'.pos = rd.pos + n /\ rd'.readable = rd.readable
    BY <1>0, <2>1 DEF LiveTypeOK, Meta, Reader, Snapshot
  <2>3. n \in Nat /\ rd.pos \in Nat /\ rd.file.first \in Nat
    BY <1>0, LiveBufferAssumption DEF LiveTypeOK, Meta, Reader, Snapshot, Part
  <2>4. LiveTypeOK'
    <3>1. rd \in Reader /\ rd.pos + n \in Nat
      BY <1>0, <2>3 DEF LiveTypeOK
    <3>2. rd' \in Reader
      BY <2>1, <3>1 DEF Reader
    <3> QED BY <1>0, <1>1, <3>2 DEF LiveTypeOK, wvars
  <2>5. ReadsWritten'
    <3>1. rd.file.first <= rd.pos => rd.file.first <= rd.pos + n
      BY <2>3
    <3> QED BY <3>1, <1>0, <1>1, <2>1, <2>2 DEF ReadsWritten
  <2> QED BY <1>0, <1>1, <2>2, <2>4, <2>5, KeptBy_PlayerStep DEF opening, MappedInv
<1> QED BY <1>2, <1>3

\* ReadData, Block, an abort and what other players do leave the part and the
\* positions alone.
LEMMA KeptBy_PlayerControl ==
  ASSUME IInv, ReadData \/ Block \/ ForceAbort \/ OtherPlayerAborts \/ OtherPlayerWakes
  PROVE  IInv'
<1>0. LiveTypeOK /\ WriterInv /\ SnapInv /\ MappedInv /\ ReadsWritten
  BY DEF IInv
<1>1. /\ UNCHANGED <<files, on_disk, markers, decrypted, fresh, wpc, snap>>
      /\ mm'.file = mm.file /\ mm'.safe = mm.safe /\ mm'.marker = mm.marker
      /\ mm' \in Meta
  <2>1. CASE ReadData \/ Block
    BY <2>1, <1>0 DEF ReadData, Block, rvars, wvars, LiveTypeOK, Meta, Reader, Snapshot
  <2>2. CASE ForceAbort \/ OtherPlayerAborts \/ OtherPlayerWakes
    BY <2>2, <1>0 DEF ForceAbort, OtherPlayerAborts, OtherPlayerWakes, rvars, wvars, LiveTypeOK, Meta, Reader, Snapshot
  <2> QED BY <2>1, <2>2
<1>2. /\ rd' \in Reader
      /\ rd'.file = rd.file /\ rd'.mapped = rd.mapped /\ rd'.pos = rd.pos
      /\ rd'.readable = rd.readable
      /\ rd'.pc = rd.pc \/ (rd.pc = "idle" /\ rd'.pc \in {"ended", "reading", "wait_pmt"})
  <2>1. CASE ReadData
    <3>0. rd \in Reader /\ rd.pc = "idle"
      BY <2>1, <1>0 DEF LiveTypeOK, ReadData
    <3>1. CASE rd.must_exit
      <4>1. rd' = [rd EXCEPT !.pc = "ended", !.blocked = FALSE]
        BY <2>1, <3>1 DEF ReadData, end_read
      <4> QED BY <3>0, <4>1 DEF Reader
    <3>2. CASE ~rd.must_exit
      <4>1. PICK pc \in {"reading", "wait_pmt"} : rd' = [rd EXCEPT !.pc = pc]
        BY <2>1, <3>2 DEF ReadData
      <4> QED BY <3>0, <4>1 DEF Reader
    <3> QED BY <3>1, <3>2
  <2>2. CASE Block
    BY <2>2, <1>0 DEF Block, LiveTypeOK, Meta, Reader, Snapshot
  <2>3. CASE ForceAbort \/ OtherPlayerAborts \/ OtherPlayerWakes
    BY <2>3, <1>0 DEF ForceAbort, OtherPlayerAborts, OtherPlayerWakes, notify_all, LiveTypeOK,
                      Meta, Reader, Snapshot
  <2> QED BY <2>1, <2>2, <2>3
<1>3. LiveTypeOK'
  BY <1>0, <1>1, <1>2 DEF LiveTypeOK, Meta, Reader, Snapshot
<1>4. WriterInv' /\ \A f : KnownPart(f) => KnownPart(f)'
  BY <1>1, WriterSame
<1>g. \A f : Growing(f) <=> Growing(f)'
  BY DEF Growing, Inf
<1>5. SnapInv'
  <2>1. \A f : Reachable(f) <=> Reachable(f)'
    BY <1>1 DEF Reachable
  <2>2. opening' => opening
    BY <1>2 DEF opening
  <2> QED BY <2>1, <2>2, <1>g, <1>0, <1>1, <1>2, <1>4 DEF SnapInv, Inf
<1>6. MappedInv'
  BY <1>0, <1>1, <1>2, <1>4, <1>g DEF MappedInv
<1>7. ReadsWritten'
  BY <1>0, <1>1, <1>2 DEF ReadsWritten
<1> QED BY <1>3, <1>4, <1>5, <1>6, <1>7 DEF IInv

\* After the wait, more of the part being written may be read, and only of it.
LEMMA KeptBy_WaitForUpdate ==
  ASSUME IInv, WaitForUpdate
  PROVE  IInv'
<1>0. LiveTypeOK /\ WriterInv /\ MappedInv /\ ReadsWritten
  BY DEF IInv
<1>1. /\ UNCHANGED <<files, on_disk, markers, decrypted, fresh>>
      /\ mm'.file = mm.file /\ mm'.safe = mm.safe /\ mm'.marker = mm.marker
      /\ mm' \in Meta
      /\ rd.pc \in {"wait_pmt", "reading"}
  BY <1>0 DEF WaitForUpdate, last_words, LiveTypeOK, Meta, Reader, Snapshot, waiting
<1>2. CASE process_aborts
  BY <1>1, <1>2, KeptBy_process_aborts DEF WaitForUpdate
<1>3. CASE /\ IF rd.must_exit THEN end_read ELSE rd' = after_update
           /\ UNCHANGED <<wpc, snap>>
  <2>m. rd.mapped /\ mm.safe \in Nat /\ rd.readable \in Nat
    BY <1>0, <1>1 DEF MappedInv, LiveTypeOK, Meta, Reader, Snapshot
  <2>x. seen_now \in Seen
    BY <1>0 DEF seen_now, LiveTypeOK, Meta, Seen
  <2>y. Max({rd.readable, mm.safe}) \in Nat
    BY <2>m, MaxOfTwo
  <2>1. /\ rd' \in Reader
        /\ rd'.file = rd.file /\ rd'.mapped = rd.mapped /\ rd'.pos = rd.pos
        /\ \/ rd'.readable = rd.readable
           \/ rd'.readable = Max({rd.readable, mm.safe}) /\ rd.file.fileno = mm.file.fileno
        /\ rd'.pc \in {"ended", "reading", "part_end"}
    <3>1. CASE rd.must_exit
      BY <3>1, <1>3, <1>0 DEF end_read, LiveTypeOK, Meta, Reader, Snapshot
    <3>2. CASE ~rd.must_exit
      <4>0. rd \in Reader
        BY <1>0 DEF LiveTypeOK
      <4>1. CASE rd.pc = "wait_pmt"
        <5>1. rd' = [rd EXCEPT !.pc = "reading", !.seen = seen_now]
          BY <4>1, <3>2, <1>3 DEF after_update
        <5> QED BY <4>0, <5>1, <2>x DEF Reader
      <4>2. CASE rd.pc = "reading" /\ rd.file.fileno = mm.file.fileno
        <5>1. rd' = [rd EXCEPT !.seen = seen_now, !.readable = Max({rd.readable, mm.safe})]
          BY <4>2, <3>2, <1>3 DEF after_update
        <5> QED BY <4>0, <4>2, <5>1, <2>x, <2>y DEF Reader
      <4>3. CASE rd.pc = "reading" /\ rd.file.fileno # mm.file.fileno
        <5>1. rd' = [rd EXCEPT !.seen = seen_now, !.pc = "part_end"]
          BY <4>3, <3>2, <1>3 DEF after_update
        <5> QED BY <4>0, <5>1, <2>x DEF Reader
      <4> QED BY <4>1, <4>2, <4>3, <1>1
    <3> QED BY <3>1, <3>2
  <2>2. LiveTypeOK'
    BY <1>0, <1>1, <1>3, <2>1 DEF LiveTypeOK, Meta, Reader, Snapshot
  <2>3. ReadsWritten'
    <3>0. /\ rd.file.first <= rd.pos /\ rd.pos <= rd.readable /\ rd.readable <= decrypted
          /\ \A f \in files : f.fileno = rd.file.fileno => rd.readable <= f.last
          /\ mm.safe <= decrypted /\ rd.pos \in Nat /\ decrypted \in Nat
      BY <1>0, <2>m, WriterTypes DEF ReadsWritten, WriterInv, Published, LiveTypeOK, Meta, Reader, Snapshot
    <3>1. CASE rd'.readable = rd.readable
      BY <3>0, <3>1, <1>1, <2>1 DEF ReadsWritten
    <3>2. CASE rd'.readable = Max({rd.readable, mm.safe}) /\ rd.file.fileno = mm.file.fileno
      <4>1. /\ rd'.readable = IF rd.readable >= mm.safe THEN rd.readable ELSE mm.safe
        BY <3>2, <2>m, MaxOfTwo
      <4>2. rd.pos <= rd'.readable /\ rd'.readable <= decrypted /\ rd'.readable \in Nat
        BY <4>1, <3>0, <2>m
      <4>3. \A f \in files : f.fileno = rd.file.fileno => f.last = Inf
        <5>1. PICK w \in files : Written(w)
          BY DEF IInv, WriterInv, LastPart
        <5>2. w.fileno \in Nat /\ mm.file.fileno \in Nat /\ w.fileno <= mm.file.fileno
          BY <5>1, WriterTypes, WrittenTypes
        <5>3. \A f \in files : f = w \/ (f.fileno < w.fileno /\ f.fileno \in Nat)
          BY <5>1, WriterTypes DEF Written, Part
        <5>4. w.last = Inf
          BY <5>1 DEF Written, Growing
        <5> QED BY <5>2, <5>3, <5>4, <3>2
      <4>4. rd'.readable <= Inf
        BY <4>2, WriterTypes, InfType
      <4> QED BY <4>2, <4>3, <4>4, <3>0, <1>1, <2>1 DEF ReadsWritten
    <3> QED BY <3>1, <3>2, <2>1
  <2>4. UNCHANGED wvars
    BY <1>1, <1>3 DEF wvars, WaitForUpdate, last_words
  <2> QED BY <1>1, <2>1, <2>2, <2>3, <2>4, <2>m, KeptBy_PlayerStep DEF opening
<1> QED BY <1>2, <1>3 DEF WaitForUpdate

\* The end of a part is read again, and the one after it is looked for.
LEMMA KeptBy_PartEnd ==
  ASSUME IInv, PartEnd
  PROVE  IInv'
<1>0. LiveTypeOK /\ WriterInv /\ MappedInv /\ ReadsWritten
  BY DEF IInv, WriterInv
<1>1. UNCHANGED <<files, on_disk, markers, decrypted, fresh, mm>> /\ rd.pc = "part_end"
  BY DEF PartEnd, last_words
<1>2. CASE process_aborts
  BY <1>0, <1>1, <1>2, KeptBy_process_aborts DEF PartEnd, LiveTypeOK, Meta, Reader, Snapshot
<1>3. ASSUME NEW f \in current_record, rd' = [rd EXCEPT !.file = f, !.pc = "next"],
             snap' = snapshot(f.end_time), wpc' = wpc
      PROVE  IInv'
  <2>1. rd.mapped /\ KnownPart(rd.file)
    BY <1>0, <1>1 DEF MappedInv
  <2>2. KnownPart(f) /\ f.end_time # Inf /\ f.fileno = rd.file.fileno /\ f.first = rd.file.first
    <3>1. CASE rd.file.end_time # Inf
      BY <3>1, <1>3, <2>1 DEF current_record
    <3>2. CASE rd.file.end_time = Inf
      <4>1. f \in files /\ f.fileno = rd.file.fileno /\ f.end_time # Inf
        BY <3>2, <1>3 DEF current_record
      <4>2. KnownPart(f)
        BY <4>1, <1>0 DEF WriterInv, LastPart, Written
      <4> QED BY <4>1, <4>2, <2>1 DEF KnownPart
    <3> QED BY <3>1, <3>2
  <2>3. f \in Part /\ f.end_time \in Nat /\ f.end_time < Inf
        /\ \A g \in files : Growing(g) => f.fileno <= g.fileno
    <3>1. /\ f \in Part /\ Ended(f)
          /\ \A g \in files : Growing(g) => f.fileno <= g.fileno
      BY <2>2 DEF KnownPart, Growing
    <3>2. f.end_time \in Nat
      BY <3>1 DEF Part
    <3> QED BY <3>1, <3>2, WriterTypes, InfType DEF Ended
  <2>4. /\ rd'.file = f /\ rd'.mapped = rd.mapped /\ rd'.pos = rd.pos
        /\ rd'.readable = rd.readable /\ rd'.pc = "next"
    BY <1>0, <1>3 DEF LiveTypeOK, Meta, Reader, Snapshot
  <2>5. LiveTypeOK'
    <3>1. snap' \in Snapshot
      BY <1>0, <1>3, <2>3 DEF snapshot, LiveTypeOK, Meta, Reader, Snapshot
    <3>2. rd' \in Reader
      BY <1>0, <1>3, <2>3 DEF LiveTypeOK, Meta, Reader, Snapshot
    <3> QED BY <3>1, <3>2, <1>0, <1>1, <1>3 DEF LiveTypeOK, Meta, Reader, Snapshot
  <2>6. WriterInv' /\ \A g : KnownPart(g) => KnownPart(g)'
    BY <1>1, <1>3, WriterSame
  <2>7. SnapInv'
    BY <1>1, <1>3, <2>2, <2>3, <2>4, <2>6, SnapshotMade
  <2>g. \A g : Growing(g) <=> Growing(g)'
    BY DEF Growing, Inf
  <2>8. MappedInv'
    BY <1>1, <2>1, <2>2, <2>3, <2>4, <2>6, <2>g DEF MappedInv
  <2>9. ReadsWritten'
    BY <1>0, <1>1, <2>1, <2>2, <2>4 DEF ReadsWritten
  <2> QED BY <2>5, <2>6, <2>7, <2>8, <2>9 DEF IInv
<1> QED BY <1>2, <1>3 DEF PartEnd

\* The client is gone.
LEMMA KeptBy_Close ==
  ASSUME IInv, Close
  PROVE  IInv'
<1>0. LiveTypeOK
  BY DEF IInv
<1>1. /\ UNCHANGED <<files, on_disk, markers, decrypted, fresh, wpc, mm, snap>> /\ rd' = NoClient
  BY DEF Close, wvars, rvars
<1>2. rd'.pc = "closed" /\ rd'.mapped = FALSE /\ rd'.file = FirstPart /\ rd'.file.fileno = 0
  BY <1>1 DEF NoClient, FirstPart
<1>3. FirstPart \in Part
  BY InfType DEF FirstPart, Part
<1>4. LiveTypeOK'
  <2>1. rd' \in Reader
    BY <1>1, <1>3 DEF NoClient, Reader, Seen
  <2> QED BY <2>1, <1>0, <1>1 DEF LiveTypeOK, Meta, Reader, Snapshot
<1>5. WriterInv'
  BY <1>1, WriterSame
<1>6. PlayerInv'
  <2>1. \A g \in files' : 0 <= g.fileno
    BY <1>1, WriterTypes DEF Part
  <2> QED BY <1>2, <2>1 DEF PlayerInv, SnapInv, opening, MappedInv, ReadsWritten
<1> QED BY <1>4, <1>5, <1>6 DEF IInv, PlayerInv

\* Recordings are only counted, and nothing else changes when nothing happens.
LEMMA KeptBy_Nothing ==
  ASSUME IInv, StartRecording \/ UNCHANGED vars
  PROVE  IInv'
<1>1. UNCHANGED <<files, on_disk, markers, decrypted, fresh, wpc, mm, rd, snap>>
  BY DEF StartRecording, vars, rvars
<1>2. LiveTypeOK'
  BY <1>1 DEF IInv, LiveTypeOK, Meta, Reader, Snapshot
<1>3. WriterInv' /\ \A f : KnownPart(f) => KnownPart(f)'
  BY <1>1, WriterSame
<1>4. decrypted <= decrypted' /\ Len(markers) <= Len(markers')
  BY <1>1, WriterTypes
<1>5. PlayerInv'
  BY <1>1, <1>2, <1>3, <1>4, PartsSame, PlayerKept
<1> QED BY <1>2, <1>3, <1>5 DEF IInv, PlayerInv

-----------------------------------------------------------------------------
(* The theorems.                                                           *)

\* The first part is all there is at first.
LEMMA InitIInv == Init => IInv
<1> SUFFICES ASSUME Init PROVE IInv
  OBVIOUS
<1>1. FirstPart \in Part /\ FirstPart.fileno = 0 /\ FirstPart.time = 0 /\ FirstPart.first = 0
      /\ FirstPart.end_time = Inf /\ FirstPart.last = Inf
  BY InfType DEF FirstPart, Part
<1>2. /\ files = {FirstPart} /\ on_disk = {0} /\ markers = <<>> /\ decrypted = 0 /\ wpc = "idle"
      /\ mm.file = FirstPart /\ mm.safe = 0 /\ mm.marker = 0 /\ Len(markers) = 0
      /\ rd.pc = "closed" /\ rd.mapped = FALSE /\ rd.file = FirstPart
  BY DEF Init, NoClient
<1>3. LiveTypeOK
  <2>1. rd \in Reader
    BY <1>1 DEF Init, NoClient, Reader, Seen
  <2>2. mm \in Meta
    BY <1>1 DEF Init, Meta
  <2>3. snap \in Snapshot
    BY DEF Init, NoSnap, Snapshot
  <2>4. decrypted \in 0..MaxPackets /\ Len(markers) <= decrypted
    BY <1>2, InfType
  <2>5. files \in SUBSET Part /\ on_disk \in SUBSET Nat
    BY <1>1, <1>2
  <2>6. markers \in Seq(Marker)
    BY <1>2
  <2>7. wpc = "idle" /\ fresh \in BOOLEAN
    BY DEF Init
  <2> QED BY <2>1, <2>2, <2>3, <2>4, <2>5, <2>6, <2>7 DEF LiveTypeOK
<1>4. Growing(FirstPart) /\ KnownPart(FirstPart)
  BY <1>1, <1>2 DEF KnownPart, Growing
<1>5. LastPart /\ Successors
  BY <1>1, <1>2, <1>4 DEF LastPart, Written, Successors
<1>6. MarkersInParts /\ Published
  BY <1>2 DEF MarkersInParts, Published
<1>7. SnapInv /\ MappedInv /\ ReadsWritten
  BY <1>1, <1>2 DEF SnapInv, opening, MappedInv, ReadsWritten
<1> QED BY <1>3, <1>5, <1>6, <1>7 DEF IInv, WriterInv

\* Every step of the service thread and of the player keeps the invariant.
LEMMA NextIInv == IInv /\ [Next]_vars => IInv'
<1> SUFFICES ASSUME IInv, [Next]_vars PROVE IInv'
  OBVIOUS
<1>1. CASE \E n \in 1..MaxChunk : ProcessChannelData(n)
  BY <1>1, KeptBy_ProcessChannelData
<1>2. CASE Publish
  BY <1>2, KeptBy_Publish
<1>3. CASE StartNewFile
  BY <1>3, KeptBy_StartNewFile
<1>4. CASE StartRecording
  BY <1>4, KeptBy_Nothing
<1>5. CASE StopRecording
  BY <1>5, KeptBy_StopRecording
<1>6. CASE NewFileAborts \/ OpenPartFails
  <2>1. process_aborts /\ UNCHANGED last_words /\ UNCHANGED mm
    BY <1>6 DEF NewFileAborts, OpenPartFails
  <2> QED BY <2>1, KeptBy_process_aborts DEF IInv, LiveTypeOK, Meta, Reader, Snapshot
<1>7. CASE RemoveFile
  BY <1>7, KeptBy_RemoveFile
<1>8. CASE CommitRemoval
  BY <1>8, KeptBy_CommitRemoval
<1>9. CASE Open
  BY <1>9, KeptBy_Open
<1>10. CASE \E t \in 0..(Len(markers) + 1) : Jump(t)
  BY <1>10, KeptBy_Jump
<1>11. CASE OpenPart
  BY <1>11, KeptBy_OpenPart
<1>12. CASE OpenPartNotFound
  BY <1>12, KeptBy_OpenPartNotFound
<1>13. CASE \E n \in 1..MaxChunk : Copy(n)
  BY <1>13, KeptBy_Copy
<1>14. CASE ReadData \/ Block \/ ForceAbort \/ OtherPlayerAborts \/ OtherPlayerWakes
  BY <1>14, KeptBy_PlayerControl
<1>15. CASE WaitForUpdate
  BY <1>15, KeptBy_WaitForUpdate
<1>16. CASE PartEnd
  BY <1>16, KeptBy_PartEnd
<1>17. CASE Close
  BY <1>17, KeptBy_Close
<1>18. CASE UNCHANGED vars
  BY <1>18, KeptBy_Nothing
<1> QED BY <1>1, <1>2, <1>3, <1>4, <1>5, <1>6, <1>7, <1>8, <1>9, <1>10, <1>11, <1>12,
           <1>13, <1>14, <1>15, <1>16, <1>17, <1>18 DEF Next

\* The invariant, for every bound on packets, parts, recordings, clients and jumps.
THEOREM LiveInvariant == Spec => []IInv
BY InitIInv, NextIInv, PTL DEF Spec

\* ReadsWritten: the player never reads packets that are not yet decrypted, nor
\* beyond the end of its part, whatever it combines of an old snapshot and of the
\* present meta_marker (open_, read_data_from_current_file).
THEOREM LiveReadsWritten == Spec => []ReadsWritten
<1>1. IInv => ReadsWritten
  BY DEF IInv
<1> QED BY <1>1, LiveInvariant, PTL

\* PartsPartition: the parts in the database follow each other without gap or
\* overlap, in packets and in time, and hold the markers saved while they were
\* written (next_data_file, delete_old_data).
THEOREM LivePartsPartition == Spec => []PartsPartition
<1>1. IInv => PartsPartition
  <2> SUFFICES ASSUME IInv PROVE PartsPartition
    OBVIOUS
  <2>0. Successors /\ MarkersInParts
    BY DEF IInv, WriterInv
  <2>w. PICK w \in files : Written(w)
    BY DEF IInv, WriterInv, LastPart
  <2>1. \A f \in files : Growing(f) \/ (Ended(f) /\ f.last # Inf)
    <3>1. \A f \in files : f.last \in Nat /\ (Growing(f) \/ Ended(f))
      BY <2>w, WriterTypes DEF Written, KnownPart, Part
    <3> QED BY <3>1, WriterTypes, InfType DEF Ended
  <2>2. {g \in files : g.last = Inf} = {w} /\ mm.file \in {w, [w EXCEPT !.fileno = @ + 1]}
    BY <2>w, <2>1 DEF Written, Growing
  <2>3. \A f \in files : f.last # Inf =>
       /\ f.time < f.end_time /\ f.first <= f.last
       /\ \E g \in files : follows(f, g) /\ g.first = f.last /\ g.time = f.end_time
    BY <2>0, <2>1 DEF Ended, Growing, Successors
  <2> QED BY <2>0, <2>2, <2>3 DEF PartsPartition, MarkersInParts
<1> QED BY <1>1, LiveInvariant, PTL

\* NewsNotMissed: a player that sleeps has nothing new to read, or the service
\* thread has parsed and is about to notify it (wait_for_update, notify_all).
THEOREM LiveNewsNotMissed == Spec => []NewsNotMissed
<1>1. Init => NewsNotMissed
  BY DEF Init, NoClient, NewsNotMissed
<1>2. IInv /\ NewsNotMissed /\ [Next]_vars => NewsNotMissed'
  <2> SUFFICES ASSUME IInv, NewsNotMissed, [Next]_vars, rd'.blocked, news'
               PROVE  mm'.safe < decrypted'
    BY DEF NewsNotMissed
  <2>0. mm \in Meta /\ rd \in Reader
    BY DEF IInv, LiveTypeOK
  <2>n. decrypted \in Nat /\ mm.safe \in Nat /\ mm.safe <= decrypted /\ mm \in Meta
    BY WriterTypes, <2>0 DEF IInv, WriterInv, Published
  <2>1. CASE Publish \/ StartNewFile \/ StopRecording
    <3>1. CASE rd' = [rd EXCEPT !.blocked = FALSE]
      BY <3>1, <2>0 DEF Reader
    <3>2. CASE \E end \in {decrypted, mm.safe} : no_new_file(end)
      <4>1. /\ rd' = rd /\ decrypted' = decrypted /\ mm'.safe = mm.safe
            /\ mm'.pmt = mm.pmt /\ mm'.interrupted = mm.interrupted
        BY <3>2, <2>0 DEF no_new_file, Meta
      <4> QED BY <4>1 DEF NewsNotMissed, news
    <3> QED BY <2>1, <3>1, <3>2 DEF Publish, StartNewFile, StopRecording, next_data_file, notify_all
  <2>2. CASE \E n \in 1..MaxChunk : ProcessChannelData(n)
    <3>1. PICK n \in 1..MaxChunk : ProcessChannelData(n)
      BY <2>2
    <3>2. mm'.safe = mm.safe /\ decrypted' = decrypted + n /\ n \in Nat /\ n > 0
      BY <3>1, <2>0, LiveBufferAssumption DEF ProcessChannelData, Meta
    <3> QED BY <3>2, <2>n
  <2>3. CASE StartRecording \/ RemoveFile \/ CommitRemoval \/ UNCHANGED vars
    <3>1. rd' = rd /\ mm' = mm /\ decrypted' = decrypted
      BY <2>3 DEF StartRecording, RemoveFile, CommitRemoval, vars
    <3> QED BY <3>1 DEF NewsNotMissed, news
  <2>4. CASE Open \/ Close \/ NewFileAborts \/ OpenPartFails
    BY <2>4 DEF Open, Close, NewFileAborts, OpenPartFails, process_aborts, NoClient
  <2>5. CASE (\E t \in 0..(Len(markers) + 1) : Jump(t)) \/ OpenPart
    <3>1. rd'.blocked = rd.blocked /\ rd'.seen = rd.seen /\ mm' = mm /\ decrypted' = decrypted
      BY <2>5, <2>0 DEF Jump, OpenPart, Reader, wvars
    <3> QED BY <3>1 DEF NewsNotMissed, news
  <2>6. CASE OpenPartNotFound
    <3>1. CASE process_aborts
      BY <3>1 DEF process_aborts, NoClient
    <3>2. CASE rd' = [rd EXCEPT !.pc = "ended", !.mapped = FALSE] /\ wpc' = wpc
      <4>1. rd'.blocked = rd.blocked /\ rd'.seen = rd.seen /\ mm' = mm /\ decrypted' = decrypted
        BY <2>6, <3>2, <2>0 DEF OpenPartNotFound, Reader, last_words
      <4> QED BY <4>1, <3>2 DEF NewsNotMissed, news
    <3> QED BY <2>6, <3>1, <3>2 DEF OpenPartNotFound
  <2>7. CASE ReadData \/ \E n \in 1..MaxChunk : Copy(n)
    <3>1. CASE end_read
      BY <3>1, <2>0 DEF end_read, Reader
    <3>2. CASE ~end_read
      <4>1. rd'.blocked = rd.blocked /\ rd'.seen = rd.seen
        BY <2>7, <3>2, <2>0 DEF ReadData, Copy, Reader
      <4>2. mm' = mm /\ decrypted' = decrypted
        BY <2>7 DEF ReadData, Copy, wvars
      <4> QED BY <4>1, <4>2 DEF NewsNotMissed, news
    <3> QED BY <3>1, <3>2
  <2>8. CASE Block
    <3>1. rd'.seen = rd.seen /\ mm' = mm
      BY <2>8, <2>0 DEF Block, Reader
    <3> QED BY <3>1, <2>8 DEF Block, news
  <2>9. CASE WaitForUpdate
    <3>1. CASE process_aborts
      BY <3>1 DEF process_aborts, NoClient
    <3>2. CASE end_read
      BY <3>2, <2>0 DEF end_read, Reader
    <3>3. CASE rd' = after_update
      <4>1. rd'.blocked = rd.blocked
        BY <3>3, <2>0 DEF after_update, Reader
      <4> QED BY <4>1, <2>9 DEF WaitForUpdate
    <3> QED BY <2>9, <3>1, <3>2, <3>3 DEF WaitForUpdate
  <2>10. CASE PartEnd
    <3>1. CASE process_aborts
      BY <3>1 DEF process_aborts, NoClient
    <3>2. CASE ~process_aborts
      <4>1. rd'.blocked = rd.blocked /\ rd'.seen = rd.seen /\ mm' = mm /\ decrypted' = decrypted
        BY <2>10, <3>2, <2>0 DEF PartEnd, Reader, last_words
      <4> QED BY <4>1 DEF NewsNotMissed, news
    <3> QED BY <3>1, <3>2
  <2>11. CASE ForceAbort \/ OtherPlayerAborts
    BY <2>11, <2>0 DEF ForceAbort, OtherPlayerAborts, notify_all, Reader
  <2>12. CASE OtherPlayerWakes
    <3>1. /\ rd' = rd /\ decrypted' = decrypted /\ mm'.safe = mm.safe /\ mm'.pmt = mm.pmt
          /\ mm'.interrupted = FALSE /\ mm.interrupted
      BY <2>12, <2>0 DEF OtherPlayerWakes, wvars, Meta
    <3> QED BY <3>1 DEF NewsNotMissed, news
  <2> QED BY <2>1, <2>2, <2>3, <2>4, <2>5, <2>6, <2>7, <2>8, <2>9, <2>10, <2>11, <2>12 DEF Next
<1> QED BY <1>1, <1>2, LiveInvariant, PTL DEF Spec
=============================================================================
