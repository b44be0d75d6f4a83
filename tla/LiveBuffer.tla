---------------------------- MODULE LiveBuffer ----------------------------
(***************************************************************************)
(* The live buffer of a service and the player that reads it               *)
(* (live_mpm.cc, playback_mpm.cc, filemapper.cc, active_service.cc).       *)
(*                                                                         *)
(* The service thread appends packets to the last of several file parts,   *)
(* saves a marker in the index database for every i-frame it finds, and    *)
(* then publishes in the meta_marker how much may be read.  It starts a    *)
(* new part from time to time and when a recording ends, and removes old   *)
(* ones.  The player maps one part, reads what it knows to be readable,    *)
(* waits on a condition variable for more, and moves on to the next part.  *)
(* It looks things up in a snapshot of the database and then in the        *)
(* meta_marker, so that it may combine an old answer with a new one.       *)
(* One player is modelled in full; other players of the service share the  *)
(* meta_marker with it, and what they do to it are actions of their own.   *)
(*                                                                         *)
(* A position is a packet number since the service was tuned; a time is    *)
(* the number of markers saved so far.  Packets count once decrypted.      *)
(* Later changes of the pmt, which the player sends along, are left out.   *)
(***************************************************************************)
EXTENDS Naturals, Sequences, SequencesExt, FiniteSetsExt

CONSTANTS MaxChunk,     \* packets read at once
          MaxPackets,   \* bound: packets received
          MaxParts,     \* bound: parts started
          MaxRecs,      \* bound: recordings at the same time
          MaxOpens,     \* bound: clients, one after the other
          MaxJumps      \* bound: jumps in time

ASSUME LiveBufferAssumption ==
  {MaxChunk, MaxPackets, MaxParts, MaxRecs, MaxOpens, MaxJumps} \subseteq Nat

VARIABLES
  files,      \* file_t records of the index database
  on_disk,    \* numbers of the parts whose file exists
  markers,    \* marker_t records of the index database, by time
  decrypted,  \* num_bytes_decrypted
  wpc,        \* where the service thread is
  fresh,      \* a marker was found in the data just parsed
  recs,       \* num_recordings_in_progress
  mm,         \* the meta_marker of the service
  rd,         \* the player: playback_mpm_t
  snap,       \* the read transaction of the player, and the time it looks for
  opens, jumps

vars == <<files, on_disk, markers, decrypted, wpc, fresh, recs, mm, rd, snap,
          opens, jumps>>
wvars == <<files, on_disk, markers, decrypted, wpc, fresh, recs>>
rvars == <<snap, opens, jumps>>

Inf == MaxPackets + 2    \* std::numeric_limits<...>::max()

FirstPart == [fileno |-> 0, time |-> 0, end_time |-> Inf, first |-> 0, last |-> Inf]
NoClient == [pc |-> "closed", file |-> FirstPart, mapped |-> FALSE, pos |-> 0,
             readable |-> 0, must_exit |-> FALSE, blocked |-> FALSE,
             seen |-> [safe |-> 0, pmt |-> FALSE]]
NoSnap == [files |-> {}, markers |-> <<>>, time |-> 0]

\* create(): the first part
Init ==
  /\ files = {FirstPart} /\ on_disk = {0} /\ markers = <<>> /\ decrypted = 0
  /\ wpc = "idle" /\ fresh = FALSE /\ recs = 0
  /\ mm = [safe |-> 0, file |-> FirstPart, marker |-> 0, pmt |-> FALSE,
           interrupted |-> FALSE]
  /\ rd = NoClient /\ snap = NoSnap /\ opens = 0 /\ jumps = 0

\* a failing assertion ends the process, both threads with it
process_aborts == /\ wpc' = "aborted"
                  /\ rd' = [NoClient EXCEPT !.pc = "aborted"]
                  /\ snap' = NoSnap
last_words == <<files, on_disk, markers, decrypted, fresh, recs, opens, jumps>>

-----------------------------------------------------------------------------
\* The service thread

notify_all == rd' = [rd EXCEPT !.blocked = FALSE]

\* index_event: an i-frame ends in the first packet just read; its marker starts at
\* the pat before it, possibly in the previous part
new_marker == [start |-> IF decrypted = 0 THEN 0 ELSE decrypted - 1, end |-> decrypted + 1]

\* one round of process_channel_data: read, decrypt and parse, which commits
\* markers and the pmt; what may be read is published afterwards
ProcessChannelData(n) ==
  /\ wpc = "idle" /\ decrypted + n <= MaxPackets
  /\ decrypted' = decrypted + n
  /\ \/ markers' = markers /\ fresh' = FALSE
     \/ markers' = Append(markers, new_marker) /\ fresh' = TRUE
  /\ \E pmt \in {mm.pmt, TRUE} : mm' = [mm EXCEPT !.pmt = pmt]
  /\ wpc' = "parsed"
  /\ UNCHANGED <<files, on_disk, recs, rd, rvars>>

Publish ==
  /\ wpc = "parsed"
  /\ mm' = [mm EXCEPT !.safe = decrypted, !.marker = Len(markers)]
  /\ wpc' = "idle" /\ fresh' = FALSE
  /\ notify_all
  /\ UNCHANGED <<files, on_disk, markers, decrypted, recs, rvars>>

\* the part being written when it ends before packet end, and the one that follows
closed_part(end) == [mm.file EXCEPT !.end_time = Len(markers), !.last = end]

\* variant: the new part begins with what was not yet published
next_part_unpublished(end) == [fileno |-> mm.file.fileno + 1, time |-> Len(markers),
                               end_time |-> Inf, first |-> mm.safe, last |-> Inf]
next_part(end) == [fileno |-> mm.file.fileno + 1, time |-> Len(markers),
                   end_time |-> Inf, first |-> end, last |-> Inf]

\* testf: no other part starts at the same time
testf(part) == \A f \in files : f.time = part.time => f.fileno = part.fileno

new_file_ok(end) == testf(closed_part(end)) /\ testf(next_part(end))

\* variant: the readers are not told of a new part
next_data_file_silent(end) ==
  /\ new_file_ok(end)
  /\ files' = (files \ {mm.file}) \cup {closed_part(end), next_part(end)}
  /\ on_disk' = on_disk \cup {next_part(end).fileno}
  /\ mm' = [mm EXCEPT !.safe = end, !.file = next_part(end), !.marker = Len(markers)]
  /\ UNCHANGED <<markers, decrypted, rd, rvars>>

\* next_data_file, with the meta_marker locked
next_data_file(end) ==
  /\ new_file_ok(end)
  /\ files' = (files \ {mm.file}) \cup {closed_part(end), next_part(end)}
  /\ on_disk' = on_disk \cup {next_part(end).fileno}
  /\ mm' = [mm EXCEPT !.safe = end, !.file = next_part(end), !.marker = Len(markers)]
  /\ notify_all
  /\ UNCHANGED <<markers, decrypted, rvars>>

\* next_data_file when the file cannot be created, or not be given its size: the
\* transaction is aborted, but the meta_marker already has the next number, and
\* nobody is notified; an empty file that no record names may stay
unmade_part == [mm.file EXCEPT !.fileno = @ + 1]
no_new_file(end) ==
  /\ testf(closed_part(end))
  /\ mm' = [mm EXCEPT !.file = unmade_part, !.marker = Len(markers)]
  /\ UNCHANGED <<files, on_disk, markers, decrypted, rd, rvars>>

\* process_channel_data when a part has lasted long enough; it does not look at the
\* outcome, and does not publish in the same round
StartNewFile ==
  /\ wpc = "parsed" /\ fresh /\ recs = 0
  /\ mm.file.fileno + 1 < MaxParts
  /\ next_data_file(decrypted) \/ no_new_file(decrypted)
  /\ wpc' = "idle" /\ fresh' = FALSE
  /\ UNCHANGED recs

StartRecording ==
  /\ wpc = "idle" /\ recs < MaxRecs
  /\ recs' = recs + 1
  /\ UNCHANGED <<files, on_disk, markers, decrypted, wpc, fresh, mm, rd, rvars>>

\* a part ends with every recording, whether or not the next one can be made
StopRecording ==
  /\ wpc = "idle" /\ recs > 0
  /\ mm.file.fileno + 1 < MaxParts
  /\ next_data_file(mm.safe) \/ no_new_file(mm.safe)
  /\ recs' = recs - 1
  /\ UNCHANGED <<wpc, fresh>>

\* the assertion of testf fails when no marker was saved since the part began, and
\* when the part before it could not be made
NewFileAborts ==
  /\ \/ wpc = "parsed" /\ fresh /\ recs = 0 /\ ~new_file_ok(decrypted)
     \/ wpc = "idle" /\ recs > 0 /\ ~new_file_ok(mm.safe)
  /\ process_aborts
  /\ UNCHANGED <<last_words, mm>>

oldest_part == CHOOSE f \in files : \A g \in files : f.fileno <= g.fileno

\* playback_clients_newest_fileno: of the player or of another one, wherever it is
playing_fileno == {f.fileno : f \in files}

\* delete_old_data: the file of a part that is old enough; its record goes when the
\* transaction of housekeeping is committed
RemoveFile ==
  /\ wpc = "idle"
  /\ oldest_part.end_time # Inf
  /\ \E p \in playing_fileno : oldest_part.fileno < p
  /\ on_disk' = on_disk \ {oldest_part.fileno}
  /\ wpc' = "removing"
  /\ UNCHANGED <<files, markers, decrypted, fresh, recs, mm, rd, rvars>>

CommitRemoval ==
  /\ wpc = "removing"
  /\ files' = files \ {oldest_part}
  /\ wpc' = "idle"
  /\ UNCHANGED <<on_disk, markers, decrypted, fresh, recs, mm, rd, rvars>>

-----------------------------------------------------------------------------
\* The player

snapshot(time) == [files |-> files, markers |-> markers, time |-> time]

\* play_service: a new client, and move_to_live
Open ==
  /\ rd.pc = "closed" /\ opens < MaxOpens
  /\ rd' = [NoClient EXCEPT !.pc = "opening"]
  /\ snap' = snapshot(0)
  /\ opens' = opens + 1
  /\ UNCHANGED <<wvars, mm, jumps>>

\* jump, between two calls of read_data
Jump(t) ==
  /\ rd.pc = "idle" /\ jumps < MaxJumps
  /\ rd' = [rd EXCEPT !.pc = "jumping"]
  /\ snap' = snapshot(t)
  /\ jumps' = jumps + 1
  /\ UNCHANGED <<wvars, mm, opens>>

\* open_file_containing_time: the part with the time, or the first one after it
\* whose file still exists; the mapped file stays open although it was removed, and
\* is kept when no other can be opened
leq_parts == {f \in snap.files : f.time <= snap.time}
part_at_time == CHOOSE f \in leq_parts : \A g \in leq_parts : g.time <= f.time
is_open(f) == rd.mapped /\ f.time = rd.file.time
openable == {f \in snap.files : /\ f.time >= part_at_time.time
                                /\ snap.time < f.end_time
                                /\ f.fileno \in on_disk \/ is_open(f)}
current_file_ok == /\ rd.mapped /\ rd.file.end_time # Inf
                   /\ snap.time >= rd.file.time /\ snap.time < rd.file.end_time
opened_part ==
  IF current_file_ok \/ openable = {} THEN rd.file
  ELSE CHOOSE f \in openable : \A g \in openable : f.time <= g.time

\* open_: the marker at which to start comes from the database, or from the
\* meta_marker when the database has none that late; 0 is a marker never set
beyond_last_marker == snap.time >= Len(snap.markers)
start_time == IF beyond_last_marker /\ snap.time >= mm.marker THEN mm.marker
              ELSE snap.time
start_marker ==
  IF ~beyond_last_marker THEN IF snap.time = 0 THEN 1 ELSE snap.time
  ELSE IF snap.time >= mm.marker THEN mm.marker ELSE 0
marker_start == IF start_marker = 0 THEN Inf ELSE markers[start_marker].start
start_packet(part) ==
  IF start_time = 0 \/ marker_start < part.first THEN part.first ELSE marker_start
end_marker_packet == IF snap.markers = <<>> THEN 0 ELSE Last(snap.markers).end
last_packet(part) ==
  Max({part.first, IF part.last = Inf THEN end_marker_packet ELSE part.last})

opening == rd.pc \in {"opening", "jumping", "next"}
found == current_file_ok \/ (leq_parts # {} /\ (openable # {} \/ rd.mapped))

\* open_ succeeds: the part is mapped from the start packet
OpenPart ==
  /\ opening /\ found
  /\ start_packet(opened_part) <= last_packet(opened_part)
  /\ rd' = [rd EXCEPT !.pc = IF rd.pc = "next" THEN "reading" ELSE "idle",
                      !.file = opened_part, !.mapped = TRUE,
                      !.pos = start_packet(opened_part),
                      !.readable = last_packet(opened_part)]
  /\ snap' = NoSnap
  /\ UNCHANGED <<wvars, mm, opens, jumps>>

\* the start lies beyond what is mapped: an assertion of open_ or of
\* get_read_buffer fails
OpenPartFails ==
  /\ opening /\ found
  /\ start_packet(opened_part) > last_packet(opened_part)
  /\ process_aborts
  /\ UNCHANGED <<last_words, mm>>

\* the time lies before the first part, or nothing can be opened: the viewer gets no
\* client; after a jump nothing is mapped, and the next read runs into an assertion
OpenPartNotFound ==
  /\ opening /\ ~found
  /\ IF rd.pc = "jumping" THEN process_aborts
     ELSE rd' = [rd EXCEPT !.pc = "ended", !.mapped = FALSE] /\ snap' = NoSnap /\ UNCHANGED wpc
  /\ UNCHANGED <<last_words, mm>>

end_read == rd' = [rd EXCEPT !.pc = "ended", !.blocked = FALSE]

\* read_data, which first waits for a pmt
ReadData ==
  /\ rd.pc = "idle"
  /\ IF rd.must_exit THEN end_read
     ELSE rd' = [rd EXCEPT !.pc = IF rd.seen.pmt THEN "reading" ELSE "wait_pmt"]
  /\ UNCHANGED <<wvars, mm, rvars>>

\* read_data_: copy packets that are known to be readable
Copy(n) ==
  /\ rd.pc = "reading" /\ rd.pos < rd.readable /\ rd.pos + n <= rd.readable
  /\ IF rd.must_exit THEN end_read
     ELSE rd' = [rd EXCEPT !.pos = @ + n, !.pc = "idle"]
  /\ UNCHANGED <<wvars, mm, rvars>>

\* the condition of meta_marker_t::wait_for_update
news == mm.interrupted \/ (mm.safe > rd.seen.safe /\ mm.pmt)
waiting == rd.pc = "wait_pmt" \/ (rd.pc = "reading" /\ rd.pos >= rd.readable)

Block ==
  /\ waiting /\ ~rd.blocked /\ ~news
  /\ rd' = [rd EXCEPT !.blocked = TRUE]
  /\ UNCHANGED <<wvars, mm, rvars>>

seen_now == [safe |-> mm.safe, pmt |-> mm.pmt]

\* variant: the part is not compared with the one being written
after_update_same_part ==
  IF rd.pc = "wait_pmt" THEN [rd EXCEPT !.pc = "reading", !.seen = seen_now]
  ELSE [rd EXCEPT !.seen = seen_now, !.readable = Max({@, mm.safe})]

\* read_data_from_current_file after the wait: more of the same part, or its end
after_update ==
  IF rd.pc = "wait_pmt" THEN [rd EXCEPT !.pc = "reading", !.seen = seen_now]
  ELSE IF rd.file.fileno = mm.file.fileno
  THEN [rd EXCEPT !.seen = seen_now, !.readable = Max({@, mm.safe})]
  ELSE [rd EXCEPT !.seen = seen_now, !.pc = "part_end"]

WaitForUpdate ==
  /\ waiting /\ ~rd.blocked /\ news
  /\ mm' = [mm EXCEPT !.interrupted = FALSE]
  /\ IF ~rd.must_exit /\ rd.pc = "wait_pmt" /\ ~mm.pmt THEN process_aborts
     ELSE /\ IF rd.must_exit THEN end_read ELSE rd' = after_update
          /\ UNCHANGED <<wpc, snap>>
  /\ UNCHANGED last_words

\* read_data_: a part has ended; its end is read again if it was still growing
\* when it was opened
current_record ==
  IF rd.file.end_time # Inf THEN {rd.file}
  ELSE {f \in files : f.time = rd.file.time /\ f.fileno = rd.file.fileno /\ f.end_time # Inf}

PartEnd ==
  /\ rd.pc = "part_end"
  /\ IF current_record = {} THEN process_aborts
     ELSE \E f \in current_record :
            /\ rd' = [rd EXCEPT !.file = f, !.pc = "next"]
            /\ snap' = snapshot(f.end_time)
            /\ UNCHANGED wpc
  /\ UNCHANGED <<last_words, mm>>

\* variant: interrupt() without notify_all
ForceAbort_silent ==
  /\ rd.pc \notin {"closed", "ended", "aborted"} /\ ~rd.must_exit
  /\ rd' = [rd EXCEPT !.must_exit = TRUE]
  /\ mm' = [mm EXCEPT !.interrupted = TRUE]
  /\ UNCHANGED <<wvars, rvars>>

\* force_abort, from the thread of the user interface
ForceAbort ==
  /\ rd.pc \notin {"closed", "ended", "aborted"} /\ ~rd.must_exit
  /\ rd' = [rd EXCEPT !.must_exit = TRUE, !.blocked = FALSE]
  /\ mm' = [mm EXCEPT !.interrupted = TRUE]
  /\ UNCHANGED <<wvars, rvars>>

\* another player of the service: interrupt() from its force_abort wakes all players,
\* and the first one to look at the flag, in wait_for_update, clears it
OtherPlayerAborts ==
  /\ wpc # "aborted" /\ ~mm.interrupted
  /\ mm' = [mm EXCEPT !.interrupted = TRUE]
  /\ notify_all
  /\ UNCHANGED <<wvars, rvars>>

OtherPlayerWakes ==
  /\ wpc # "aborted" /\ mm.interrupted
  /\ mm' = [mm EXCEPT !.interrupted = FALSE]
  /\ UNCHANGED <<wvars, rd, rvars>>

\* close: the client is unregistered
Close ==
  /\ rd.pc \in {"idle", "ended"}
  /\ rd' = NoClient
  /\ UNCHANGED <<wvars, mm, rvars>>

-----------------------------------------------------------------------------
Next ==
  \/ \E n \in 1..MaxChunk : ProcessChannelData(n)
  \/ Publish
  \/ StartNewFile
  \/ StartRecording
  \/ StopRecording
  \/ NewFileAborts
  \/ RemoveFile
  \/ CommitRemoval
  \/ Open
  \/ \E t \in 0..(Len(markers) + 1) : Jump(t)
  \/ OpenPart
  \/ OpenPartFails
  \/ OpenPartNotFound
  \/ ReadData
  \/ \E n \in 1..MaxChunk : Copy(n)
  \/ Block
  \/ WaitForUpdate
  \/ PartEnd
  \/ ForceAbort
  \/ OtherPlayerAborts
  \/ OtherPlayerWakes
  \/ Close

\* The thread of mpv reads until it is told to stop.  The service thread and the
\* other players owe it nothing.
Fairness ==
  /\ WF_vars(ReadData)
  /\ WF_vars(\E n \in 1..MaxChunk : Copy(n))
  /\ WF_vars(WaitForUpdate)
  /\ WF_vars(PartEnd)
  /\ WF_vars(OpenPart \/ OpenPartFails \/ OpenPartNotFound)

Spec == Init /\ [][Next]_vars /\ Fairness

-----------------------------------------------------------------------------
\* Properties

follows(f, g) == g.fileno = f.fileno + 1

\* The parts in the database follow each other without gap or overlap in packets
\* and in time, whatever was removed, however parts ended and whichever file could
\* not be made (next_data_file, delete_old_data); one part is open, the meta_marker
\* is of that part or of the one that could not be made after it, and the markers
\* saved while a part was written are in it.
PartsPartition ==
  /\ \E f \in files : /\ {g \in files : g.last = Inf} = {f}
                      /\ mm.file \in {f, [f EXCEPT !.fileno = @ + 1]}
  /\ \A f \in files : f.last # Inf =>
       /\ f.time < f.end_time /\ f.first <= f.last
       /\ \E g \in files : follows(f, g) /\ g.first = f.last /\ g.time = f.end_time
  /\ \A f \in files : \A t \in 1..Len(markers) :
       t > f.time /\ t <= f.end_time => markers[t].end >= f.first /\ markers[t].end <= f.last

\* The player never reads packets that are not yet decrypted, nor beyond the end of its
\* part, where the writer has truncated the file (safe_read_len in filemapper.h), however
\* the part ended while the player was waiting, jumping or paused.
ReadsWritten ==
  rd.mapped =>
    /\ rd.file.first <= rd.pos /\ rd.pos <= rd.readable
    /\ rd.readable <= decrypted
    /\ \A f \in files : f.fileno = rd.file.fileno => rd.readable <= f.last

\* A player that sleeps misses nothing: there is nothing new, or the service thread has
\* decrypted packets that it has yet to publish, when it will notify the player
\* (meta_marker_t::wait_for_update; neither save_pmt nor a next_data_file that fails
\* notifies).
NewsNotMissed == rd.blocked /\ news => mm.safe < decrypted

\* Once aborted the player stops reading, wherever it was waiting (force_abort), unless
\* another player has taken the interrupt: then it sleeps until the next notification.
AbortEnds ==
  rd.must_exit ~> \/ rd.pc \in {"ended", "closed", "aborted"}
                  \/ waiting /\ ~mm.interrupted /\ (rd.blocked \/ ~news)
=============================================================================
