---------------------------- MODULE SessionJournal ----------------------------
(***************************************************************************)
(* The output journal of one hosted session: multiplex-store/journal.rs,   *)
(* driven the way process_output and heartbeat_loop of                     *)
(* multiplex-session-host/host.rs drive it.                                *)
(*                                                                         *)
(* Output frames are appended to numbered segment files.  When the files   *)
(* have grown enough a terminal snapshot is published atomically and the   *)
(* segments it covers are deleted one by one; a crash can come between     *)
(* any two of these steps.  JournalStore::open scans what is on disk,      *)
(* keeps the longest valid prefix and resumes.                             *)
(*                                                                         *)
(* A frame is its sequence number, its encoded length, which is what the   *)
(* limits look at and which stands for the contents, and the offset in its *)
(* file at which it ends.  A torn write is the number of bytes at the end  *)
(* of a file that hold no frame.                                           *)
(*                                                                         *)
(* The store syncs the contents of its files, never the session directory  *)
(* it creates and removes them in.  A power cut can therefore undo the     *)
(* latest creations and removals: those since the last time another writer *)
(* (snapshot.trs, host.json) synced that directory.  The changes of one    *)
(* directory reach the disk in their order, and a directory sync that is   *)
(* asked for is made.                                                      *)
(***************************************************************************)
EXTENDS Integers, Sequences, FiniteSets, FiniteSetsExt, Functions

CONSTANTS SegmentBytes,      \* JournalLimits.segment_bytes
          HardBytes,         \* JournalLimits.hard_bytes
          RetainedSegments,  \* JournalLimits.retained_segments
          FrameLens,         \* the encoded lengths a frame may have
          LiveReplayBytes,   \* LIVE_REPLAY_BYTES
          LiveReplayRecords, \* LIVE_REPLAY_RECORDS
          MaxLength,         \* what a file length or a total may be, u64::MAX
          MaxSeq             \* bound: the last sequence number appended

(* JournalLimits::validate, and a frame is never longer than a segment. *)
ASSUME LimitsAssumption ==
  /\ FrameLens \subseteq Nat \ {0} /\ FrameLens # {}
  /\ SegmentBytes \in Nat /\ HardBytes \in Nat /\ MaxLength \in Nat
  /\ RetainedSegments \in 1..4
  /\ LiveReplayBytes \in Nat /\ LiveReplayRecords \in Nat
  /\ MaxSeq \in Nat
  /\ \A len \in FrameLens : len <= SegmentBytes
  /\ SegmentBytes <= HardBytes

VARIABLES
  \* the session directory
  segs,          \* journal-NNNNNN.trj: index -> file
  snap,          \* boundary of snapshot.trs, 0 when there is none
  \* JournalStore, in the memory of the Host
  pc,            \* where the Host is with it
  doomed,        \* the segments compact still has to remove
  active_index, active_bytes, total_bytes,
  latest,        \* latest_sequence
  earliest,      \* earliest_sequence, 0 for None
  base,          \* base_sequence
  paused,        \* recording_paused
  gap,           \* has_gap
  live,          \* live_frames
  live_boundary,
  \* what the outside was told
  durable,       \* the last sequence number sync returned
  \* what a power cut may do to the session directory
  images,        \* the directories it may leave, the current one among them
  gone,          \* removed segments that may come back: index -> file
  anchored,      \* durable as the last directory sync found it
  undone         \* a cut undid changes, and no later open found all in order

diskVars == <<segs, snap>>
cutVars  == <<images, gone, anchored, undone>>
memVars  == <<doomed, active_index, active_bytes, total_bytes, latest, earliest,
              base, paused, gap, live, live_boundary>>
vars     == <<diskVars, pc, memVars, durable, cutVars>>

Frame == [seq : 1..MaxSeq, len : FrameLens, end : 1..HardBytes]

(***************************************************************************)
(* A segment file.  synced is the number of frames known to be on stable   *)
(* storage.  lo is auxiliary: the sequence number its first frame follows. *)
(* No action reads it.                                                     *)
(***************************************************************************)
File == [frames : Seq(Frame), torn : Nat, synced : Nat, lo : Nat]

EmptyFile(seq) == [frames |-> << >>, torn |-> 0, synced |-> 0, lo |-> seq]

(* The bytes of the whole frames of a file, and its length. *)
EndOf(frames) == IF frames = << >> THEN 0 ELSE frames[Len(frames)].end

FileBytes(file) == EndOf(file.frames) + file.torn

SyncedFile(file) == [file EXCEPT !.synced = Len(file.frames)]

(***************************************************************************)
(* A session directory names its segments and its snapshot; the contents   *)
(* of a file are the same whichever directory names it.                    *)
(***************************************************************************)
Directory == [entries |-> DOMAIN segs, snap |-> snap]

Every == [i \in DOMAIN segs \cup DOMAIN gone |->
            IF i \in DOMAIN segs THEN segs[i] ELSE gone[i]]

Image(d) == [i \in d.entries |-> Every[i]]

(* A change of the directory that a power cut may still undo. *)
Relinked ==
  /\ images' = images \cup {Directory'}
  /\ UNCHANGED <<anchored, undone>>

(* The directory is synced: what it was before does not come back. *)
Settled ==
  /\ images' = {Directory'}
  /\ gone' = << >>
  /\ anchored' = durable'

-------------------------------------------------------------------------------
(***************************************************************************)
(* Scanning: scan_journal_bytes over one file, and over the files in order *)
(* as open and read_from do.                                               *)
(***************************************************************************)

(* The number of frames of the longest valid prefix that follows prev. *)
Valid(file, prev) ==
  CHOOSE n \in 0..Len(file.frames) :
    /\ \A k \in 1..n : file.frames[k].seq = prev + k
    /\ n < Len(file.frames) => file.frames[n + 1].seq # prev + n + 1

Issue(file, prev) == file.torn > 0 \/ Valid(file, prev) < Len(file.frames)

(* The last sequence number of the files before i, all of them valid. *)
Previous(files, start, i) ==
  Max({start} \cup UNION {{f.seq : f \in Range(files[j].frames)} :
                          j \in {j \in DOMAIN files : j < i}})

HasIssue(files, start, i) == Issue(files[i], Previous(files, start, i))

(* The files scanned: up to and including the first with an issue. *)
Scanned(files, start) ==
  {i \in DOMAIN files :
     \A j \in DOMAIN files : j < i => ~HasIssue(files, start, j)}

ScanFrames(files, start) ==
  UNION {LET file == files[i] IN
         {file.frames[k] : k \in 1..Valid(file, Previous(files, start, i))} :
         i \in Scanned(files, start)}

ScanLatest(files, start) == Max({start} \cup {f.seq : f \in ScanFrames(files, start)})

(* The first retained sequence number; 0 stands for None. *)
ScanEarliest(files, start) ==
  IF ScanFrames(files, start) = {} THEN start
  ELSE Min({f.seq : f \in ScanFrames(files, start)})

(* What a journal opened now would hold beyond its snapshot. *)
Recovered == ScanFrames(segs, snap)

RecoveredLatest == ScanLatest(segs, snap)

-------------------------------------------------------------------------------
(***************************************************************************)
(* Reading, under the journal lock.  A read is the set of frames returned. *)
(***************************************************************************)

(* The guard of read_from: the history asked for has been compacted away. *)
HistoryUnavailable(from) ==
  LET first == ScanEarliest(segs, base)
  IN  from < base \/ (first # 0 /\ from + 1 < first)

ReadFrom(from) == {f \in ScanFrames(segs, base) : f.seq > from}

(* mutant: the live cache serves frames it has evicted *)
LiveReadable_NoBoundary(from) == ~gap /\ from >= base

(* read_live_from serves this tail without the disk. *)
LiveReadable(from) == ~gap /\ from >= live_boundary /\ from >= base

ReadLiveFrom(from) ==
  IF LiveReadable(from) THEN {f \in Range(live) : f.seq > from} ELSE ReadFrom(from)

-------------------------------------------------------------------------------
Init ==
  /\ segs = << >> /\ snap = 0
  /\ pc = "closed" /\ doomed = {}
  /\ active_index = 0 /\ active_bytes = 0 /\ total_bytes = 0
  /\ latest = 0 /\ earliest = 0 /\ base = 0
  /\ paused = FALSE /\ gap = FALSE
  /\ live = << >> /\ live_boundary = 0
  /\ durable = 0
  /\ images = {[entries |-> {}, snap |-> 0]} /\ gone = << >>
  /\ anchored = 0 /\ undone = FALSE

(***************************************************************************)
(* JournalStore::open.  A file with an issue keeps its valid prefix if it  *)
(* is the last; otherwise the scan ends there and the journal has a gap.   *)
(* The Host writes host.json, and so syncs the directory, before it reads  *)
(* any output.                                                             *)
(***************************************************************************)
OpenFiles == IF DOMAIN segs = {} THEN [i \in {1} |-> EmptyFile(snap)] ELSE segs

(* mutant: the damaged file is emptied, not cut at its valid prefix *)
Truncated_ToZero(file, prev) == EmptyFile(prev)

Truncated(file, prev) ==
  LET n == Valid(file, prev) IN
  [frames |-> SubSeq(file.frames, 1, n), torn |-> 0, synced |-> n,
   lo |-> IF n = 0 THEN prev ELSE file.lo]

(* mutant: the unreadable tail is left in place *)
Reopened_KeepTail(file, prev) ==
  [file EXCEPT !.lo = IF file.frames = << >> THEN prev ELSE @]

Reopened(file, prev) ==
  IF Issue(file, prev) THEN Truncated(file, prev)
  ELSE [file EXCEPT !.lo = IF file.frames = << >> THEN prev ELSE @]

Open ==
  LET files    == OpenFiles
      last     == Max(DOMAIN files)
      scanned  == Scanned(files, snap)
      complete == last \in scanned
      after    == IF complete
                  THEN [files EXCEPT ![last] = Reopened(@, Previous(files, snap, last))]
                  ELSE files
      total    == SumFunctionOnSet([i \in DOMAIN after |-> FileBytes(after[i])], scanned)
  IN
  /\ pc = "closed"
  /\ \A i \in scanned : FileBytes(files[i]) <= SegmentBytes    \* read_regular_bounded
  /\ total \in 0..MaxLength /\ FileBytes(after[last]) \in 0..MaxLength
  /\ segs' = after
  /\ pc' = "idle"
  /\ active_index' = last /\ active_bytes' = FileBytes(after[last])
  /\ total_bytes' = total
  /\ base' = snap
  /\ latest' = ScanLatest(files, snap)
  /\ earliest' = ScanEarliest(files, snap)
  /\ gap' = (~complete \/ total > HardBytes)
  /\ paused' = (~complete \/ total >= HardBytes)
  /\ live' = << >> /\ live_boundary' = ScanLatest(files, snap)
  /\ UNCHANGED <<snap, doomed, durable>>
  /\ Settled
  /\ undone' = (undone /\ gap')

(* mutant: the file is sealed without a sync *)
Rotated_NoSync ==
  [i \in DOMAIN segs \cup {active_index + 1} |->
     IF i = active_index + 1 THEN EmptyFile(latest) ELSE segs[i]]

(***************************************************************************)
(* rotate: the active file is synced and the next one created.  Recording  *)
(* pauses when that makes more files than are retained.                    *)
(***************************************************************************)
Rotated ==
  [i \in DOMAIN segs \cup {active_index + 1} |->
     IF i = active_index + 1 THEN EmptyFile(latest)
     ELSE IF i = active_index THEN SyncedFile(segs[i])
     ELSE segs[i]]

RotatePauses == Cardinality(DOMAIN segs) + 1 > RetainedSegments

MustRotate(len) == active_bytes > 0 /\ active_bytes + len > SegmentBytes

(* compaction_due *)
CompactionDue(active, total) == active >= SegmentBytes \/ total >= 3 * SegmentBytes

(* The live cache keeps the longest tail within its limits. *)
LiveFits(frames) ==
  /\ SumFunction([k \in DOMAIN frames |-> frames[k].len]) <= LiveReplayBytes
  /\ Len(frames) <= LiveReplayRecords

(***************************************************************************)
(* append of an output frame, and process_output's decision to compact.    *)
(***************************************************************************)
Append_(len) ==
  LET files  == IF MustRotate(len) THEN Rotated ELSE segs
      index  == IF MustRotate(len) THEN active_index + 1 ELSE active_index
      frame  == [seq |-> latest + 1, len |-> len, end |-> FileBytes(files[index]) + len]
      active == (IF MustRotate(len) THEN 0 ELSE active_bytes) + len
      cached == Append(live, frame)
  IN
  /\ pc = "idle" /\ ~paused /\ latest < MaxSeq
  /\ total_bytes + len <= HardBytes
  /\ segs' = [files EXCEPT ![index].frames = Append(@, frame)]
  /\ active_index' = index /\ active_bytes' = active
  /\ total_bytes' = total_bytes + len
  /\ paused' = (MustRotate(len) /\ RotatePauses)
  /\ earliest' = IF earliest = 0 \/ latest = base THEN frame.seq ELSE earliest
  /\ latest' = frame.seq
  /\ \E n \in 0..Len(cached) :
       /\ LiveFits(SubSeq(cached, n + 1, Len(cached)))
       /\ \A m \in 0..(n - 1) : ~LiveFits(SubSeq(cached, m + 1, Len(cached)))
       /\ live' = SubSeq(cached, n + 1, Len(cached))
       /\ live_boundary' = IF n = 0 THEN live_boundary ELSE cached[n].seq
  /\ pc' = IF CompactionDue(active, total_bytes + len) THEN "compact" ELSE "idle"
  /\ UNCHANGED <<snap, doomed, base, gap, durable, gone>>
  /\ Relinked

(* append refused: the frame would take the journal over its hard limit. *)
AppendOverLimit(len) ==
  /\ pc = "idle" /\ ~paused /\ latest < MaxSeq
  /\ total_bytes + len > HardBytes
  /\ paused' = TRUE
  /\ UNCHANGED <<diskVars, pc, doomed, active_index, active_bytes, total_bytes,
                 latest, earliest, base, gap, live, live_boundary, durable, cutVars>>

(***************************************************************************)
(* append fails after n bytes of the frame.  The error ends output_loop:   *)
(* nothing is appended any more, while heartbeats and readers go on.       *)
(***************************************************************************)
AppendFails(len, n) ==
  LET files == IF MustRotate(len) THEN Rotated ELSE segs
      index == IF MustRotate(len) THEN active_index + 1 ELSE active_index
  IN
  /\ pc = "idle" /\ ~paused /\ latest < MaxSeq
  /\ total_bytes + len <= HardBytes
  /\ segs' = [files EXCEPT ![index].torn = n]
  /\ active_index' = index
  /\ active_bytes' = IF MustRotate(len) THEN 0 ELSE active_bytes
  /\ paused' = (MustRotate(len) /\ RotatePauses)
  /\ pc' = "failed"
  /\ UNCHANGED <<snap, doomed, total_bytes, latest, earliest, base, gap,
                 live, live_boundary, durable, gone>>
  /\ Relinked

(***************************************************************************)
(* rotate fails: before it creates the next file, before it turns to it,   *)
(* or when it counts the files.                                            *)
(***************************************************************************)
RotateFails ==
  /\ \/ UNCHANGED <<segs, active_index, active_bytes>>
     \/ segs' = Rotated /\ UNCHANGED <<active_index, active_bytes>>
     \/ segs' = Rotated /\ active_index' = active_index + 1 /\ active_bytes' = 0
  /\ UNCHANGED snap
  /\ Relinked

AppendRotateFails(len) ==
  /\ pc = "idle" /\ ~paused /\ latest < MaxSeq
  /\ total_bytes + len <= HardBytes /\ MustRotate(len)
  /\ RotateFails
  /\ pc' = "failed"
  /\ UNCHANGED <<doomed, total_bytes, latest, earliest, base, paused, gap,
                 live, live_boundary, durable, gone>>

(* mutant: the watermark moves, the file is not synced *)
Sync_NoFlush ==
  /\ pc \in {"idle", "failed"}
  /\ durable' = latest
  /\ UNCHANGED <<diskVars, pc, memVars, cutVars>>

(* sync, from process_output or the heartbeat; its result is published. *)
Sync ==
  /\ pc \in {"idle", "failed"}
  /\ segs' = [segs EXCEPT ![active_index] = SyncedFile(@)]
  /\ durable' = latest
  /\ UNCHANGED <<snap, pc, memVars, cutVars>>

(* host.json is replaced, by the heartbeat or by a start of the Host. *)
DirectorySynced ==
  /\ UNCHANGED <<diskVars, pc, memVars, durable, undone>>
  /\ Settled

(* mutant: the snapshot is named after the base it replaces *)
CompactSnapshot_OldBase ==
  /\ pc = "compact"
  /\ snap' = base
  /\ pc' = "rotate"
  /\ UNCHANGED <<segs, memVars, durable, undone>>
  /\ Settled

(***************************************************************************)
(* compact: publish the snapshot and sync the directory, rotate, remove    *)
(* the covered segments in order, and only then move the base.  The        *)
(* journal lock is held all the way, so only a crash, an I/O error or a    *)
(* directory sync comes in between.                                        *)
(***************************************************************************)
CompactSnapshot ==
  /\ pc = "compact"
  /\ snap' = latest
  /\ pc' = "rotate"
  /\ UNCHANGED <<segs, memVars, durable, undone>>
  /\ Settled

(* The segments compact removes: valid ones that end within the snapshot. *)
Removable(files, active) ==
  {i \in DOMAIN files \ {active} :
     /\ ~HasIssue(files, base, i)
     /\ files[i].frames # << >>
     /\ files[i].frames[Len(files[i].frames)].seq <= snap}

CompactRotate ==
  /\ pc = "rotate"
  /\ IF active_bytes > 0
     THEN /\ segs' = Rotated
          /\ active_index' = active_index + 1
          /\ active_bytes' = 0
          /\ paused' = (paused \/ RotatePauses)
          /\ doomed' = Removable(Rotated, active_index + 1)
     ELSE /\ doomed' = Removable(segs, active_index)
          /\ UNCHANGED <<segs, active_index, active_bytes, paused>>
  /\ pc' = "remove"
  /\ UNCHANGED <<snap, total_bytes, latest, earliest, base, gap, live,
                 live_boundary, durable, gone>>
  /\ Relinked

(* mutant: the removed bytes stay in the total *)
SaturatingSub_Nothing(a, b) == a

SaturatingSub(a, b) == IF b <= a THEN a - b ELSE 0

CompactRemove ==
  /\ pc = "remove" /\ doomed # {}
  /\ LET i == Min(doomed) IN
       /\ segs' = Restrict(segs, DOMAIN segs \ {i})
       /\ gone' = [j \in DOMAIN gone \cup {i} |-> IF j = i THEN segs[i] ELSE gone[j]]
       /\ total_bytes' = SaturatingSub(total_bytes, FileBytes(segs[i]))
       /\ doomed' = doomed \ {i}
  /\ UNCHANGED <<snap, pc, active_index, active_bytes, latest, earliest, base,
                 paused, gap, live, live_boundary, durable>>
  /\ Relinked

(* mutant: earliest_sequence survives the compaction *)
CompactFinish_KeepEarliest ==
  /\ pc = "remove" /\ doomed = {}
  /\ base' = snap
  /\ live' = << >> /\ live_boundary' = snap
  /\ paused' = (paused /\ (gap \/ total_bytes >= HardBytes))
  /\ pc' = "idle"
  /\ UNCHANGED <<diskVars, doomed, active_index, active_bytes, total_bytes,
                 latest, earliest, gap, durable, cutVars>>

(* mutant: a pause is never lifted *)
CompactFinish_StayPaused ==
  /\ pc = "remove" /\ doomed = {}
  /\ base' = snap /\ earliest' = snap
  /\ live' = << >> /\ live_boundary' = snap
  /\ pc' = "idle"
  /\ UNCHANGED <<diskVars, doomed, active_index, active_bytes, total_bytes,
                 latest, paused, gap, durable, cutVars>>

CompactFinish ==
  /\ pc = "remove" /\ doomed = {}
  /\ base' = snap /\ earliest' = snap
  /\ live' = << >> /\ live_boundary' = snap
  /\ paused' = (paused /\ (gap \/ total_bytes >= HardBytes))
  /\ pc' = "idle"
  /\ UNCHANGED <<diskVars, doomed, active_index, active_bytes, total_bytes,
                 latest, gap, durable, cutVars>>

(***************************************************************************)
(* An I/O error in compact ends output_loop with the work half done.  The  *)
(* snapshot may be in place and the directory not yet synced: a crash      *)
(* between the two finds the same disk.                                    *)
(***************************************************************************)
CompactFails ==
  /\ \/ /\ pc = "compact"
        /\ snap' \in {snap, latest}
        /\ UNCHANGED <<segs, active_index, active_bytes>>
        /\ Relinked
     \/ pc = "rotate" /\ RotateFails
     \/ pc = "remove" /\ UNCHANGED <<diskVars, active_index, active_bytes>> /\ Relinked
  /\ pc' = "failed" /\ doomed' = {}
  /\ UNCHANGED <<total_bytes, latest, earliest, base, paused, gap, live,
                 live_boundary, durable, gone>>

-------------------------------------------------------------------------------
(* The memory of a Host that is gone. *)
Forget ==
  /\ pc' = "closed" /\ doomed' = {}
  /\ active_index' = 0 /\ active_bytes' = 0 /\ total_bytes' = 0
  /\ latest' = 0 /\ earliest' = 0 /\ base' = 0
  /\ paused' = FALSE /\ gap' = FALSE
  /\ live' = << >> /\ live_boundary' = 0

(* The Host dies or is closed; the kernel still holds what it wrote. *)
Crash ==
  /\ pc # "closed"
  /\ Forget
  /\ UNCHANGED <<diskVars, durable, cutVars>>

(***************************************************************************)
(* The machine dies: the directory is one that a cut may leave, and its    *)
(* file i keeps its first n frames, at least the synced ones, and t bytes  *)
(* after them that no longer hold a frame.  Where changes of the directory *)
(* are undone, the promise of sync holds as far as the last directory sync *)
(* found it.                                                               *)
(***************************************************************************)
PowerLoss(d, i, n, t) ==
  LET file == Image(d)[i] IN
  /\ file.synced <= n
  /\ t <= FileBytes(file) - EndOf(SubSeq(file.frames, 1, n))
  /\ segs' = [Image(d) EXCEPT ![i].frames = SubSeq(@, 1, n), ![i].torn = t]
  /\ snap' = d.snap
  /\ durable' = IF d = Directory THEN durable ELSE anchored
  /\ undone' = (undone \/ d # Directory)
  /\ images' = {d} /\ gone' = << >>
  /\ Forget
  /\ UNCHANGED anchored

Next ==
  \/ Open
  \/ \E len \in FrameLens : Append_(len)
  \/ \E len \in FrameLens : AppendOverLimit(len)
  \/ \E len \in FrameLens : \E n \in 0..(len - 1) : AppendFails(len, n)
  \/ \E len \in FrameLens : AppendRotateFails(len)
  \/ Sync \/ DirectorySynced
  \/ CompactSnapshot \/ CompactRotate \/ CompactRemove \/ CompactFinish \/ CompactFails
  \/ Crash
  \/ \E d \in images : \E i \in d.entries : \E n \in 0..Len(Image(d)[i].frames) :
       \E t \in 0..SegmentBytes : PowerLoss(d, i, n, t)

Spec == Init /\ [][Next]_vars

-------------------------------------------------------------------------------
(* Numbered files, from 1 up. *)
IsFiles(files) == DOMAIN files \subseteq Nat \ {0} /\ files \in [DOMAIN files -> File]

(* The files on disk and the fields of JournalStore; a state of pc for     *)
(* each point between two steps at which a crash finds a different disk.   *)
StoreTypeOK ==
  /\ IsFiles(segs)
  /\ snap \in 0..MaxSeq
  /\ pc \in {"closed", "idle", "compact", "rotate", "remove", "failed"}
  /\ doomed \subseteq DOMAIN segs
  /\ active_index \in Nat /\ active_bytes \in Nat /\ total_bytes \in Nat
  /\ latest \in 0..MaxSeq /\ earliest \in 0..MaxSeq /\ base \in 0..MaxSeq
  /\ paused \in BOOLEAN /\ gap \in BOOLEAN
  /\ live \in Seq(Frame) /\ live_boundary \in 0..MaxSeq
  /\ durable \in 0..MaxSeq

CutTypeOK ==
  /\ IsFiles(gone) /\ anchored \in 0..MaxSeq /\ undone \in BOOLEAN
  /\ images \subseteq [entries : SUBSET DOMAIN Every, snap : 0..MaxSeq]

(* Every variable has its type. *)
TypeOK == StoreTypeOK /\ CutTypeOK

-------------------------------------------------------------------------------
(***************************************************************************)
(* The inductive invariant behind DurableRecoverable.                      *)
(***************************************************************************)
Hi(file) == file.lo + Len(file.frames)

Bottom(files, i) == i \in DOMAIN files /\ \A j \in DOMAIN files : i <= j

Top(files, i) == i \in DOMAIN files /\ \A j \in DOMAIN files : j <= i

(* A file holds consecutive frames, at increasing offsets. *)
NumberedFile(file) ==
  /\ file.synced <= Len(file.frames)
  /\ \A k \in 1..Len(file.frames) : file.frames[k].seq = file.lo + k
  /\ \A k, m \in 1..Len(file.frames) : k < m => file.frames[k].end < file.frames[m].end

Numbered(files) == \A i \in DOMAIN files : NumberedFile(files[i])

(* The files continue one another; all but the last are synced and whole. *)
Chained(files) ==
  /\ DOMAIN files # {} => \E b, t \in DOMAIN files : Bottom(files, b) /\ Top(files, t)
  /\ \A i, j \in DOMAIN files : i < j =>
       /\ Hi(files[i]) <= files[j].lo
       /\ i + 1 \in DOMAIN files
       /\ j - 1 \in DOMAIN files /\ files[j].lo = Hi(files[j - 1])
       /\ files[i].frames # << >> /\ files[i].torn = 0
       /\ files[i].synced = Len(files[i].frames)

(* The files continue the sequence number seq, or hold nothing beyond it. *)
StartsAt(files, seq) ==
  DOMAIN files = {} \/ \E b \in DOMAIN files : Bottom(files, b) /\ files[b].lo = seq

Covered(files, seq) == \A i \in DOMAIN files : Hi(files[i]) <= seq

(* The files begin before seq, in a sealed file: open stops at that one. *)
Stale(files, seq) ==
  \E b, j \in DOMAIN files : Bottom(files, b) /\ b # j /\ files[b].lo # seq

(* The sequence number mark is in the snapshot or in the synced frames. *)
OnDisk(files, seq, mark) ==
  \/ mark <= seq
  \/ \E t \in DOMAIN files : Top(files, t) /\ mark <= files[t].lo + files[t].synced

(* Files that a journal can be opened on without losing mark. *)
Recoverable(files, seq, mark) ==
  /\ Numbered(files) /\ Chained(files)
  /\ \/ StartsAt(files, seq) \/ Covered(files, seq)
     \/ Stale(files, seq) /\ mark <= seq
  /\ OnDisk(files, seq, mark)

(* Stale files that hold more than their snapshot are left by a cut that   *)
(* undoes removals, and by nothing else.                                   *)
DiskInv ==
  /\ Recoverable(segs, snap, durable)
  /\ undone \/ StartsAt(segs, snap) \/ Covered(segs, snap)

(***************************************************************************)
(* Every directory that a cut may leave is recoverable as far as the last  *)
(* directory sync promised; while the Host writes, one that names the      *)
(* active file is the current one or too old to be read past its snapshot. *)
(***************************************************************************)
CutInv ==
  /\ Directory \in images /\ anchored <= durable
  /\ \A g \in DOMAIN gone :
       /\ NumberedFile(gone[g]) /\ \A i \in DOMAIN segs : g < i
       /\ \A i \in DOMAIN Every : g < i => Hi(gone[g]) <= Every[i].lo
  /\ \A d \in images :
       /\ d.snap <= snap
       /\ Recoverable(Image(d), d.snap, anchored)
       /\ pc \in {"idle", "compact", "remove"} /\ ~gap /\ active_index \in d.entries =>
            d = Directory \/ Stale(Image(d), d.snap)

(* Memory agrees with the disk at each point of the Host's work. *)
ActiveIntact ==
  /\ latest = Hi(segs[active_index])
  /\ segs[active_index].torn = 0
  /\ active_bytes = FileBytes(segs[active_index])

MemoryInv ==
  /\ pc \notin {"closed", "failed"} => Top(segs, active_index)
  /\ pc # "remove" => doomed = {}
  /\ gap => paused
  /\ undone => pc = "closed" \/ (pc = "idle" /\ gap /\ paused)
  /\ pc = "idle" => /\ base = snap
                    /\ \/ StartsAt(segs, snap) /\ ActiveIntact
                       \/ /\ gap /\ paused /\ latest = snap
                          /\ Covered(segs, snap) \/ Stale(segs, snap)
  /\ pc = "compact" => /\ base = snap /\ StartsAt(segs, snap)
                       /\ ActiveIntact /\ active_bytes > 0
  /\ pc = "rotate" => /\ snap = latest /\ StartsAt(segs, base) /\ Covered(segs, snap)
                      /\ ActiveIntact /\ active_bytes > 0
  /\ pc = "remove" => /\ snap = latest /\ Covered(segs, snap)
                      /\ ActiveIntact /\ segs[active_index].frames = << >>
                      /\ doomed = DOMAIN segs \ {active_index}
  /\ pc = "failed" => /\ active_index \in DOMAIN segs
                      /\ \/ StartsAt(segs, snap) /\ latest = Hi(segs[active_index])
                         \/ Covered(segs, snap) /\ latest = snap
                      /\ \/ Top(segs, active_index)
                         \/ /\ Top(segs, active_index + 1)
                            /\ segs[active_index + 1].frames = << >>

(* The journal's files, its snapshot, its watermark and its memory agree   *)
(* at every point at which a crash can find them, and so do the files that *)
(* a power cut would leave in their place.                                 *)
JournalInv == TypeOK /\ DiskInv /\ CutInv /\ MemoryInv

(***************************************************************************)
(* What the reads rest on: the bounds in memory, and the live window as a  *)
(* consecutive tail of the frames on disk.                                 *)
(***************************************************************************)
Stored(files) ==
  UNION {{files[i].frames[k] : k \in 1..Len(files[i].frames)} : i \in DOMAIN files}

ReadInv ==
  pc = "idle" =>
    /\ base <= latest
    /\ earliest = IF latest = base THEN base ELSE base + 1
    /\ live_boundary + Len(live) = latest
    /\ \A k \in 1..Len(live) : live[k].seq = live_boundary + k /\ live[k] \in Stored(segs)

(***************************************************************************)
(* What the counters rest on: the bytes on disk never exceed the limit, so *)
(* that open finds a gap only where an interrupted compaction left one.    *)
(***************************************************************************)
DiskBytes(files) == SumFunction([i \in DOMAIN files |-> FileBytes(files[i])])

BytesInv ==
  /\ (undone /\ Stale(segs, snap)) \/ DiskBytes(segs) <= HardBytes
  /\ \A d \in images : Stale(Image(d), d.snap) \/ DiskBytes(Image(d)) <= HardBytes
  /\ pc \in {"idle", "compact", "rotate", "remove"} /\ ~gap => total_bytes = DiskBytes(segs)
  /\ gap => /\ pc = "idle" /\ paused /\ base = snap
            /\ Covered(segs, snap) \/ (undone /\ Stale(segs, snap))

(***************************************************************************)
(* What the pause rests on: a file is sealed only when a frame no longer   *)
(* fits, so as many files as are retained hold enough bytes to make        *)
(* compaction due, or to reach the hard limit.                             *)
(***************************************************************************)
AmpleSegments ==
  LET least == SegmentBytes + 1 - Max(FrameLens)  \* the bytes of a sealed file
  IN  \/ RetainedSegments * least >= 3 * SegmentBytes
      \/ RetainedSegments * least + Max(FrameLens) >= HardBytes

SealedInv ==
  \A d \in images : StartsAt(Image(d), d.snap) =>
    \A i, j \in d.entries : i < j => FileBytes(Every[i]) + Max(FrameLens) > SegmentBytes

-------------------------------------------------------------------------------
(* A sequence number that sync returned is never lost: whatever crashes    *)
(* and power failures hit append, rotate, compact and open, a journal      *)
(* opened now still reaches it, as frames or in its snapshot.  A power cut *)
(* that undoes creations or removals of segments, which the store leaves   *)
(* unsynced, takes back what sync promised since the last directory sync,  *)
(* and never what it had promised by then.                                 *)
DurableRecoverable == durable <= RecoveredLatest

(* A frame reported durable keeps its place and its contents until a       *)
(* snapshot covers it: no step of the store drops or rewrites it, and a    *)
(* power cut none that the last directory sync vouches for.                *)
DurableFramesStay ==
  [][\A f \in Recovered : f.seq <= durable' => f \in Recovered' \/ f.seq <= snap']_vars

(* A gap found by open hides no output when a process crash cut compact    *)
(* short: the snapshot then covers every frame on disk.  After a power cut *)
(* brought removed segments back it hides no frame promised durable.       *)
GapHidesNothing ==
  gap => \A i \in DOMAIN segs : \A f \in Range(segs[i].frames) :
           f.seq <= base \/ (undone /\ f.seq > durable)

(* read_live_from answers from memory exactly what read_from would find on *)
(* disk, for every tail it agrees to serve.                                *)
LiveReadsMatchDisk ==
  pc = "idle" =>
    \A from \in 0..latest : LiveReadable(from) =>
      ~HistoryUnavailable(from) /\ ReadLiveFrom(from) = ReadFrom(from)

(* sequence_bounds, kept in memory, are the bounds a full replay reports.  *)
BoundsMatchReplay ==
  pc = "idle" => /\ earliest = ScanEarliest(segs, base)
                 /\ latest = ScanLatest(segs, base)

(* total_bytes, kept by additions and subtractions across rotations,       *)
(* removals and reopens, is what is on disk, and stays within its limit.   *)
BytesAccounted ==
  pc = "idle" /\ ~gap =>
    /\ active_bytes = FileBytes(segs[active_index])
    /\ total_bytes = DiskBytes(segs)
    /\ total_bytes <= HardBytes

(* With ample segments, as the default limits have them, recording pauses  *)
(* for a gap or for the hard byte limit only: the pause that too many      *)
(* segments cause in rotate is always lifted by the compaction that        *)
(* follows it.                                                             *)
PausedOnlyAtLimit ==
  pc = "idle" /\ paused => gap \/ total_bytes + Max(FrameLens) > HardBytes

(* The journal implements the abstract log: its recovered frames are the   *)
(* log, its snapshot boundary the floor; the snapshot write alone is the   *)
(* point at which compaction takes effect, and what open finds after a     *)
(* power cut is the log or an earlier state of it.                         *)
Log == INSTANCE DurableLog WITH floor <- snap, log <- Recovered

LogSpec == Log!LogSpec
===============================================================================
