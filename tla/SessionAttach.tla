---------------------------- MODULE SessionAttach ----------------------------
(***************************************************************************)
(* Attaching to a Session Host: output_loop and serve_attach of            *)
(* multiplex-session-host, HostClient::attach with its SequenceTracker,    *)
(* GpuiAttachModel and the polling loop of the desktop's durable sessions. *)
(*                                                                         *)
(* Output travels from the program to a viewer only through the journal:   *)
(* every tick a viewer asks for what lies above its watermark, the Host    *)
(* reads the journal under its lock and answers with frames, or with a     *)
(* snapshot of the terminal where the frames are gone or too many, and     *)
(* closes the answer with its state, read later.                           *)
(*                                                                         *)
(* A piece of output is its sequence number.  A screen is the sequence of  *)
(* pieces that were applied to an empty terminal; a snapshot taken from a  *)
(* screen restores that screen.  The journal is what SessionJournal shows  *)
(* it to be, the frames above the boundary of its snapshot; the sizes of   *)
(* frames are left out, so that a frame may be the one that makes a        *)
(* compaction due or reaches the disk limit.                               *)
(***************************************************************************)
EXTENDS Integers, Sequences, FiniteSets

CONSTANTS Viewers,
          MaxRetained,      \* bound: frames of earlier Hosts in the journal
          MaxPieces,        \* bound: the last piece of output
          ReplayRecords,    \* maximum_replay_records of an attach request
          MaxRecoveries     \* MAX_VIEWER_RECOVERIES

ASSUME AttachAssumption ==
  /\ MaxRetained \in Nat
  /\ MaxPieces \in Nat
  /\ ReplayRecords \in Nat \ {0}
  /\ MaxRecoveries \in Nat

VARIABLES
  retained,   \* latest_sequence of the journal when this Host opened it
  printed,    \* pieces the program wrote, the ones in the channel included
  latest,     \* RuntimeState.latest_sequence, the last piece the parser has seen
  recorded,   \* JournalStore.latest_sequence
  base,       \* JournalStore.base_sequence, the boundary of the snapshot file
  saved,      \* the screen in the snapshot file
  torn,       \* a compaction failed after it had written its snapshot
  paused,     \* RuntimeState.recording_paused
  loop,       \* output_loop: "running", "drained", "failed"
  host,       \* "running", "exited" (the child was reaped), "gone"
  lifecycle,  \* RuntimeState.lifecycle
  phase,      \* where each viewer is
  watermark,  \* GpuiAttachModel.watermark
  screen,     \* what each viewer shows
  recoveries, \* consecutive_recoveries
  reply       \* the answer to the attach request in flight

hostVars == <<retained, printed, latest, recorded, base, saved, torn, paused, loop, host,
              lifecycle>>
viewerVars == <<phase, watermark, screen, recoveries, reply>>
vars == <<hostVars, viewerVars>>

-----------------------------------------------------------------------------
(* The pieces after m, through n. *)
Pieces(m, n) == [i \in 1..(IF n > m THEN n - m ELSE 0) |-> m + i]

(* The Host's terminal: this Host's parser began empty. *)
Parser == Pieces(retained, latest)

(* No snapshot was sent. *)
NoSnapshot == [boundary |-> -1, screen |-> <<>>]

NoReply == [snapshot |-> NoSnapshot, frames |-> <<>>, exited |-> FALSE]

(* A viewer in one of these phases is done. *)
Ended == {"exited", "retained", "gap", "offline"}

Phases == {"connecting", "idle", "asked", "served", "answered"} \cup Ended

Init ==
  /\ retained \in 0..MaxRetained
  /\ base \in 0..retained
  /\ saved = Pieces(0, base)
  /\ printed = retained
  /\ latest = retained
  /\ recorded = retained
  /\ torn = FALSE
  /\ paused \in BOOLEAN
  /\ loop = "running"
  /\ host = "running"
  /\ lifecycle = "ready"
  /\ phase = [v \in Viewers |-> "connecting"]
  /\ watermark = [v \in Viewers |-> 0]
  /\ screen = [v \in Viewers |-> <<>>]
  /\ recoveries = [v \in Viewers |-> 0]
  /\ reply = [v \in Viewers |-> NoReply]

-----------------------------------------------------------------------------
(***************************************************************************)
(* The Host.                                                               *)
(***************************************************************************)

(* The program writes a piece of output and the reader task queues it. *)
ProgramPrints ==
  /\ host = "running"
  /\ loop = "running"
  /\ printed < MaxPieces
  /\ printed' = printed + 1
  /\ UNCHANGED <<retained, latest, recorded, base, saved, torn, paused, loop, host, lifecycle,
                 viewerVars>>

(* Mistake: the snapshot is taken before the terminal has seen the piece.  *)
Compact_Early ==
  /\ base' = recorded'
  /\ saved' = Parser

(* JournalStore::compact with a snapshot of the terminal as it is now. *)
Compact ==
  /\ base' = recorded'
  /\ saved' = Pieces(retained, latest')

(* compact fails after the snapshot was written: some of the segments may  *)
(* be gone while the journal's memory still has the older boundary.        *)
CompactFails ==
  /\ loop' = "failed"
  /\ torn' = TRUE
  /\ saved' = Pieces(retained, latest')
  /\ UNCHANGED base

(* What process_output does with a piece the terminal was given: nothing   *)
(* while recording is paused or when it fails first; otherwise the frame   *)
(* is recorded, perhaps with a compaction, or the disk limit pauses the    *)
(* recording.                                                              *)
Journal ==
  \/ /\ paused \/ loop' = "failed"
     /\ UNCHANGED <<recorded, base, saved, torn, paused>>
  \/ /\ ~paused
     /\ recorded' = recorded + 1
     /\ \/ Compact /\ UNCHANGED torn
        \/ CompactFails
        \/ UNCHANGED <<base, saved, torn>>
     /\ UNCHANGED paused
  \/ /\ ~paused
     /\ paused' = TRUE
     /\ UNCHANGED <<recorded, base, saved, torn>>

(* process_output, which holds the journal's lock throughout.  An error,   *)
(* of the journal or of what follows it, ends output_loop.                 *)
ProcessOutput ==
  /\ host # "gone"
  /\ loop = "running"
  /\ latest < printed
  /\ latest' = latest + 1
  /\ loop' \in {"running", "failed"}
  /\ Journal
  /\ UNCHANGED <<retained, printed, host, lifecycle, viewerVars>>

(* run_host reaps the child and marks the session exited.  The output      *)
(* that is still in the channel is processed afterwards.                   *)
MarkExited ==
  /\ host = "running"
  /\ host' = "exited"
  /\ lifecycle' = "exited"
  /\ UNCHANGED <<retained, printed, latest, recorded, base, saved, torn, paused, loop,
                 viewerVars>>

(* The channel is closed and empty. *)
Drained ==
  /\ host = "exited"
  /\ loop = "running"
  /\ latest = printed
  /\ loop' = "drained"
  /\ UNCHANGED <<retained, printed, latest, recorded, base, saved, torn, paused, host, lifecycle,
                 viewerVars>>

(* The Host closes its connections and ends, once its output is drained    *)
(* or output_loop has failed; or it is killed.                             *)
HostEnds ==
  /\ host # "gone"
  /\ host' = "gone"
  /\ UNCHANGED <<retained, printed, latest, recorded, base, saved, torn, paused, loop, lifecycle,
                 viewerVars>>

(* load_snapshot. *)
Snapshot == [boundary |-> IF torn THEN recorded ELSE base, screen |-> saved]

(* What JournalStore::read_live_from may return for the frames above a     *)
(* boundary it takes: all of them, from memory or from the disk, or none   *)
(* where the segments that are left do not continue its boundary.          *)
ReadFrom(from) == {Pieces(from, recorded)} \cup (IF torn THEN {<<>>} ELSE {})

(* The journal's answers to serve_attach: the frames after `from', or,     *)
(* where they are gone (HistoryUnavailable), the snapshot and its tail.    *)
Readings(from) ==
  {[snapshot |-> NoSnapshot, frames |-> tail] :
     tail \in IF from >= base THEN ReadFrom(from) ELSE {}}
  \cup
  {[snapshot |-> Snapshot, frames |-> tail] :
     tail \in IF from < base \/ torn THEN ReadFrom(Snapshot.boundary) ELSE {}}

TooMany(read) == Len(read.frames) > ReplayRecords

(* Mistake: a replay over the limit is answered with nothing. *)
ReadReplay_Truncated(from) ==
  {[read EXCEPT !.frames = IF TooMany(read) THEN <<>> ELSE @] : read \in Readings(from)}

(* What serve_attach takes from the journal while it holds the lock.       *)
(* Where too many frames are left, the Host's own terminal takes their     *)
(* place.                                                                  *)
ReadReplay(from) ==
  {IF TooMany(read)
     THEN [snapshot |-> [boundary |-> recorded, screen |-> Parser], frames |-> <<>>]
     ELSE read : read \in Readings(from)}

(* serve_attach reads the journal and begins its answer. *)
ServeAttach(v) ==
  /\ host # "gone"
  /\ phase[v] = "asked"
  /\ \E read \in ReadReplay(watermark[v]) :
       reply' = [reply EXCEPT ![v] = [snapshot |-> read.snapshot, frames |-> read.frames,
                                      exited |-> FALSE]]
  /\ phase' = [phase EXCEPT ![v] = "served"]
  /\ UNCHANGED <<hostVars, watermark, screen, recoveries>>

(* send_state, after all of the frames were sent. *)
SendState(v) ==
  /\ host # "gone"
  /\ phase[v] = "served"
  /\ reply' = [reply EXCEPT ![v].exited = (lifecycle = "exited")]
  /\ phase' = [phase EXCEPT ![v] = "answered"]
  /\ UNCHANGED <<hostVars, watermark, screen, recoveries>>

-----------------------------------------------------------------------------
(***************************************************************************)
(* The viewers.                                                            *)
(***************************************************************************)

(* HostClient::connect answers. *)
Connect(v) ==
  /\ phase[v] = "connecting"
  /\ host # "gone"
  /\ phase' = [phase EXCEPT ![v] = "idle"]
  /\ UNCHANGED <<hostVars, watermark, screen, recoveries, reply>>

(* replay_retained_output: nobody holds the lease, so the viewer opens the *)
(* journal itself and shows the snapshot and all that follows.             *)
ReplayRetained(v) ==
  /\ phase[v] = "connecting"
  /\ host = "gone"
  /\ screen' = [screen EXCEPT ![v] = saved \o Pieces(Snapshot.boundary, recorded)]
  /\ watermark' = [watermark EXCEPT ![v] = recorded]
  /\ phase' = [phase EXCEPT ![v] = "retained"]
  /\ UNCHANGED <<hostVars, recoveries, reply>>

(* The viewer can neither connect nor replay. *)
ConnectFails(v) ==
  /\ phase[v] = "connecting"
  /\ phase' = [phase EXCEPT ![v] = "offline"]
  /\ UNCHANGED <<hostVars, watermark, screen, recoveries, reply>>

(* The ticker fires and HostClient::attach asks for what follows the       *)
(* watermark.                                                              *)
Tick(v) ==
  /\ phase[v] = "idle"
  /\ phase' = [phase EXCEPT ![v] = "asked"]
  /\ UNCHANGED <<hostVars, watermark, screen, recoveries, reply>>

(* Mistake: the tracker is not restarted by a snapshot. *)
TrackerStart_Kept(v) == watermark[v]

(* Where HostClient::attach expects the frames to begin: a snapshot starts *)
(* a new SequenceTracker.                                                  *)
TrackerStart(v) ==
  IF reply[v].snapshot = NoSnapshot THEN watermark[v] ELSE reply[v].snapshot.boundary

(* SequenceTracker::observe accepts every frame. *)
Contiguous(v) ==
  \A i \in DOMAIN reply[v].frames : reply[v].frames[i] = TrackerStart(v) + i

(* HostClient::attach takes no snapshot older than what it asked for. *)
SnapshotTooOld(v) ==
  reply[v].snapshot # NoSnapshot /\ reply[v].snapshot.boundary < watermark[v]

(* The frames GpuiAttachModel::observe_output delivers: those the model    *)
(* has seen, which are the first ones, are dropped.                        *)
Seen(v) == {i \in DOMAIN reply[v].frames : reply[v].frames[i] <= TrackerStart(v)}

Delivered(v) == SubSeq(reply[v].frames, Cardinality(Seen(v)) + 1, Len(reply[v].frames))

(* GpuiAttachModel.watermark after the answer. *)
Advanced(v) == TrackerStart(v) + Len(Delivered(v))

(* The screen after the answer: a snapshot replaces it, each frame is      *)
(* written to it.                                                          *)
Painted(v) ==
  (IF reply[v].snapshot = NoSnapshot THEN screen[v] ELSE reply[v].snapshot.screen)
    \o Delivered(v)

(* What the answer comes to: the client rejects it, or the loop goes on,   *)
(* or the session has exited and the viewer stops.                         *)
Outcome(v) ==
  CASE SnapshotTooOld(v) -> "offline"
    [] ~SnapshotTooOld(v) /\ ~Contiguous(v) -> "gap"
    [] OTHER -> IF reply[v].exited THEN "exited" ELSE "idle"

Accepted(v) == Outcome(v) \in {"exited", "idle"}

(* The client has read the whole answer; only now is any of it shown.      *)
Receive(v) ==
  /\ phase[v] = "answered"
  /\ phase' = [phase EXCEPT ![v] = Outcome(v)]
  /\ watermark' = [watermark EXCEPT ![v] = IF Accepted(v) THEN Advanced(v) ELSE @]
  /\ screen' = [screen EXCEPT ![v] = IF Accepted(v) THEN Painted(v) ELSE @]
  /\ recoveries' = [recoveries EXCEPT ![v] = IF Accepted(v) THEN 0 ELSE @]
  /\ reply' = [reply EXCEPT ![v] = NoReply]
  /\ UNCHANGED hostVars

(* Mistake: a fresh connection asks for everything again. *)
Recover_FromZero(v) ==
  /\ phase[v] \in {"idle", "asked", "served", "answered"}
  /\ host # "gone"
  /\ recoveries[v] < MaxRecoveries
  /\ recoveries' = [recoveries EXCEPT ![v] = @ + 1]
  /\ phase' = [phase EXCEPT ![v] = "idle"]
  /\ watermark' = [watermark EXCEPT ![v] = 0]
  /\ reply' = [reply EXCEPT ![v] = NoReply]
  /\ UNCHANGED <<hostVars, screen>>

(* The connection ends or the attach times out.  What was read of the      *)
(* answer is dropped, and the viewer asks again over a fresh connection to *)
(* the same Host, from the watermark it has, a few times.                  *)
Recover(v) ==
  /\ phase[v] \in {"idle", "asked", "served", "answered"}
  /\ host # "gone"
  /\ recoveries[v] < MaxRecoveries
  /\ recoveries' = [recoveries EXCEPT ![v] = @ + 1]
  /\ phase' = [phase EXCEPT ![v] = "idle"]
  /\ reply' = [reply EXCEPT ![v] = NoReply]
  /\ UNCHANGED <<hostVars, watermark, screen>>

(* The connection ends and is not recovered. *)
GiveUp(v) ==
  /\ phase[v] \in {"idle", "asked", "served", "answered"}
  /\ phase' = [phase EXCEPT ![v] = "offline"]
  /\ reply' = [reply EXCEPT ![v] = NoReply]
  /\ UNCHANGED <<hostVars, watermark, screen, recoveries>>

(* The Host is gone and the client waits for an answer: it reads the end   *)
(* of the stream.                                                          *)
EndOfStream(v) ==
  /\ host = "gone"
  /\ phase[v] \in {"asked", "served"}
  /\ GiveUp(v)

HostNext == ProgramPrints \/ ProcessOutput \/ MarkExited \/ Drained \/ HostEnds

ViewerNext(v) ==
  \/ Connect(v)
  \/ ReplayRetained(v)
  \/ ConnectFails(v)
  \/ Tick(v)
  \/ ServeAttach(v)
  \/ SendState(v)
  \/ Receive(v)
  \/ Recover(v)
  \/ GiveUp(v)

Next == HostNext \/ \E v \in Viewers : ViewerNext(v)

(* The ticker of a viewer fires, tokio's locks are fair, and what was sent *)
(* is read or the end of the stream is.  Nothing is assumed of the         *)
(* program, the output loop or the failures.                               *)
Fairness ==
  \A v \in Viewers :
    /\ WF_vars(Connect(v) \/ ReplayRetained(v) \/ ConnectFails(v))
    /\ WF_vars(Tick(v))
    /\ WF_vars(ServeAttach(v))
    /\ WF_vars(SendState(v))
    /\ WF_vars(Receive(v))
    /\ WF_vars(EndOfStream(v))

Spec == Init /\ [][Next]_vars

FairSpec == Spec /\ Fairness

-----------------------------------------------------------------------------
(***************************************************************************)
(* Properties.                                                             *)
(***************************************************************************)

(* Recording has stopped: the terminal goes on and the journal does not. *)
Stopped == paused \/ loop = "failed"

(* A screen that stands for all output of this Host through piece n: it    *)
(* began at or before this Host's first piece and has every piece since,   *)
(* once and in order.                                                      *)
StandsFor(s, n) == \E lo \in 0..retained : s = Pieces(lo, n)

Replies == [snapshot : [boundary : Nat \cup {-1}, screen : Seq(Nat)], frames : Seq(Nat),
            exited : BOOLEAN]

(* Every variable has its type. *)
TypeOK ==
  /\ retained \in Nat /\ printed \in Nat /\ latest \in Nat /\ recorded \in Nat /\ base \in Nat
  /\ saved \in Seq(Nat)
  /\ torn \in BOOLEAN /\ paused \in BOOLEAN
  /\ loop \in {"running", "drained", "failed"}
  /\ host \in {"running", "exited", "gone"} /\ lifecycle \in {"ready", "exited"}
  /\ phase \in [Viewers -> Phases] /\ watermark \in [Viewers -> Nat]
  /\ screen \in [Viewers -> Seq(Nat)] /\ recoveries \in [Viewers -> Nat]
  /\ reply \in [Viewers -> Replies]

(* The journal has what the terminal was given until recording stops, and  *)
(* the snapshot file stands for what its boundary says.                    *)
JournalInv ==
  /\ base <= recorded /\ retained <= recorded /\ recorded <= latest
  /\ latest = recorded \/ Stopped
  /\ torn => loop = "failed" /\ latest = recorded
  /\ StandsFor(saved, Snapshot.boundary)

(* A screen that stands for n at the boundary, or runs ahead of it when    *)
(* recording has stopped there.                                            *)
Current(s, boundary) ==
  \/ StandsFor(s, boundary)
  \/ Stopped /\ boundary = recorded /\ \E n \in boundary..latest : StandsFor(s, n)

(* A viewer shows what its watermark says, or runs ahead of a journal that *)
(* has stopped.                                                            *)
ViewerInv ==
  \A v \in Viewers :
    /\ watermark[v] <= recorded
    /\ Current(screen[v], watermark[v])
    /\ phase[v] = "connecting" => screen[v] = <<>> /\ watermark[v] = 0
    /\ phase[v] # "gap"

(* The answer on its way continues what the viewer shows, however much is  *)
(* recorded, compacted or stopped before it arrives; one that runs ahead   *)
(* brings no frames.                                                       *)
ReplyInv ==
  \A v \in Viewers : phase[v] \in {"served", "answered"} =>
    /\ watermark[v] <= TrackerStart(v)
    /\ \E m \in TrackerStart(v)..recorded : reply[v].frames = Pieces(TrackerStart(v), m)
    /\ \/ StandsFor(screen[v], watermark[v])
       \/ reply[v].snapshot = NoSnapshot /\ reply[v].frames = <<>>
    /\ reply[v].snapshot # NoSnapshot =>
         \/ StandsFor(reply[v].snapshot.screen, TrackerStart(v))
         \/ Current(reply[v].snapshot.screen, TrackerStart(v)) /\ reply[v].frames = <<>>

AttachInv == TypeOK /\ JournalInv /\ ViewerInv /\ ReplyInv

(* The piece a screen stands for; -1 when it stands for none. *)
Shown(v) ==
  IF \E n \in watermark[v]..latest : StandsFor(screen[v], n)
  THEN CHOOSE n \in watermark[v]..latest :
         /\ StandsFor(screen[v], n)
         /\ \A m \in watermark[v]..latest : StandsFor(screen[v], m) => n <= m
  ELSE -1

(* However replays, compactions, replay limits, pauses, lost connections   *)
(* and retries follow each other, what a viewer shows is the Host's output *)
(* up to its watermark with no piece missing, repeated or out of order;    *)
(* it runs ahead of the watermark only when recording has stopped, and     *)
(* then no frame will repeat what it shows.                                *)
ScreenCoherent ==
  \A v \in Viewers :
    /\ watermark[v] <= recorded
    /\ \/ StandsFor(screen[v], watermark[v])
       \/ Stopped /\ watermark[v] = recorded /\ Shown(v) # -1

(* A viewer is never turned away with a gap in the output of the Host it   *)
(* is attached to, whatever compaction removed and however far it fell     *)
(* behind.                                                                 *)
NeverGap == \A v \in Viewers : phase[v] # "gap"

(* The view every attached viewer has is that of TerminalView. *)
View == INSTANCE TerminalView WITH output <- latest, shown <- [v \in Viewers |-> Shown(v)]

(* Attaching implements TerminalView: a viewer only moves forward along    *)
(* the output, never past it, with nothing skipped.                        *)
ViewSpec == View!ViewSpec

(* A viewer that goes on polling gets to everything that was recorded, or  *)
(* it was told that the session exited or that the Host cannot be reached, *)
(* unless a compaction failed halfway (read_live_from, serve_attach and    *)
(* the poll of attach_loop).                                               *)
CaughtUp ==
  \A v \in Viewers : \A n \in 1..MaxPieces :
    (recorded >= n) ~> (watermark[v] >= n \/ phase[v] \in Ended \ {"gap"} \/ torn)
==============================================================================
