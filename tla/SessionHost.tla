----------------------------- MODULE SessionHost -----------------------------
(***************************************************************************)
(* The tasks of one Session Host process from the moment it is ready to    *)
(* its end: the watcher run_host, the PTY reader, output_loop, the         *)
(* heartbeat that writes host.json, accept_loop, and the connections that  *)
(* ask the Host to stop (multiplex-session-host/src/host.rs).              *)
(*                                                                         *)
(* The tasks run on several threads, so every await and every lock is a    *)
(* place where another task may run.  Time is not modelled: a timeout may  *)
(* fire as soon as what it bounds is being waited for.                     *)
(***************************************************************************)
EXTENDS Naturals, Sequences, FiniteSets, MutationCache

CONSTANTS
  Clients,          \* the connections, each used again after it ended
  Ids,              \* the command ids of the clients' requests
  Asks,             \* the kinds of requests each client makes
  ChannelFrames,    \* PTY_CHANNEL_FRAMES
  MaxOutput,        \* bound: chunks the child and its descendants write
  MaxSends,         \* bound: requests all clients send
  MaxTicks,         \* bound: heartbeats
  MaxFaults,        \* bound: calls that fail or requests that are malformed
  None              \* no connection

Kinds == {"graceful", "force", "other"}

ASSUME HostAssumption ==
  /\ None \notin Clients
  /\ Asks \in [Clients -> SUBSET Kinds]
  /\ ChannelFrames \in Nat \ {0}
  /\ MaxOutput \in Nat
  /\ MaxSends \in Nat
  /\ MaxTicks \in Nat
  /\ MaxFaults \in Nat

VARIABLES
  child,      \* the group leader: running, ended (not yet reaped), reaped
  killed,     \* SIGKILL has been sent to its group
  slave,      \* whether some process still has the PTY's slave side open
  unread,     \* chunks in the kernel's PTY buffer
  written,    \* chunks ever written to the PTY
  reader,     \* the blocking reader task: reading, done, failed
  queue,      \* chunks in the output channel
  output,     \* output_loop: running, done, failed
  processed,  \* latest_sequence, counted from the start of this Host
  prompted,   \* last_prompt_output_sequence
  activity,   \* the state of RuntimeState::activity
  lifecycle,  \* RuntimeState::lifecycle
  exited,     \* RuntimeState::exited
  disk,       \* host.json
  hb,         \* heartbeat_loop, with the values it has read for host.json
  main,       \* where run_host is
  why,        \* how wait_for_stop_response ended
  cancel,     \* the handle's token
  closing,    \* child_cancel was cancelled by run_host
  server,     \* accept_loop: accepting, done, failed
  pc,         \* where each connection's handler is
  req,        \* the request each connection carries
  reply,      \* what the client of each connection has seen of it
  lock,       \* who holds the idempotency mutex
  outcomes,   \* the MutationCache under it
  requested,  \* StopResponse::requested
  answered,   \* StopResponse::answered
  sends,      \* requests sent
  ticks,      \* heartbeats
  faults,     \* faults
  up          \* the Host process is there

childVars == <<child, killed, slave, unread, written>>
outVars   == <<reader, queue, output, processed, prompted>>
metaVars  == <<activity, lifecycle, exited, disk, hb>>
mainVars  == <<main, why, cancel, closing, up>>
connVars  == <<server, pc, req, reply, lock, outcomes, requested, answered, sends>>
bounds    == <<ticks, faults>>
vars      == <<childVars, outVars, metaVars, mainVars, connVars, bounds>>

Request   == [id : Ids \cup {None}, kind : Kinds]
Signalled == {"interrupt", "terminate", "kill"}
Answering == {"answer", "refuse", "conflict"}
Holding   == Signalled \cup {"marking", "applying", "answer", "conflict"}
Watching  == {"watching", "killing"}
Metadata  == [lifecycle : {"Ready", "Stopping", "Exited"},
              activity : {"unknown", "busy", "idle", "done"},
              seq : Nat]

ChildOK ==
  /\ child \in {"running", "ended", "reaped"}
  /\ killed \in BOOLEAN /\ slave \in BOOLEAN
  /\ unread \in Nat /\ written \in Nat

OutputOK ==
  /\ reader \in {"reading", "done", "failed"}
  /\ queue \in 0..ChannelFrames
  /\ output \in {"running", "done", "failed"}
  /\ processed \in Nat /\ prompted \in Nat

MetadataOK ==
  /\ activity \in {"unknown", "busy", "idle", "done"}
  /\ lifecycle \in {"Ready", "Stopping", "Exited"}
  /\ exited \in BOOLEAN
  /\ disk \in Metadata
  /\ hb \in [pc : {"idle", "tick", "write", "done", "failed"}, copy : Metadata]

MainOK ==
  /\ main \in Watching \cup {"reaped", "exiting", "answering", "grace", "owed", "draining",
                             "evidence", "record", "cancelling", "closing", "done", "failed"}
  /\ why \in {"unknown", "nobody", "grace", "answered", "deadline"}
  /\ cancel \in BOOLEAN /\ closing \in BOOLEAN /\ up \in BOOLEAN

ConnectionsOK ==
  /\ server \in {"accepting", "done", "failed"}
  /\ pc \in [Clients -> {"off", "open", "waiting", "marking", "applying"} \cup Signalled \cup Answering]
  /\ req \in [Clients -> Request]
  /\ reply \in [Clients -> {"none", "sent", "ok", "error", "closed"}]
  /\ lock \in Clients \cup {None}
  /\ outcomes \in Seq([id : Ids \cup {None}, hash : Kinds])
  /\ requested \in BOOLEAN /\ answered \in BOOLEAN
  /\ sends \in Nat

TypeOK == ChildOK /\ OutputOK /\ MetadataOK /\ MainOK /\ ConnectionsOK /\ ticks \in Nat /\ faults \in Nat

(* The first host.json, and a heartbeat that holds no copy of anything.    *)
Fresh == [lifecycle |-> "Ready", activity |-> "unknown", seq |-> 0]

Resting(where) == [pc |-> where, copy |-> Fresh]

(* start_with_cancel has written host.json as Ready and spawned run_host. *)
Init ==
  /\ child = "running" /\ killed = FALSE /\ slave = TRUE /\ unread = 0 /\ written = 0
  /\ reader = "reading" /\ queue = 0 /\ output = "running" /\ processed = 0 /\ prompted = 0
  /\ activity = "unknown" /\ lifecycle = "Ready" /\ exited = FALSE
  /\ disk = Fresh
  /\ hb = Resting("idle")
  /\ main = "watching" /\ why = "unknown" /\ cancel = FALSE /\ closing = FALSE /\ up = TRUE
  /\ server = "accepting"
  /\ pc = [c \in Clients |-> "off"]
  /\ req = [c \in Clients |-> [id |-> None, kind |-> "other"]]
  /\ reply = [c \in Clients |-> "none"]
  /\ lock = None /\ outcomes = <<>> /\ requested = FALSE /\ answered = FALSE /\ sends = 0 /\ ticks = 0 /\ faults = 0

-----------------------------------------------------------------------------
(* The child, its descendants and the handle's owner.                      *)

(* The child, or a descendant that outlives it, writes to the terminal.    *)
Write ==
  /\ slave /\ written < MaxOutput
  /\ written' = written + 1 /\ unread' = unread + 1
  /\ UNCHANGED <<bounds, child, killed, slave, outVars, metaVars, mainVars, connVars>>

ChildEnds ==
  /\ child = "running"
  /\ child' = "ended"
  /\ UNCHANGED <<bounds, killed, slave, unread, written, outVars, metaVars, mainVars, connVars>>

(* The last process of the session closes the slave side.                  *)
SlaveCloses ==
  /\ child # "running" /\ slave
  /\ slave' = FALSE
  /\ UNCHANGED <<bounds, child, killed, unread, written, outVars, metaVars, mainVars, connVars>>

(* shutdown, stop_when_owner_exits, or the handle is dropped.              *)
CancelHost ==
  /\ up /\ ~cancel
  /\ cancel' = TRUE
  /\ UNCHANGED <<bounds, main, why, closing, up, childVars, outVars, metaVars, connVars>>

(* child_cancel is a child token of the handle's.                          *)
Cancelled == cancel \/ closing

(* A call that fails.                                                      *)
Fault == faults < MaxFaults /\ faults' = faults + 1 /\ UNCHANGED ticks

-----------------------------------------------------------------------------
(* Output: the reader task and output_loop.                                *)

(* Once output_loop has ended, the channel refuses what the reader sends.  *)
ReadPty ==
  /\ up /\ reader = "reading" /\ unread > 0
  /\ unread' = unread - 1
  /\ \/ /\ output = "running" /\ queue < ChannelFrames
        /\ queue' = queue + 1
        /\ UNCHANGED reader
     \/ /\ output # "running"
        /\ reader' = "done"
        /\ UNCHANGED queue
  /\ UNCHANGED <<bounds, child, killed, slave, written, output, processed, prompted, metaVars, mainVars, connVars>>

ReadEof ==
  /\ up /\ reader = "reading" /\ unread = 0 /\ ~slave
  /\ reader' = "done"
  /\ UNCHANGED <<bounds, childVars, queue, output, processed, prompted, metaVars, mainVars, connVars>>

ReadFails ==
  /\ up /\ reader = "reading"
  /\ reader' = "failed"
  /\ Fault
  /\ UNCHANGED <<childVars, queue, output, processed, prompted, metaVars, mainVars, connVars>>

(* process_output: the sequence number, the journal, the activity evidence. *)
ProcessOutput ==
  /\ up /\ output = "running" /\ queue > 0
  /\ queue' = queue - 1
  /\ processed' = processed + 1
  /\ activity' = "busy"
  /\ UNCHANGED <<bounds, childVars, reader, output, prompted, lifecycle, exited, disk, hb, mainVars, connVars>>

(* The journal could not be written: output_loop ends and so does reading. *)
ProcessOutputFails ==
  /\ up /\ output = "running" /\ queue > 0
  /\ queue' = 0
  /\ processed' = processed + 1
  /\ output' = "failed"
  /\ Fault
  /\ UNCHANGED <<childVars, reader, prompted, metaVars, mainVars, connVars>>

OutputEnds ==
  /\ up /\ output = "running" /\ queue = 0 /\ reader # "reading"
  /\ output' = "done"
  /\ UNCHANGED <<bounds, childVars, reader, queue, processed, prompted, metaVars, mainVars, connVars>>

-----------------------------------------------------------------------------
(* heartbeat_loop.  What it writes was read before: the copy.              *)

HeartbeatTick ==
  /\ up /\ hb.pc = "idle" /\ ~Cancelled
  /\ hb' = Resting("tick") /\ ticks < MaxTicks /\ ticks' = ticks + 1
  /\ UNCHANGED <<faults, childVars, outVars, activity, lifecycle, exited, disk, mainVars, connVars>>

(* observe_quiet_prompt: a prompt on a screen that has been quiet.  The     *)
(* evidence is numbered as it is submitted, and the highest number wins.    *)
ObserveQuietPrompt ==
  /\ up /\ hb.pc = "tick"
  /\ processed # 0 /\ prompted # processed
  /\ prompted' = processed
  /\ activity' = "idle"
  /\ UNCHANGED <<bounds, childVars, reader, queue, output, processed, lifecycle, exited, disk, hb, mainVars, connVars>>

(* Journal synced, activity and lifecycle read.                             *)
HeartbeatRead ==
  /\ up /\ hb.pc = "tick"
  /\ hb' = [pc |-> "write", copy |-> [lifecycle |-> lifecycle, activity |-> activity, seq |-> processed]]
  /\ UNCHANGED <<bounds, childVars, outVars, activity, lifecycle, exited, disk, mainVars, connVars>>

(* The rename that ends lease.write_metadata. *)
HeartbeatWrite ==
  /\ up /\ hb.pc = "write"
  /\ disk' = hb.copy
  /\ hb' = Resting("idle")
  /\ UNCHANGED <<bounds, childVars, outVars, activity, lifecycle, exited, mainVars, connVars>>

(* The journal's sync or the write of host.json failed.                     *)
HeartbeatFails ==
  /\ up /\ hb.pc \in {"tick", "write"}
  /\ hb' = Resting("failed")
  /\ Fault
  /\ UNCHANGED <<childVars, outVars, activity, lifecycle, exited, disk, mainVars, connVars>>

HeartbeatEnds ==
  /\ up /\ hb.pc = "idle" /\ Cancelled
  /\ hb' = Resting("done")
  /\ UNCHANGED <<bounds, childVars, outVars, activity, lifecycle, exited, disk, mainVars, connVars>>

-----------------------------------------------------------------------------
(* run_host.                                                               *)

WatchExit ==
  /\ up /\ main = "watching" /\ ~cancel /\ child = "ended"
  /\ child' = "reaped"
  /\ main' = "reaped"
  /\ UNCHANGED <<bounds, killed, slave, unread, written, outVars, metaVars, why, cancel, closing, up, connVars>>

(* The Host is told to end: the child's group is killed.                   *)
WatchCancel ==
  /\ up /\ main = "watching" /\ cancel
  /\ killed' = TRUE
  /\ main' = "killing"
  /\ UNCHANGED <<bounds, child, slave, unread, written, outVars, metaVars, why, cancel, closing, up, connVars>>

(* Mutant: a child that was sent SIGKILL counts as ended. *)
WaitKilled_Unreaped ==
  /\ up /\ main = "killing"
  /\ UNCHANGED child
  /\ main' = "reaped"
  /\ UNCHANGED <<bounds, killed, slave, unread, written, outVars, metaVars, why, cancel, closing, up, connVars>>

WaitKilled ==
  /\ up /\ main = "killing" /\ child = "ended"
  /\ child' = "reaped"
  /\ main' = "reaped"
  /\ UNCHANGED <<bounds, killed, slave, unread, written, outVars, metaVars, why, cancel, closing, up, connVars>>

(* mark_exited: first the flag, ...                                        *)
MarkExited ==
  /\ up /\ main = "reaped"
  /\ exited' = TRUE
  /\ main' = "exiting"
  /\ UNCHANGED <<bounds, childVars, outVars, activity, lifecycle, disk, hb, why, cancel, closing, up, connVars>>

(* ... then the lifecycle, behind its own lock, and exit_notify.           *)
NoteExited ==
  /\ up /\ main = "exiting"
  /\ lifecycle' = "Exited"
  /\ main' = "answering"
  /\ UNCHANGED <<bounds, childVars, outVars, activity, exited, disk, hb, why, cancel, closing, up, connVars>>

Connected == \E c \in Clients : pc[c] # "off"

WaitEnds(reason) == main' = "draining" /\ why' = reason

(* wait_for_stop_response and StopResponse::wait.                          *)
WaitForStopResponse ==
  /\ up /\ main = "answering"
  /\ \/ answered /\ WaitEnds("answered")
     \/ ~answered /\ ~requested /\ ~Connected /\ WaitEnds("nobody")
     \/ ~answered /\ ~requested /\ Connected /\ main' = "grace" /\ UNCHANGED why
     \/ ~answered /\ requested /\ main' = "owed" /\ UNCHANGED why
  /\ UNCHANGED <<bounds, childVars, outVars, metaVars, cancel, closing, up, connVars>>

(* A request read within STOP_REQUEST_GRACE counts.                        *)
WaitGrace ==
  /\ up /\ main = "grace"
  /\ \/ requested /\ main' = "owed" /\ UNCHANGED why
     \/ ~requested /\ WaitEnds("grace")
  /\ UNCHANGED <<bounds, childVars, outVars, metaVars, cancel, closing, up, connVars>>

(* Until the guard is dropped, or STOP_RESPONSE_DEADLINE.                  *)
WaitOwed ==
  /\ up /\ main = "owed"
  /\ \/ answered /\ WaitEnds("answered")
     \/ ~answered /\ WaitEnds("deadline")
  /\ UNCHANGED <<bounds, childVars, outVars, metaVars, cancel, closing, up, connVars>>

(* Mutant: output_loop is not joined. *)
JoinOutput_Unjoined ==
  /\ up /\ main = "draining"
  /\ main' = "evidence"
  /\ UNCHANGED <<bounds, childVars, outVars, metaVars, why, cancel, closing, up, connVars>>

(* join_task(output_task) ended well; the process exit is evidence now.     *)
JoinOutput ==
  /\ up /\ main = "draining" /\ output = "done"
  /\ main' = "evidence"
  /\ UNCHANGED <<bounds, childVars, outVars, metaVars, why, cancel, closing, up, connVars>>

SubmitExit ==
  /\ up /\ main = "evidence"
  /\ activity' = "done"
  /\ main' = "record"
  /\ UNCHANGED <<bounds, childVars, outVars, lifecycle, exited, disk, hb, why, cancel, closing, up, connVars>>

RecordExit ==
  /\ up /\ main = "record"
  /\ disk' = [lifecycle |-> "Exited", activity |-> activity, seq |-> processed]
  /\ main' = "cancelling"
  /\ UNCHANGED <<bounds, childVars, outVars, activity, lifecycle, exited, hb, why, cancel, closing, up, connVars>>

CancelTasks ==
  /\ up /\ main = "cancelling"
  /\ closing' = TRUE
  /\ main' = "closing"
  /\ UNCHANGED <<bounds, childVars, outVars, metaVars, why, cancel, up, connVars>>

(* The server, the heartbeat and the reader are joined in turn.             *)
JoinTasks ==
  /\ up /\ main = "closing"
  /\ server = "done" /\ hb.pc = "done" /\ reader = "done"
  /\ main' = "done"
  /\ UNCHANGED <<bounds, childVars, outVars, metaVars, why, cancel, closing, up, connVars>>

(* The child cannot be watched, killed or reaped, or host.json not written.  *)
MainFails ==
  /\ up /\ main \in {"watching", "killing", "record"}
  /\ main' = "failed"
  /\ Fault
  /\ UNCHANGED <<childVars, outVars, metaVars, why, cancel, closing, up, connVars>>

(* Mutant: the join of output_loop has no deadline. *)
JoinFails_Patient ==
  /\ up
  /\ \/ main = "killing" /\ child # "ended"
     \/ main = "closing" /\ ~(server = "done" /\ hb.pc = "done" /\ reader = "done")
  /\ main' = "failed"
  /\ UNCHANGED <<bounds, childVars, outVars, metaVars, why, cancel, closing, up, connVars>>

(* TASK_JOIN_DEADLINE: the killed child is not reaped in time, or a task     *)
(* failed or is not joined in time.                                          *)
JoinFails ==
  /\ up
  /\ \/ main = "killing" /\ child # "ended"
     \/ main = "draining" /\ output # "done"
     \/ main = "closing" /\ ~(server = "done" /\ hb.pc = "done" /\ reader = "done")
  /\ main' = "failed"
  /\ UNCHANGED <<bounds, childVars, outVars, metaVars, why, cancel, closing, up, connVars>>

(* main returns and the process ends, with whatever its tasks were doing.    *)
ProcessEnds ==
  /\ up /\ main \in {"done", "failed"}
  /\ up' = FALSE
  /\ pc' = [c \in Clients |-> "off"]
  /\ reply' = [c \in Clients |-> IF reply[c] = "sent" THEN "closed" ELSE reply[c]]
  /\ lock' = None
  /\ UNCHANGED <<bounds, childVars, outVars, metaVars, main, why, cancel, closing,
                 server, req, outcomes, requested, answered, sends>>

-----------------------------------------------------------------------------
(* A connection and its client: serve_connection, for the requests that    *)
(* change state under the idempotency mutex.                               *)

IsStop(c) == req[c].kind # "other"

(* The handler holds a StopResponseGuard, or the mutex.                    *)
Owed(c)  == IsStop(c) /\ pc[c] \notin {"off", "open"}

(* The handler leaves the request: its guards are dropped.                 *)
Leave(c, next, seen) ==
  /\ pc' = [pc EXCEPT ![c] = next]
  /\ reply' = [reply EXCEPT ![c] = seen]
  /\ lock' = IF lock = c THEN None ELSE lock
  /\ answered' = (answered \/ Owed(c))

Unanswered(c) == IF reply[c] = "sent" THEN "closed" ELSE reply[c]

(* Accepted, and the handshake done.                                       *)
Connect(c) ==
  /\ up /\ server = "accepting" /\ ~Cancelled /\ pc[c] = "off"
  /\ pc' = [pc EXCEPT ![c] = "open"]
  /\ reply' = [reply EXCEPT ![c] = "none"]
  /\ UNCHANGED <<bounds, childVars, outVars, metaVars, mainVars, server, req, lock, outcomes, requested, answered, sends>>

Send(c, id, kind) ==
  /\ up /\ pc[c] = "open" /\ reply[c] # "sent" /\ sends < MaxSends
  /\ req' = [req EXCEPT ![c] = [id |-> id, kind |-> kind]]
  /\ reply' = [reply EXCEPT ![c] = "sent"]
  /\ sends' = sends + 1
  /\ UNCHANGED <<bounds, childVars, outVars, metaVars, mainVars, server, pc, lock, outcomes, requested, answered>>

(* A stop is owed an answer from here on (StopResponse::begin).             *)
ReadRequest(c) ==
  /\ up /\ pc[c] = "open" /\ reply[c] = "sent" /\ ~Cancelled
  /\ pc' = [pc EXCEPT ![c] = "waiting"]
  /\ requested' = (requested \/ IsStop(c))
  /\ UNCHANGED <<bounds, childVars, outVars, metaVars, mainVars, server, req, reply, lock, outcomes, answered, sends>>

(* The command id does not decode, or is not the envelope's request id.     *)
Malformed(c) ==
  /\ up /\ pc[c] = "waiting"
  /\ Leave(c, "off", "closed")
  /\ Fault
  /\ UNCHANGED <<childVars, outVars, metaVars, mainVars, server, req, outcomes, requested, sends>>

(* Mutant: the mutex is not waited for. *)
Inspected_Unlocked(c) ==
  /\ up /\ pc[c] = "waiting"
  /\ lock' = c
  /\ LET decision == Inspect(outcomes, req[c].id, req[c].kind)
         stopped  == decision = "apply" /\ IsStop(c) /\ exited
     IN  /\ pc' = [pc EXCEPT ![c] = IF decision = "conflict" THEN "conflict"
                                      ELSE IF decision = "replay" \/ stopped THEN "answer"
                                      ELSE IF IsStop(c) THEN "marking" ELSE "applying"]
         /\ outcomes' = IF stopped THEN Recorded(outcomes, req[c].id, req[c].kind) ELSE outcomes
  /\ UNCHANGED <<bounds, childVars, outVars, metaVars, mainVars, server, req, reply, requested, answered, sends>>

(* The mutex is taken and the cache inspected.  stop_owned answers at once  *)
(* for a child that has exited.                                             *)
Inspected(c) ==
  /\ up /\ pc[c] = "waiting" /\ lock = None
  /\ lock' = c
  /\ LET decision == Inspect(outcomes, req[c].id, req[c].kind)
         stopped  == decision = "apply" /\ IsStop(c) /\ exited
     IN  /\ pc' = [pc EXCEPT ![c] = IF decision = "conflict" THEN "conflict"
                                      ELSE IF decision = "replay" \/ stopped THEN "answer"
                                      ELSE IF IsStop(c) THEN "marking" ELSE "applying"]
         /\ outcomes' = IF stopped THEN Recorded(outcomes, req[c].id, req[c].kind) ELSE outcomes
  /\ UNCHANGED <<bounds, childVars, outVars, metaVars, mainVars, server, req, reply, requested, answered, sends>>

(* Another mutation took effect.  An input blocks the handler in write_all,  *)
(* under the mutex and without a deadline, until the child reads it.         *)
Applied(c) ==
  /\ up /\ pc[c] = "applying"
  /\ pc' = [pc EXCEPT ![c] = "answer"]
  /\ outcomes' = Recorded(outcomes, req[c].id, req[c].kind)
  /\ UNCHANGED <<bounds, childVars, outVars, metaVars, mainVars, server, req, reply, lock, requested, answered, sends>>

(* Another mutation that could not be applied ends its connection.           *)
ApplyFails(c) ==
  /\ up /\ pc[c] = "applying"
  /\ Leave(c, "off", "closed")
  /\ Fault
  /\ UNCHANGED <<childVars, outVars, metaVars, mainVars, server, req, outcomes, requested, sends>>

(* The group is sent a signal, and the handler waits for the exit; or the    *)
(* signal failed, the mutex is dropped and the stop refused.                  *)
Signal(c, signal) ==
  \/ /\ pc' = [pc EXCEPT ![c] = signal]
     /\ killed' = (killed \/ signal = "kill")
     /\ UNCHANGED <<lock, bounds>>
  \/ /\ pc' = [pc EXCEPT ![c] = "refuse"]
     /\ lock' = None
     /\ Fault
     /\ UNCHANGED killed

(* The child had not exited when it was looked at.                            *)
StopOwned(c) ==
  /\ up /\ pc[c] = "marking"
  /\ lifecycle' = "Stopping"
  /\ Signal(c, IF req[c].kind = "force" THEN "kill" ELSE "interrupt")
  /\ UNCHANGED <<child, slave, unread, written, outVars, activity, exited, disk, hb, mainVars,
                 server, req, reply, outcomes, requested, answered, sends>>

(* Mutant: a stop succeeds though the wait for the exit did not. *)
WaitForExit_Ignored(c) ==
  /\ up /\ pc[c] \in Signalled
  /\ pc' = [pc EXCEPT ![c] = "answer"]
  /\ outcomes' = Recorded(outcomes, req[c].id, req[c].kind)
  /\ UNCHANGED <<bounds, childVars, outVars, metaVars, mainVars, server, req, reply, lock, requested, answered, sends>>

WaitForExit(c) ==
  /\ up /\ pc[c] \in Signalled /\ exited
  /\ pc' = [pc EXCEPT ![c] = "answer"]
  /\ outcomes' = Recorded(outcomes, req[c].id, req[c].kind)
  /\ UNCHANGED <<bounds, childVars, outVars, metaVars, mainVars, server, req, reply, lock, requested, answered, sends>>

(* Mutant: nothing follows SIGTERM. *)
Escalate_Stuck(c) ==
  /\ up
  /\ \/ pc[c] = "interrupt" /\ Signal(c, "terminate")
     \/ /\ pc[c] = "kill"
        /\ pc' = [pc EXCEPT ![c] = "refuse"]
        /\ lock' = None
        /\ UNCHANGED <<killed, bounds>>
  /\ UNCHANGED <<child, slave, unread, written, outVars, metaVars, mainVars,
                 server, req, reply, outcomes, requested, answered, sends>>

(* The window of one signal is over: the next one, and after SIGKILL none.    *)
Escalate(c) ==
  /\ up
  /\ \/ pc[c] = "interrupt" /\ Signal(c, "terminate")
     \/ pc[c] = "terminate" /\ Signal(c, "kill")
     \/ /\ pc[c] = "kill"
        /\ pc' = [pc EXCEPT ![c] = "refuse"]
        /\ lock' = None
        /\ UNCHANGED <<killed, bounds>>
  /\ UNCHANGED <<child, slave, unread, written, outVars, metaVars, mainVars,
                 server, req, reply, outcomes, requested, answered, sends>>

(* The answer is written before the mutex and the guard are dropped; an error *)
(* answer is the connection's last.                                           *)
Answer(c) ==
  /\ up /\ ~Cancelled /\ server # "failed"
  /\ \/ pc[c] = "answer" /\ Leave(c, "open", "ok")
     \/ pc[c] \in {"refuse", "conflict"} /\ Leave(c, "off", "error")
  /\ UNCHANGED <<bounds, childVars, outVars, metaVars, mainVars, server, req, outcomes, requested, sends>>

(* A read or a write finds the Host closing, or the handler aborted.          *)
CloseConnection(c) ==
  /\ up /\ (Cancelled \/ server = "failed") /\ pc[c] \in {"open"} \cup Answering
  /\ Leave(c, "off", Unanswered(c))
  /\ UNCHANGED <<bounds, childVars, outVars, metaVars, mainVars, server, req, outcomes, requested, sends>>

(* A read or a write finds the client gone, or it detached.                    *)
HangUp(c) ==
  /\ up /\ pc[c] \in {"open"} \cup Answering
  /\ Leave(c, "off", "none")
  /\ UNCHANGED <<bounds, childVars, outVars, metaVars, mainVars, server, req, outcomes, requested, sends>>

(* The oldest outcome is forgotten.                                           *)
Expire ==
  /\ up /\ outcomes # <<>>
  /\ outcomes' = Pruned(outcomes)
  /\ UNCHANGED <<bounds, childVars, outVars, metaVars, mainVars, server, pc, req, reply, lock, requested, answered, sends>>

(* Cancelled, accept_loop joins its handlers.                                 *)
AcceptEnds ==
  /\ up /\ server = "accepting" /\ Cancelled /\ ~Connected
  /\ server' = "done"
  /\ UNCHANGED <<bounds, childVars, outVars, metaVars, mainVars, pc, req, reply, lock, outcomes, requested, answered, sends>>

(* An accept that fails ends accept_loop and aborts every handler, one that    *)
(* is applying a mutation at its next await.                                   *)
AcceptFails ==
  /\ up /\ server = "accepting" /\ ~Cancelled
  /\ server' = "failed"
  /\ pc' = [c \in Clients |-> IF pc[c] = "applying" THEN "applying" ELSE "off"]
  /\ reply' = [c \in Clients |-> IF pc[c] \in {"off", "applying"} THEN reply[c] ELSE Unanswered(c)]
  /\ lock' = IF lock # None /\ pc[lock] = "applying" THEN lock ELSE None
  /\ answered' = (answered \/ \E c \in Clients : Owed(c))
  /\ Fault
  /\ UNCHANGED <<childVars, outVars, metaVars, mainVars, req, outcomes, requested, sends>>

-----------------------------------------------------------------------------
Environment == Write \/ ChildEnds \/ SlaveCloses \/ CancelHost \/ Expire
Failures    == ReadFails \/ ProcessOutputFails \/ HeartbeatFails \/ MainFails \/ AcceptFails
Reader      == ReadPty \/ ReadEof
OutputLoop  == ProcessOutput \/ OutputEnds
Heartbeat   == HeartbeatTick \/ ObserveQuietPrompt \/ HeartbeatRead \/ HeartbeatWrite \/ HeartbeatEnds
RunHost     == \/ WatchExit \/ WatchCancel \/ WaitKilled \/ MarkExited \/ NoteExited
               \/ WaitForStopResponse \/ WaitGrace \/ WaitOwed \/ JoinOutput \/ SubmitExit
               \/ RecordExit \/ CancelTasks \/ JoinTasks \/ JoinFails \/ ProcessEnds
Handler(c)  == ReadRequest(c) \/ StopOwned(c) \/ WaitForExit(c) \/ Escalate(c) \/ CloseConnection(c)
Refusal(c)  == Malformed(c) \/ ApplyFails(c)
Client(c)   == Connect(c) \/ HangUp(c) \/ \E id \in Ids, kind \in Asks[c] : Send(c, id, kind)

(* The process is gone.                                                      *)
Ended == ~up /\ UNCHANGED vars

Next ==
  \/ Environment \/ Failures \/ Reader \/ OutputLoop \/ Heartbeat \/ RunHost \/ AcceptEnds
  \/ \E c \in Clients : Handler(c) \/ Inspected(c) \/ Applied(c) \/ Answer(c) \/ Refusal(c) \/ Client(c)
  \/ Ended

(* The runtime runs every task that can run, the mutex is granted in the      *)
(* order it is asked for, and a killed child ends.  Nothing is assumed of     *)
(* what is outside: a child need not end by itself, nor a descendant close    *)
(* the terminal, nor a client read the answer that is being written, nor a    *)
(* child read its input.                                                      *)
Fairness ==
  /\ WF_vars(Reader) /\ WF_vars(OutputLoop) /\ WF_vars(Heartbeat) /\ WF_vars(RunHost)
  /\ WF_vars(AcceptEnds)
  /\ WF_vars(killed /\ ChildEnds)
  /\ \A c \in Clients : WF_vars(Handler(c)) /\ SF_vars(Inspected(c))

Spec == Init /\ [][Next]_vars

FairSpec == Spec /\ Fairness

(* Every client reads what it is sent.                                        *)
ClientsRead == \A c \in Clients : WF_vars(Answer(c))

(* The child reads its input, or its terminal is closed.                      *)
ChildReads == \A c \in Clients : WF_vars(Applied(c))

-----------------------------------------------------------------------------
(* What the Host says of an exit is true: its lifecycle, host.json, what the *)
(* heartbeat is about to write there, a remembered stop and a stop answered  *)
(* with success all mean a child that was reaped.  A resume starts another   *)
(* occupant of the session on the strength of host.json alone.               *)
ExitIsTrue ==
  ( \/ "Exited" \in {lifecycle, disk.lifecycle, hb.copy.lifecycle}
    \/ \E c \in Clients : reply[c] = "ok" /\ IsStop(c)
    \/ \E i \in DOMAIN outcomes : outcomes[i].hash # "other" )
  => exited /\ child = "reaped"

(* Past the join of output_loop nothing the session ever wrote is missing:   *)
(* the terminal is closed and every chunk has its sequence number, so that    *)
(* "output_drained" and the watermark of the exit record say what is true,    *)
(* unless the terminal itself could not be read to its end.                   *)
Drained ==
  main \in {"evidence", "record", "cancelling", "closing", "done"} /\ reader = "done"
    => ~slave /\ processed = written

(* One handler at a time is between its inspection of the cache and the end   *)
(* of its answer (a refused stop has let go of the mutex): two stops never    *)
(* signal the child at the same time, nor is a command applied twice at once. *)
OneStopAtATime ==
  \A c, d \in Clients : pc[c] \in Holding /\ pc[d] \in Holding => c = d

(* When run_host goes on because the stop it waited for was answered, no stop *)
(* it has read is still owed its answer: the connection is held open while an *)
(* answer is being written.  It holds of a single stop only: `answered' is     *)
(* never reset, so the answer to one stop releases the Host from the next.      *)
OwedStopsAnswered ==
  [][why = "unknown" /\ why' = "answered" => \A c \in Clients : ~Owed(c)]_vars

(* The process ends once its child has or once it is told to, whatever its     *)
(* clients do and whoever keeps the terminal open.                             *)
HostEnds == (child # "running" \/ cancel) ~> ~up

(* A stop that was read comes to an end, answered or not, though the child     *)
(* ignores every signal but SIGKILL and other requests hold the mutex it waits *)
(* for, if clients read their answers and the child its input: an input that   *)
(* blocks under the mutex keeps every later stop from being carried out.       *)
StopEnds == ClientsRead /\ ChildReads => \A c \in Clients : Owed(c) ~> ~Owed(c)

(* After a Host that ended well, host.json says the session has exited.  It     *)
(* does not hold: a heartbeat that read the lifecycle earlier may rename last.  *)
FinalRecord == ~up /\ main = "done" => disk.lifecycle = "Exited"

-----------------------------------------------------------------------------
(* Why the first three hold.                                                *)

(* Only run_host reaps, and it reaps before it marks.                         *)
Reaped ==
  /\ exited => child = "reaped"
  /\ main \notin Watching \cup {"failed"} => child = "reaped"
  /\ main \notin Watching \cup {"failed", "reaped"} => exited

(* A stop that is about to be answered with success saw the exit, and the     *)
(* other mutations are no stops.                                              *)
AnswersExit ==
  \A c \in Clients :
    /\ pc[c] = "answer" /\ IsStop(c) => exited
    /\ pc[c] = "applying" => ~IsStop(c)

(* Every chunk is in the kernel's buffer, in the channel or processed, as     *)
(* long as neither end of the channel gave up.                                *)
Accounted ==
  /\ output # "failed" => written = processed + queue + unread
  /\ output # "failed" /\ reader = "done" => unread = 0 /\ ~slave
  /\ output = "done" => queue = 0 /\ reader # "reading"
  /\ main \in {"evidence", "record", "cancelling", "closing", "done"} => output = "done"

(* The handlers past the inspection hold the mutex.                           *)
Locked == \A c \in Clients : pc[c] \in Holding => lock = c

(* The inductive invariant of the Host's exit.                                *)
HostInv == TypeOK /\ Reaped /\ AnswersExit /\ ExitIsTrue /\ Accounted /\ Locked
==============================================================================
