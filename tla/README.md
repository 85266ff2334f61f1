# Multiplex in TLA+

Multiplex keeps terminal sessions running in *Session Hosts*, lets several local clients
attach to them, and lets paired controllers (phones, other machines) reach them, directly or
through a self-hosted relay. This directory holds TLA+ models of the parts whose mistakes a
unit test would hardly reach, TLC configurations for small instances, and TLAPS proofs of the
main properties for every value of the constants. All paths are relative to the repository.

## 1. Inventory

| Component | State | Operations | Interacts with | What is hard | What makes it correct |
|---|---|---|---|---|---|
| Session journal, `multiplex-store/src/journal.rs` | numbered segment files, `snapshot.trs`, `JournalStore` in memory | open, append, sync, rotate, compact, read_from, read_live_from | the Host's output_loop and heartbeat; attach | crash, power cut or I/O error between any two file operations; limits | what sync promised is never lost; reads agree with the disk; no hole hides a frame |
| Session Host, life cycle, `multiplex-session-host/src/host.rs` | child, PTY, output channel, lifecycle, `host.json`, stop bookkeeping | run_host, reader, output_loop, heartbeat_loop, stop_owned, mark_exited | journal, lease, every connection | eight tasks on several threads, timeouts, a child that ignores signals, a grandchild that keeps the terminal | an exit that is told of is true and drained; stops exclude each other; the Host ends |
| Session Host, requests, same file | permits, handshake nonces, writer lease, `MutationCache`, PTY and screen size | handshake, claim, release, input, resize, interrupt, stop, attach, detach | clients | awaits between check and use, hang-ups anywhere, repeated commands | one writer; a command takes effect once; nothing leaks |
| Relay server, `multiplex-relay-server` | registrations, state file, seats, challenges, failure counters, queues | connect, challenge, admit, forward, deliver, disconnect, register, revoke, shutdown | relay clients, operator | late steps of replaced connections, full queues, crash in a commit | one peer's envelopes in order; revocation is for good; no stranger evicts |
| Relay protocol and client, `multiplex-relay-protocol`, `multiplex-relay-client` | envelope and admission formats; reconnect policy, unknown completions | encode, decode, verify; retry, reconcile | relay server, Host | a mutation whose answer was lost | a mutation is never repeated blindly |
| Client attach, `multiplex-client/src/{attach_model,sequence,client}.rs`, `multiplex-desktop/src/ui/app/hosted_session.rs` | watermark, phase, screen, recoveries left | begin_replay, apply_snapshot, observe_output; poll, recover, replay of retained output | `serve_attach`, journal | compaction, replay limit, pauses and lost connections between two polls | every piece once and in order; never a gap; the viewer catches up |
| Host reconciliation, `multiplex-client/src/host_recovery.rs`, `multiplex-store/src/lease.rs` | recovery journal, original `host.json`, lease | plan, reconcile, recover_interrupted_reconciliation | Host start-up | two processes, crash between steps | never overwrites a live Host's record |
| Metadata recovery, `multiplex-store/src/{recovery,health}.rs` | restore journal, backups, last-good copies, metadata lock | plan, restore, rebuild_indexes, rollback, recover_interrupted_restore | every store document, its repositories in other processes, every window of a desktop | crash, power cut or failure between two files; commits and other windows in between | nothing is overwritten without a copy; no restore brings back an older document |
| Store documents, `multiplex-store/src/{sessions,library,presets,transcript,...}.rs` | JSON documents with revisions | load, mutate, save | UI, Host | stale revisions | no lost update |
| Replication, `multiplex-store/src/replication`, `multiplex-replication-security` | records, tombstones, cursors, keys | merge, sync, review | other devices | repeated and reordered batches | convergence, no resurrection |
| Shared tmux Hosts, `multiplex-controller-listener/src/{tmux_sessions,host_backend,runtime}.rs` | Host and users of a session, generations, attachments | acquire, release, attach, poll, detach, drop | phones, tmux, Host | late background releases, a tmux client that ends by itself, a restart | a Host lives as long as its users; a watermark is used only at its own Host |
| Controller security, rest of the listener | pairing, connection, authorization, queues, tickets | pair, connect, authorize, revoke | phones, relay, Host | lost, repeated, late messages | only paired, unrevoked devices act |
| Screen sharing, `multiplex-screen-*` | writer lease, pressed keys, rate ladder, frames | inject, set_holder, encode, pace | controller | holder changes with keys down | balanced presses |
| Update trust, `multiplex-update-trust` | trusted versions | verify_and_commit | updater | concurrent verification | versions only grow |
| Domain reducers, `multiplex-domain` | activity, notifications, search | pure functions | everything | evidence out of order | agree with a reference |
| MCP server, tmux adapter, browser, diagnostics, UIs, mobile apps, bindings | – | – | – | mostly I/O and presentation | – |

`PROJECT.json` lists every component with its status, and the hazards of the code at the line
where they bite.

## 2. Plan

Done:

1. **SessionJournal** implements **DurableLog** (an abstract log that loses at most what was
   never synced, or what was promised since the session directory was). Proofs in SessionJournalProofs (chain of files, recovery) and
   JournalContentsProofs (refinement, reads, counters, pauses).
2. **SessionHost**: life cycle, with **MutationCache** for remembered commands. Proofs in
   SessionHostProofs.
3. **HostRequests**: connections and requests, on the same MutationCache. Proofs in
   HostRequestsProofs.
4. **RelayServer**: admission, forwarding, revocation. Proofs in RelayServerProofs.
5. **SessionAttach** implements **TerminalView** (what a viewer is promised): `serve_attach`
   together with the client's tracker, its attach model and the desktop's polling loop. Proofs in
   SessionAttachProofs.
6. **MetadataRecovery**: the restore of several files, its journal and its rollback, against the
   repositories of other processes. Proofs in MetadataRecoveryProofs.
7. **TmuxHosts**: the Session Hosts the controller listener shares between phones. Proofs in
   TmuxHostsProofs.

Every safety invariant, action property and refinement that a passing run checks is now also a
theorem. Next, in this order:

8. **ControllerPairing**, **ControllerConnection**: the state machines of controller-security
   with lost, repeated and reordered messages, and revocation of a connected device.
9. **ScreenInput** (lease and balanced presses), **UpdateTrust** (monotonic versions),
   **ActivityReducer** (a pure reducer against a reference), relay-client reconciliation,
   replication merge.
10. **HostReconciliation** (`host_recovery.rs`): it runs under the Host's lease, which excludes
    every other writer of `host.json`, so there is less to find than above.

## 3. Modules

| Module | Models | Role |
|---|---|---|
| `DurableLog` | what a journal promises | abstract specification |
| `SessionJournal`, `MCSessionJournal` | `journal.rs` with its callers | component |
| `MutationCache` | `MutationCache::{inspect, record, prune}` of `host.rs` | operators shared by the next two |
| `SessionHost`, `MCSessionHost` | `run_host`, reader, `output_loop`, `heartbeat_loop`, stops | component |
| `HostRequests`, `MCHostRequests` | `accept_loop`, `serve_connection`, `handle_mutation` | component |
| `TerminalView` | what attaching promises a viewer | abstract specification |
| `SessionAttach`, `MCSessionAttach` | `output_loop`, `serve_attach`, `HostClient::attach`, `GpuiAttachModel`, `hosted_session.rs` | component; composes Host, journal and viewers |
| `MetadataRecovery`, `MCMetadataRecovery` | `recovery.rs`, the index of `health.rs`, commits of the repositories | component |
| `TmuxHosts`, `MCTmuxHosts` | `tmux_sessions.rs`, `host_backend.rs`, `runtime.rs` of the controller listener | component |
| `RelayServer`, `MCRelayServer` | `core.rs`, `server.rs`, `store.rs` of the relay server | component |
| `*Proofs` | – | theorems about the module they extend; `JournalContentsProofs` builds on `SessionJournalProofs` |

Definitions whose names end in `_Something` after the name of an action are mutants: the same
action with one plausible mistake. Each property names a mutant that breaks it.

### 3.1 SessionJournal

The disk is `segs` (file index to frames, torn bytes, how many frames are synced) and `snap`
(the boundary of the published snapshot). `JournalStore` in memory is `active_index`,
`active_bytes`, `total_bytes`, `latest`, `earliest`, `base`, `paused`, `gap`, `live`,
`live_boundary`; `pc` and `doomed` say where a compaction or an open is. A frame is its sequence
number, its encoded length and the offset at which it ends; the length also stands for its
contents, so that two frames can be told apart. `durable` is the last number `sync` returned.

Every file operation is an action of its own, so a crash (memory lost), a power cut or an I/O
error can come between any two; a rotation can fail before it creates the next file, before it
turns to it, or when it counts the files (`RotateFails`). `open` is the scan of the code: the
longest valid prefix, torn bytes cut; at the first file with an issue that is not the last it stops
and reports a gap.

The store syncs its files and never the directory they are in: `rotate` creates the next segment
(`journal.rs:538`) and `compact` unlinks the covered ones (`journal.rs:513`) without it. A power cut
therefore cuts or tears the unsynced frames of one file and may also undo the latest of those
changes. `images` are the directories a cut may leave, each the names of its segments and its
snapshot, and `gone` are the removed files that may come back. They are settled when another writer
syncs the directory: the snapshot (`CompactSnapshot`) and `host.json`, which the Host replaces when
it starts and at every heartbeat (`DirectorySynced`). `anchored` is what `durable` was then, and
`undone` says that a cut has undone something which no later open found in order again.

### 3.2 SessionHost

One process from Ready to its end. Every await and every lock of `run_host`, the reader, the
output and heartbeat loops and the stop handlers is a point of interleaving. Time is left out: a
timeout may fire as soon as what it bounds is awaited. `StopResponse`, the deadlines and the
escalation interrupt, terminate, kill are as in the code. Chunks of output are counted, not
named. `host.json` (`disk`) is written by the heartbeat in two steps, read and rename. An input is
written to the terminal under the idempotency mutex by a blocking `write_all` without a timeout
(`host.rs:1306-1312`): a handler is at "applying" until the child has read enough (`Applied`), which
may be never, and cancelling its task does not end it.

### 3.3 HostRequests

A connection is a handler that awaits between any two of its actions; a client sends one request
and waits, or hangs up anywhere. The idempotency mutex is held from the inspection of the cache to
the end of the answer, also while an input is written to the terminal, which blocks until the child
reads (`BeginInput`, `FinishInput`). `effects` is the history of what was done to the terminal, `forgotten` what
the caches evicted or let expire: both are read by properties only.

### 3.4 RelayServer

`core.rs` is the state under one mutex: `regs`, `slot` (who has which seat of which route),
`next` (sequence of the sender in each seat), `challenges`, `failed`, `queued`. A connection `c` is
its task (`pc`), token (`cancelled`), channel and the envelope in hand; it stands for the serial
and the connection id it is given, neither of which the server gives twice, and may stand for a
later connection once nothing refers to it (`Unnamed`). `path` is the state file as
a running process finds it, `durable` are the files a power cut may leave. `sync_parent` reports
success where the file system refuses to sync a directory (`store.rs:183-193`); `syncs` says whether
it does. Where it does not, a rename adds to `durable` and nothing takes from it but a power cut,
which picks one. `register_route` and `revoke_route` hold the
mutex (`admin`) while they stage, rename and sync; each step may fail. The rate limiter may refuse
any envelope; diagnostics and close codes are left out; TLS and the upgrade may fail anywhere in
the handshake.

### 3.5 SessionAttach

The Host's half is the terminal (`printed`, `latest`), the journal as SessionJournal shows it to be
(`recorded`, `base`, `saved`) and the loop that feeds both (`ProcessOutput`, one critical section
of the journal's lock, in which recording may pause, compact or fail halfway, `torn`). A viewer
asks at every tick for what lies above its watermark (`Tick`, `ServeAttach`, `SendState`,
`Receive`); `ReadReplay` is the choice between frames, the snapshot file and a fresh snapshot of
the terminal, and is set-valued because what is left after a failed compaction depends on where it
failed. A screen is the sequence of pieces written to an empty terminal, so that a missing,
repeated or reordered piece shows. Pieces have numbers and no sizes: any piece may make a
compaction due or hit the disk limit. The refinement maps a viewer to the piece its screen stands
for (`Shown`), which is not its watermark while recording is paused.

### 3.6 MetadataRecovery

The bytes of a file are a number: a revision, no file, or broken bytes that are never the same
twice. Each write the restore makes is an action, in the order of `restore`: backups, journal,
file after file, verification, the lock given up, index, removal of the journal; a crash, a
failing call or (`onDisk`) a power cut that undoes the unsynced removal, or a rename of the journal
whose directory could not be synced, may come between any two. `Commit` and `Create` are the
repositories, which take the metadata lock and never look for a journal; `Break` is whatever broke
the files. `Apps` are windows, of one desktop process or of several: each one that opens calls
`recover_interrupted_restore` (`MultiplexApp::new`), which reads the journal without the lock
(`Start`) and rolls back under it, while another window's restore runs in the background. The lock
is a file lock that each of them takes for itself. `RepairIndex` compares the files of `Indexed`,
the sessions and the presets; a library that was committed to since does not stop it.

### 3.7 TmuxHosts

One tmux session, the connections of several phones. `hosts` is one entry (`host`, `users`), under
a mutex held across the start of a Host (`lock`); the generations are read without it. A phone
presents the generation and watermark it remembers, or the generation it was just listed. A handler
runs to its end, so a lost connection is noticed between two commands, and its release is left to
a background task (`pending`), which names the session and not the Host. A watermark is represented
by the Host whose output it counts; `ended` are Hosts whose tmux client exited by itself.

## 4. Runs

| Run | Shows |
|---|---|
| `journal` | On segments of 4 bytes, a hard limit of 7 and frames of 2 and 3 bytes, with power cuts that undo unsynced creations and removals of segments: what `sync` returned is reached by every later open, or what it had returned by the last directory sync if a cut undid such a change (`DurableRecoverable`), and its frames stay until a snapshot covers them (`DurableFramesStay`); a hole left by an interrupted compaction hides no frame, and one left by segments that came back none that is promised (`GapHidesNothing`); the byte counters are the files' (`BytesAccounted`); recording pauses only at the limit (`PausedOnlyAtLimit`); the window in memory answers what the disk would (`LiveReadsMatchDisk`); the bounds told to clients are those of a replay (`BoundsMatchReplay`); and the journal implements `DurableLog` (`LogSpec`). |
| `host_exit` | The exit with output, a heartbeat, one request, a cancellation and one failing call: nothing says exited of a child that was not reaped (`ExitIsTrue`), output is complete before the exit is evidence (`Drained`), and the inductive invariant of the proofs (`HostInv`). |
| `host_stops` | Two connections contend for the mutex, one with stops, one with stops or input, under one command id that is repeated or conflicts: one handler at a time has the child in hand (`OneStopAtATime`); and, liveness, a stop ends if clients read and the child reads its input (`StopEnds`). |
| `host_ends` | Liveness: a Host whose child ended or that was cancelled ends, though its client never reads and an input never returns (`HostEnds`). |
| `requests_safety` | Three connections for two permits: the lease is still held when the bytes are typed (`WriterTypes`), and while its holder was told so (`ToldHolds`); permits and lease come back (`EndedReturnsAll`); commands take effect once (`AppliedOnce`), success is true (`AnsweredWasDone`), a nonce opens one connection (`NonceOnce`). |
| `requests_ends` | Liveness: every request and every failed connection ends, those that go through the mutex if the child reads its input (`RequestsEnd`); and `RequestsInv`. |
| `relay_forward` | Three connections take, lose and retake the seats of a route: a client is sent one peer's envelopes, each once, in order (`OnePeerInOrder`); the queue counters are exact and within the quota (`QueueAccounted`); a task without its seat is cancelled (`EvictedIsCancelled`); nobody is evicted but for cause (`EvictedForCause`). |
| `relay_revoke` | Two routes, failing commits, crashes, power cuts, shutdown, restart: an acknowledged revocation is for good, in memory, in the state file and, where the file system syncs directories, across a power cut (`RevokedForGood`). |
| `attach_view` | A viewer polls a Host whose journal compacts, pauses or fails while connections are lost at every await, with frames of an earlier Host and more frames than a replay takes: the screen is the output up to the watermark with nothing missing, repeated or out of order (`ScreenCoherent`), the client never reports a gap (`NeverGap`), the viewer implements TerminalView (`ViewSpec`) and gets to all that was recorded (`CaughtUp`, liveness). |
| `recovery` | Two windows restore and roll back two files against each other and against commits, creations, further damage, crashes, power cuts and failing calls: a restore overwrites nothing that its backup does not have (`OverwritesOnlyBackedUp`), and publishes only the newest last-good copy (`RestoresNewest`). |
| `recovery_rollback` | Violation: see section 6. |
| `tmux_hosts` | Two phones come, leave and return, with failed starts and attaches, late releases, a tmux client that exits and a listener that restarts: while no tmux client has exited by itself nobody's Host is taken away (`KeptForUsers`), a watermark of this listener's life is used only at its own Host (`FencedWithinListener`), and the Host is stopped once every phone is gone (`TornDown`, liveness). |

### Bounds, and why they are enough

- `journal`: a segment takes one or two frames, two are retained and the hard limit holds
  less than two full segments, so that rotation, compaction with several segments to delete,
  pausing and resuming all happen within seven frames (`MaxSeq`); two frame lengths tell contents
  apart and hit the limits exactly and with slack. The live window holds two records or five
  bytes, so that both of its bounds evict. `MaxLength`, the range of the code's 64-bit totals, is
  out of reach on purpose: the proofs have it as a parameter.
- SessionHost: a channel of one frame is full after one chunk; `MaxOutput` is one more than it
  holds where that matters (`host_ends`). Two clients suffice for exclusion and for the order of
  two answers, since handlers interact only through the mutex, the cache and `StopResponse`.
  One fault (`MaxFaults`) at every call shows every error path; one heartbeat (`MaxTicks`) is one
  writer of `host.json` against `run_host`. `MaxOutcomes = 1` makes the cache evict.
  In `host_stops` the requests of each client are given (`Asks`), since two clients that ask for
  anything are out of reach under fairness.
- HostRequests: three connections for two permits (`MaxConnections`), so that one is refused and
  comes back; two ids, two sizes, two nonces give repetition and conflict; `MaxRequests = 2` lets
  one request meet another at every await.
- RelayServer: three connections are a pair and the successor of one of them; identities come
  back, so that histories have any length. `relay_forward` has queues of two messages and two
  bytes, so that envelopes wait in an order and the third is one too many. A late `delivered` of a
  replaced connection needs a fourth connection, which is out of reach: `QueueExact` proves that
  case. `relay_revoke` has two routes, since the state file is written as a whole for either, and
  file systems that sync directories and that do not; its envelopes do not fit the byte quota. `MaxSequence` bounds what clients send, so an
  envelope may be a replay, in order or a gap; `MaxEpoch` bounds revocations per route; `Outages`
  says whether the server may go down. `MaxPairs` does not bind with three connections: four on two
  routes are out of TLC's reach, and the refusal it causes changes nothing but the challenge.
- SessionAttach: one viewer, since viewers share nothing but the Host, which none of them changes.
  Up to two frames of an earlier Host (`MaxRetained`) put its snapshot below, at and above the
  watermark; five pieces (`MaxPieces`) with replays of two (`ReplayRecords`) give a replay over the
  limit, within it after a compaction, and again over it. `MaxRecoveries = 1` gives a retry that is
  taken, one that is refused and, because an answer resets the count, any number of both.
- MetadataRecovery: two windows, and two kinds of files: one that is recreated when missing and not
  compared by `repair`, one that is compared and not recreated; `recovery_rollback` has all three
  kinds. Two plans (`MaxPlans`) are one for each window or a restore and its successor; two revisions
  tell a commit from what a restore published; two breaks tell old broken bytes from new ones.
- TmuxHosts: three Hosts are one that exits, its replacement and one after a restart; two phones are
  one that leaves and one that stays; `MaxPending` is what two phones can leave behind.
- Disks: the changes of one directory reach the disk in their order. In `SessionJournal` a directory
  sync that is asked for is made; where the file system refuses it the atomic writer reports
  `Durability::RenameOnly`, which `journal.rs:491-493` drops, and nothing bounds what a power cut may
  undo: `anchored` never moves. RelayServer and the restore journal have that case.
- Symmetry is used in runs without liveness properties only.

### Fairness

- SessionHost: weak fairness of each task's next step (tokio polls a ready task), of the timeouts
  and of the kernel's end of a killed child; strong fairness of taking the idempotency mutex, which
  is FIFO in tokio. Nothing is assumed of clients, of a child that may never read its input, nor of
  whoever keeps the terminal open. `StopEnds` has `ClientsRead` and `ChildReads` as its hypotheses,
  because inputs and answers are written without a timeout while the mutex is held. `HostEnds` has
  neither: `run_host` does not wait for the mutex.
- HostRequests: the same for handlers; clients read what they are sent or hang up. `RequestsEnd` has
  `ChildReads` as a hypothesis for the requests that go through the mutex, and none for the others.
- SessionAttach: the ticker fires, tokio's locks are fair, and a client reads what was sent or the
  end of the stream. Nothing is assumed of the program, of `output_loop` or of failures.
- TmuxHosts: the listener's runtime runs the releases it has spawned and every handler that has
  begun. No phone has to come, leave or ask.
- Journal, relay and metadata recovery have safety properties only.

## 5. Proofs

TLAPS checks 41 theorems in eight modules, for any value of the constants that satisfies the named
assumption of the module (`LimitsAssumption`, `HostAssumption`, `RequestsAssumption`,
`RelayAssumption`, and those of MutationCache, SessionAttach, MetadataRecovery and TmuxHosts). One
theorem has a hypothesis besides: `PausesOnlyAtLimit` has `AmpleSegments`, see below. The
inductive invariants that are not in a configuration (`ReadInv`, `BytesInv`, `SealedInv`,
`QueueInv`, `AttachInv`, `RecoveryInv`, `TmuxInv`) hold on the instances of section 4 as
well: name them under INVARIANTS there.

**SessionJournalProofs.** `JournalInvariant` (`Spec => []JournalInv`), `TypeCorrect`,
`DurableNeverLost`. The property alone is not inductive: that the next open reaches `durable`
depends on every file between. `JournalInv` says that the segment files form a chain of
consecutively numbered frames that continues the snapshot, lies below it, where the holes of an
interrupted compaction can be, or begins below it in a sealed file, where open stops (`Stale`); and
that the memory of the store agrees with the chain (`MemoryInv`). `CutInv` says the same of every
directory a power cut may leave, for what the last directory sync found promised: an image that
names the active file is the current directory or stale, so what is appended there is either found
or behind the hole of segments that came back, above all that is promised. The lemmas are about what
the scan returns for such a chain, and about appending to, cutting and deleting from it; then one
step per action, for the files (`CoreInv`) and for the images.

**JournalContentsProofs.** From `JournalInv`, what the journal holds.

- `LogRefinement` (`LogSpec`) and `DurableFramesKept` (`DurableFramesStay`): what the next open
  would find changes at an append, at the write of the snapshot (which alone folds the log) and at
  a power cut, which takes frames that were not synced (`Lose`) or also puts an earlier directory in
  place (`Undo`); rotating, deleting files below the snapshot and opening leave it as it is.
- `ReadInvariant`, `BoundsExact` (`BoundsMatchReplay`), `LiveReadsExact` (`LiveReadsMatchDisk`):
  `ReadInv` says that the window in memory is a consecutive tail of the frames on disk and the
  bounds are their ends. A read from memory then finds what a read from disk does.
- `BytesInvariant`, `BytesExact` (`BytesAccounted`), `GapHarmless` (`GapHidesNothing`): `BytesInv`
  says that `total_bytes` is what is on disk also in the middle of a compaction, and that the disk
  never holds more than the hard limit, nor does a directory a cut may leave, unless removed segments
  come back. The last is why an open sees a gap only where an interrupted compaction left files
  that the snapshot covers or where removed ones came back: the other reason for one, too many
  bytes, does not come about. The sum over the files is a fold; that it does not depend on the order, and what
  adding, removing and replacing one file does to it, is proved by a smallest counterexample (a
  nonempty set of finite sets has one of least cardinality), which stands in for the induction the
  backends cannot do.
- `SealedInvariant`, `PausesOnlyAtLimit` (`PausedOnlyAtLimit`): a file that is not the last is so
  full that the longest frame does not fit. `AmpleSegments` says that as many such files as are
  retained hold three segments' worth of bytes, which makes the compaction due, or the hard
  limit but for one frame. `JournalLimits::default` (4 files of 64 MiB, frames of up to 1 MiB)
  satisfies the first, the instance of the run the second. Without it the property is false: files
  can be small enough that the number retained is reached before compaction is due.

**SessionHostProofs.** `HostInvariant`, `ExitTold` (`ExitIsTrue`), `OutputDrained` (`Drained`),
`StopsExclude` (`OneStopAtATime`). `HostInv` adds: only `run_host` reaps, before it marks
(`Reaped`); a stop about to be answered with success saw the exit (`AnswersExit`); every chunk is
in the terminal, in the channel or numbered (`Accounted`); the handlers past their inspection hold
the mutex, also while an input blocks (`Locked`).

**HostRequestsProofs.** `RequestsInvariant`, `OneWriter` (`WriterTypes`), `LeaseKept`
(`ToldHolds`), `NothingLeaks` (`EndedReturnsAll`), `CommandsOnce` (`AppliedOnce`), `AnswersTrue`
(`AnsweredWasDone`), `NoncesOnce` (`NonceOnce`). `RequestsInv` adds who holds the mutex, that the
cache remembers exactly what was done and not forgotten (`Remembering`, `NoncesKept`) and which
requests a handler can carry (`Dispatched`). The permits need the cardinality of the set of
serving connections, from FiniteSetTheorems.

**RelayServerProofs.** `RelayInvariant`, `EvictedCancelled` (`EvictedIsCancelled`), `PeerStream`
(`OnePeerInOrder`), `RevocationHolds` (`RevokedForGood`), `EvictionHasCause` (`EvictedForCause`).
That a client gets one peer's envelopes in order is not inductive: what `forward` appends fits only
if the stream's length is the sequence that the core expects next. `RelayInv` therefore adds that
while both seats are taken a receiver's stream is exactly what its peer sent since they were paired
(`StreamInv`), that nobody occupies two seats and an occupant's seat and epoch are current
(`SeatInv`), that no envelope comes from a connection still in its handshake, which is why `admit`
may give it any seat (`HandInv`), and what a commit in progress and an acknowledged revocation know
of the registrations in memory, in the file and in every file a power cut may leave (`StoreInv`). The lemmas about streams say that taking
from the channel and sending keep a stream, that leaving cuts it to what was sent, that the end of
a task empties it and that only `forward` extends one; then one step per action.

`QueueExact` (`QueueAccounted`) rests on `QueueInv`: the counters are exact for an endpoint that has
its seat, and whoever has no seat counts nothing, so that one that is admitted begins at zero. The
second part is what `cancel_and_clear` is for, which drops the endpoint with its counters. The
bytes are a sum along a sequence, a recursive function; that it exists, is unique and grows by the
size of an envelope put at either end is again proved by a first counterexample.

**SessionAttachProofs.** `AttachInvariant`, `CoherentScreens` (`ScreenCoherent`), `NoGap`
(`NeverGap`), `ViewRefinement` (`ViewSpec`). What a viewer shows depends on an answer that was made
earlier, so `AttachInv` speaks of the answers on their way (`ReplyInv`): the frames of an answer
continue what the viewer shows or the snapshot that comes with them, however much is recorded or
compacted before they arrive, and an answer whose snapshot runs ahead of a stopped recording
brings no frames. `ViewerInv` says the same of what was shown, `JournalInv` that the terminal and the
journal differ only once recording has stopped. The refinement maps a viewer to the piece its
screen stands for, which a step moves forward or leaves.

**MetadataRecoveryProofs.** `RecoveryInvariant`, `BackedUpFirst` (`OverwritesOnlyBackedUp`),
`NewestRestored` (`RestoresNewest`), for any number of windows. What a restore has still to publish
is in its backup as it is (`BackupInv`), and what it will publish is still the last-good copy
(`NewestInv`), because it holds the metadata lock from the recheck of its plan to the last file and
every commit, creation and rollback takes that lock (files break only while nobody has it, a limit of
the model). That the recheck compares both the files and the copies is what establishes the two:
between plan and lock another window may have restored, others committed and a third rolled back.
What was planned and backed up is broken bytes or no file (`BrokenInv`).

**TmuxHostsProofs.** `TmuxInvariant`, `HostKept` (`KeptForUsers`), `WatermarksFenced`
(`FencedWithinListener`). `CountInv`: while no tmux client has exited by itself, the users counted
are the connections that hold the Host and the releases on their way, so that the count is zero
only when nobody holds it. `FenceInv`: the generations of a listener's life number its Hosts, and a
claim to output of that life names its Host's. `LockInv`: only the phone that has the mutex starts
a Host, and meanwhile there is none. The count needs the cardinality of the set of holders.

**Only model-checked.** Liveness (`HostEnds`, `StopEnds`, `RequestsEnd`, `CaughtUp`, `TornDown`):
fairness and ENABLED are beyond the prover. `RollsBackOnlyRestore` is false (section 6).

## 6. Findings and claims that do not hold

`recovery_rollback` is a run. `recover_interrupted_restore` says that it "Rolls back only a
marker-owned, journaled operation" (`recovery.rs:483`), but it compares the backups with their
digests and never the files with what the restore published. In the trace a restore publishes the
library, the desktop ends, another process commits the next revision of it, and the next window that
opens puts back what was there before the restore, broken bytes or no file. The committed revision
is left only in the last-good copy, if the commit could write that (it ignores a failure to).

The definitions below state what the repository says, and TLC refutes them. They are not runs of
their own: give the configuration named the one property instead of its own, without its
`SYMMETRY`.

| Definition | Configuration | The repository says | What happens |
|---|---|---|---|
| `SessionHost!OwedStopsAnswered` (PROPERTY) | `SessionHost_stops.cfg` | "Records that an answer is owed until the returned guard is dropped." (`host.rs:377`) | `StopResponse::answered` is set for good by the first stop that ends; with two stops the Host shuts down while the second is still owed its answer. |
| `SessionHost!FinalRecord` | `SessionHost_exit.cfg` | `assert_eq!(source_metadata.lifecycle, HostLifecycle::Exited);` after the Host ended (`tests/resume_replacement.rs:167`) | A heartbeat that read the lifecycle before the exit may rename its `host.json` over the final one; the session stays recorded as Ready. |
| `HostRequests!ViewportIsPty` | `HostRequests_safety.cfg` | "authoritative Host viewport" (`docs/engineering-evidence/session-host-runtime-review-2026-10-12.md:29`) | A resize sets the PTY under the mutex and the parser's screen after its answer: a hang-up, two resizes or a repeated one leave the reported viewport different from the PTY's. |
| `RelayServer!SeatHasTask` | `RelayServer_forward.cfg` | "Disconnect closes the exact route and drops both queues." (`docs/decisions/relay-protocol-v1.md:87`) | A connection that was admitted but cannot be told so ends without `disconnect`; its seat stays taken, and clients are refused as duplicates until the peer sends or leaves, the route is revoked or the server restarts. |
| `TmuxHosts!TornDownWithLast` | `TmuxHosts.cfg` | "torn down when the last one detaches" (`tmux_sessions.rs:10`) | After a tmux client has exited by itself, the late release of a phone of the old Host counts against the new one, and takes it from its user. |
| `TmuxHosts!NeverResumesElsewhere` | `TmuxHosts.cfg` | "told to start over instead of resuming from a watermark the new host never had" (`tmux_sessions.rs:233`) | The generations start anew with the listener while the phones keep theirs: a watermark of an earlier life may be taken for one of the new Host. |

Behaviours of the models that no line of the repository rules out, and that a reader may not expect:

- A power cut may take back what `sync` returned since the last directory sync: the frames are
  synced, but the segment `rotate` created for them is not in the directory any more. The heartbeat bounds this to its interval,
  because each `host.json` syncs the directory after the journal.
- A power cut may bring back segments that `compact` removed. `open` then stops at the first of them
  and reports a gap; the segments after it, with frames newer than the snapshot, are not read and
  recording stays paused. They are frames that were appended since the last directory sync.
- An opened journal reports all frames it read as durable (`durable_sequence` begins at
  `latest_sequence`, `host.rs:562`), synced or not. The model's `durable` moves only by `sync`.
- A child that does not read its input blocks the handler that types, with it the idempotency mutex
  and every later input, resize, interrupt and stop, for as long as it likes. Attaching, leases and
  the end of the Host are not affected.
- Where the file system cannot sync directories, a power cut may bring a revoked relay route back,
  though `relay-protocol-v1.md:93` says that a mutation "fsyncs the parent directory"; the comment of
  `sync_parent` (`store.rs:176`) says so.
- A restore is not all or nothing. A window that opens when another one's restore has its index and
  not yet removed the journal rolls the files back; the restore then removes the journal and reports
  success, and if the second window ends in the middle, the files stay half rolled back without a
  journal. And after a rollback
  that fails, a new plan of the same files replaces the journal of the one that is half restored.

## 7. Not modelled

- Of the modelled crates: the activity loop, activity snapshots and the start-up of the Host before
  Ready; `host_recovery.rs` and `idempotency.rs` of the client; the scans and the interrupted repair
  of `health.rs`; pairing, tickets and queues of the controller listener; close codes, diagnostics,
  the refill of the relay's token bucket and its two equal shutdown deadlines (real time).
- Encodings and checksums: a decoded message is a record; a 32-bit hash is taken as injective.
- Cryptography, codecs, platform calls, foreign-function layers and mobile apps: out of TLC's reach or
  pure I/O.
- Most of the repository's 377,000 lines are generated message tables, the desktop, TUI and CLI
  user interfaces and their presentation models, codecs and tests. They keep no protocol of their
  own: what they rely on is stated of the crates they call. The models cover the crates in which
  processes, tasks and crashes meet, which is a small share of the lines.
- The components of section 2, items 8 to 10, until their turn.
