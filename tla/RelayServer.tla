----------------------------- MODULE RelayServer -----------------------------
(***************************************************************************)
(* The self-hosted relay (multiplex-relay-server): routes that an operator *)
(* registers and revokes, kept in relay-state-v1; connections that answer  *)
(* a challenge and take the Host's or the Controller's place on a route;   *)
(* and the envelopes a route's two endpoints exchange through bounded      *)
(* queues.  core.rs is the state under one mutex, server.rs the tasks      *)
(* around it, store.rs the state file.                                     *)
(*                                                                         *)
(* A connection is the task handle_connection, its mpsc channel, its       *)
(* cancellation token and, once it is admitted, its EndpointRuntime.  It   *)
(* awaits between any two of its actions, and what it owns is dropped when *)
(* it ends.  A connection gets one serial and one connection id at most,   *)
(* and the server never gives one twice: the connection stands for both,   *)
(* and may stand for a later one once nothing refers to it.  Diagnostics   *)
(* and close codes are left out; the token bucket may refuse any envelope. *)
(***************************************************************************)
EXTENDS Integers, Sequences, FiniteSets

CONSTANTS
  Routes,         \* route ids
  Conns,          \* connections
  Sources,        \* the addresses they come from
  Sizes,          \* encoded lengths of envelopes
  MaxRoutes,      \* limits.registered_routes
  MaxPairs,       \* limits.forwarding_pairs
  MaxHandshakes,  \* limits.unauthenticated_handshakes
  MaxChallenges,  \* MAX_UNAUTHENTICATED_HANDSHAKES
  MaxFailures,    \* MAX_FAILED_ADMISSIONS_PER_SOURCE
  QueueMessages,  \* quota.queue_messages
  QueueBytes,     \* quota.queue_encoded_bytes
  ChannelSize,    \* MAX_QUEUE_MESSAGES, the capacity of the channel
  MaxSequence,    \* bound: the sequence numbers that clients send
  MaxEpoch,       \* bound: revocations of a route
  Outages,        \* bound: whether the server may stop, crash or lose power
  None            \* nobody

ASSUME RelayAssumption ==
  /\ None \notin Conns
  /\ None \notin [route : Routes, role : {"host", "controller"}]
  /\ IsFiniteSet(Routes)
  /\ IsFiniteSet(Conns)
  /\ Sizes \subseteq Nat \ {0}
  /\ {MaxRoutes, MaxPairs, MaxHandshakes, MaxChallenges, MaxFailures} \subseteq Nat \ {0}
  /\ {QueueMessages, QueueBytes} \subseteq Nat \ {0}
  /\ ChannelSize \in Nat /\ QueueMessages <= ChannelSize
  /\ {MaxSequence, MaxEpoch} \subseteq Nat
  /\ Outages \in BOOLEAN

VARIABLES
  server,      \* "listening", "draining" or "down"
  regs,        \* the registrations in memory
  path,        \* those the state file holds
  durable,     \* what it may hold after a power cut
  syncs,       \* whether the file system syncs a directory
  admin,       \* the register_route or revoke_route that holds the mutex
  acked,       \* the routes whose revocation was acknowledged and stands
  slot,        \* who occupies each seat of each route
  next,        \* the next sequence of the sender in each seat
  challenges,  \* the pending challenges
  failed,      \* failed admissions of each source
  pc,          \* where each connection's task is
  source,      \* the address of each connection
  seat,        \* the seat it was admitted to
  epoch,       \* the revocation epoch it was admitted under
  cancelled,   \* the connections whose token is cancelled
  channel,     \* envelopes waiting for each connection's client
  hand,        \* the envelope its task is sending or has read
  queued,      \* queued_messages and queued_encoded_bytes of its endpoint
  got          \* what its client was sent, while the task runs

storeVars == <<regs, path, durable, syncs, admin, acked>>
coreVars  == <<slot, next, challenges, failed>>
seatVars  == <<source, seat, epoch>>
flowVars  == <<channel, hand, queued, got>>
vars == <<server, storeVars, coreVars, pc, seatVars, cancelled, flowVars>>

Roles == {"host", "controller"}
Seats == [route : Routes, role : Roles]
PeerRole(role) == IF role = "host" THEN "controller" ELSE "host"
Peer(s) == [s EXCEPT !.role = PeerRole(s.role)]

Registration == [known : BOOLEAN, revoked : BOOLEAN, epoch : Nat]
Unknown == [known |-> FALSE, revoked |-> FALSE, epoch |-> 0]
Fresh == [known |-> TRUE, revoked |-> FALSE, epoch |-> 0]
Revoked(reg) == [known |-> reg.known, revoked |-> TRUE, epoch |-> reg.epoch + 1]

Challenge ==
  [serial : Conns, seat : Seats, epoch : Nat, source : Sources]

(* An envelope names a route, a direction (by its sender's role) and a     *)
(* sequence; its ciphertext stands for the connection that made it.        *)
Envelope == [from : Conns, seat : Seats, sequence : Nat, size : Sizes]

Nothing == [messages |-> 0, bytes |-> 0]

Idle == [op |-> "none"]
Op == [op : {"register", "revoke"}, route : Routes, step : {"staged", "renamed"}]

Handshaking == {"hello", "challenged", "refusing", "accepting"}
(* The tasks that own the receiving end of a channel somebody can reach.   *)
Receiving == {"accepting", "forwarding", "reading", "sending"}
Places == Handshaking \cup Receiving \cup {"leaving", "absent"}

Init ==
  /\ server = "listening"
  /\ path \in [Routes -> {Unknown, Fresh}]
  /\ Cardinality({r \in Routes : path[r].known}) <= MaxRoutes
  /\ durable = {path}
  /\ syncs \in BOOLEAN
  /\ regs = path
  /\ admin = Idle
  /\ acked = {}
  /\ slot = [s \in Seats |-> None]
  /\ next = [s \in Seats |-> 0]
  /\ challenges = {}
  /\ failed = [a \in Sources |-> 0]
  /\ pc = [c \in Conns |-> "absent"]
  /\ source = [c \in Conns |-> None]
  /\ seat = [c \in Conns |-> None]
  /\ epoch = [c \in Conns |-> 0]
  /\ cancelled = {}
  /\ channel = [c \in Conns |-> <<>>]
  /\ hand = [c \in Conns |-> <<>>]
  /\ queued = [c \in Conns |-> Nothing]
  /\ got = [c \in Conns |-> <<>>]

-----------------------------------------------------------------------------
(* The core mutex: an operator's call keeps it while the state file is     *)
(* written.                                                                *)
Locked == admin # Idle

Goto(c, place) == pc' = [pc EXCEPT ![c] = place]

(* The task is over.                                                       *)
End(c) ==
  /\ Goto(c, "absent")
  /\ source' = [source EXCEPT ![c] = None]
  /\ seat' = [seat EXCEPT ![c] = None]
  /\ epoch' = [epoch EXCEPT ![c] = 0]
  /\ channel' = [channel EXCEPT ![c] = <<>>]
  /\ hand' = [hand EXCEPT ![c] = <<>>]
  /\ got' = [got EXCEPT ![c] = <<>>]

Cancelled(c) == c \in cancelled \/ server = "draining"

SeatsOf(r) == {s \in Seats : s.route = r}

(* route_state() = Forwarding *)
Forwarding(r) == ~regs[r].revoked /\ \A s \in SeatsOf(r) : slot[s] # None

Occupants(r) == {slot[s] : s \in SeatsOf(r)} \ {None}

(* The tokens cancel_and_clear cancels; a task that is gone has none.      *)
Tokens(r) == {c \in Occupants(r) : pc[c] # "absent"}

(* cancel_and_clear drops both endpoints.                                  *)
ClearRoute(r) ==
  /\ slot' = [s \in Seats |-> IF s.route = r THEN None ELSE slot[s]]
  /\ queued' = [c \in Conns |-> IF c \in Occupants(r) THEN Nothing ELSE queued[c]]

(* record_failed.  source_is_limited asks for MaxFailures or more.         *)
RecordFailed(a) ==
  failed' = [failed EXCEPT ![a] = IF @ < MaxFailures THEN @ + 1 ELSE @]

InHand(c) == IF pc[c] = "sending" THEN hand[c] ELSE <<>>

(* What the client of a connection was sent and will be sent.              *)
Stream(c) == got[c] \o InHand(c) \o channel[c]

-----------------------------------------------------------------------------
(* Admission.                                                              *)

(* Nothing refers to c: no endpoint, no pending serial, no envelope.       *)
Unnamed(c) ==
  /\ \A s \in Seats : slot[s] # c
  /\ \A ch \in challenges : ch.serial # c
  /\ \A d \in Conns : \A i \in DOMAIN Stream(d) : Stream(d)[i].from # c

(* serve_loop takes a permit for the handshake, or drops the connection.   *)
Accept(c, a) ==
  /\ server = "listening"
  /\ pc[c] = "absent"
  /\ Unnamed(c)
  /\ Cardinality({d \in Conns : pc[d] \in Handshaking}) < MaxHandshakes
  /\ source' = [source EXCEPT ![c] = a]
  /\ Goto(c, "hello")
  /\ UNCHANGED <<server, storeVars, coreVars, seat, epoch, cancelled, flowVars>>

Limited(c) ==
  failed[source[c]] >= MaxFailures \/ Cardinality(challenges) >= MaxChallenges

Free(s) == regs[s.route].known /\ ~regs[s.route].revoked /\ slot[s] = None

(* The client's hello names a seat; issue_challenge.                       *)
IssueChallenge(c, s) ==
  /\ pc[c] = "hello"
  /\ ~Locked
  /\ ~Limited(c)
  /\ Free(s)
  /\ challenges' = challenges \cup
       {[serial |-> c, seat |-> s, epoch |-> regs[s.route].epoch,
         source |-> source[c]]}
  /\ Goto(c, "challenged")
  /\ UNCHANGED <<server, storeVars, slot, next, failed, seatVars, cancelled, flowVars>>

(* The early returns of issue_challenge: only those about the route count  *)
(* as failures of the source.                                              *)
RefuseHello(c, s) ==
  /\ pc[c] = "hello"
  /\ ~Locked
  /\ \/ Limited(c) /\ UNCHANGED failed
     \/ ~Limited(c) /\ ~Free(s) /\ RecordFailed(source[c])
  /\ Goto(c, "refusing")
  /\ UNCHANGED <<server, storeVars, slot, next, challenges, seatVars, cancelled, flowVars>>

(* What admit asks of a proof before it looks at the route.  verify        *)
(* accepts the signature of the right credential over this challenge.      *)
Proves(c, ch, signed) == ch.source = source[c] /\ signed

Current(ch) ==
  /\ regs[ch.seat.route].known
  /\ ~regs[ch.seat.route].revoked
  /\ regs[ch.seat.route].epoch = ch.epoch

PairLimit(s) ==
  /\ slot[Peer(s)] # None
  /\ Cardinality({r \in Routes : Forwarding(r)}) >= MaxPairs

(* Mutant: pairing does not reset the sequences.                           *)
Admit_KeepsSequence(c, ch) ==
  /\ pc[c] = "challenged"
  /\ ~Locked
  /\ Proves(c, ch, TRUE)
  /\ Current(ch)
  /\ slot[ch.seat] = None
  /\ ~PairLimit(ch.seat)
  /\ challenges' = challenges \ {ch}
  /\ slot' = [slot EXCEPT ![ch.seat] = c]
  /\ seat' = [seat EXCEPT ![c] = ch.seat]
  /\ epoch' = [epoch EXCEPT ![c] = ch.epoch]
  /\ Goto(c, "accepting")
  /\ UNCHANGED <<server, storeVars, next, failed, source, cancelled, flowVars>>

(* The client's proof names a serial, that of its own challenge or not.    *)
(* The challenge is used up whatever comes of it.                          *)
Admit(c, ch) ==
  /\ pc[c] = "challenged"
  /\ ~Locked
  /\ Proves(c, ch, TRUE)
  /\ Current(ch)
  /\ slot[ch.seat] = None
  /\ ~PairLimit(ch.seat)
  /\ challenges' = challenges \ {ch}
  /\ slot' = [slot EXCEPT ![ch.seat] = c]
  /\ seat' = [seat EXCEPT ![c] = ch.seat]
  /\ epoch' = [epoch EXCEPT ![c] = ch.epoch]
  /\ next' = IF slot[Peer(ch.seat)] = None THEN next
             ELSE [s \in Seats |-> IF s.route = ch.seat.route THEN 0 ELSE next[s]]
  /\ Goto(c, "accepting")
  /\ UNCHANGED <<server, storeVars, failed, source, cancelled, flowVars>>

(* The early returns of admit after a known serial: PairLimit is not held  *)
(* against the source.                                                     *)
RefuseProof(c, ch, signed) ==
  /\ pc[c] = "challenged"
  /\ ~Locked
  /\ challenges' = challenges \ {ch}
  /\ \/ /\ ~Proves(c, ch, signed) \/ ~Current(ch) \/ slot[ch.seat] # None
        /\ RecordFailed(source[c])
     \/ /\ Proves(c, ch, signed) /\ Current(ch) /\ slot[ch.seat] = None
        /\ PairLimit(ch.seat)
        /\ UNCHANGED failed
  /\ Goto(c, "refusing")
  /\ UNCHANGED <<server, storeVars, slot, next, seatVars, cancelled, flowVars>>

(* A serial that is not pending: never given, used, expired or revoked.    *)
ReplayedProof(c) ==
  /\ pc[c] = "challenged"
  /\ ~Locked
  /\ RecordFailed(source[c])
  /\ Goto(c, "refusing")
  /\ UNCHANGED <<server, storeVars, slot, next, challenges, seatVars, cancelled, flowVars>>

(* The accepted result reached the client; run_forwarding begins.          *)
Accepted(c) ==
  /\ pc[c] = "accepting"
  /\ Goto(c, "forwarding")
  /\ UNCHANGED <<server, storeVars, coreVars, seatVars, cancelled, flowVars>>

(* handle_connection returns from the handshake: a failed upgrade, a       *)
(* client that is gone or sends something else, a refusal that was sent,   *)
(* the timeout of ADMISSION_LIFETIME, and a failure to send the accepted   *)
(* result, after which nobody disconnects the endpoint.                    *)
HandshakeEnds(c) ==
  /\ pc[c] \in Handshaking
  /\ End(c)
  /\ cancelled' = cancelled \ {c}
  /\ UNCHANGED <<server, storeVars, coreVars, queued>>

-----------------------------------------------------------------------------
(* run_forwarding.  Its select! is biased: a cancelled token first, then   *)
(* what waits for the client, then what the client sends.                  *)

(* Every return of run_forwarding drops the channel's receiver.            *)
Leave(c) ==
  /\ Goto(c, "leaving")
  /\ channel' = [channel EXCEPT ![c] = <<>>]
  /\ hand' = [hand EXCEPT ![c] = <<>>]

SeeCancelled(c) ==
  /\ pc[c] = "forwarding"
  /\ Cancelled(c)
  /\ server = "draining" \/ ~Locked
  /\ Leave(c)
  /\ UNCHANGED <<server, storeVars, coreVars, seatVars, cancelled, queued, got>>

TakeOutgoing(c) ==
  /\ pc[c] = "forwarding"
  /\ ~Cancelled(c)
  /\ channel[c] # <<>>
  /\ hand' = [hand EXCEPT ![c] = <<Head(channel[c])>>]
  /\ channel' = [channel EXCEPT ![c] = Tail(@)]
  /\ Goto(c, "sending")
  /\ UNCHANGED <<server, storeVars, coreVars, seatVars, cancelled, queued, got>>

Less(a, b) == IF a < b THEN 0 ELSE a - b

(* The client was sent the envelope; delivered.                            *)
Deliver(c) ==
  /\ pc[c] = "sending"
  /\ ~Locked
  /\ got' = [got EXCEPT ![c] = Append(@, hand[c][1])]
  /\ queued' = IF slot[seat[c]] # c THEN queued
               ELSE [queued EXCEPT ![c] = [messages |-> Less(@.messages, 1),
                                           bytes |-> Less(@.bytes, hand[c][1].size)]]
  /\ hand' = [hand EXCEPT ![c] = <<>>]
  /\ Goto(c, "forwarding")
  /\ UNCHANGED <<server, storeVars, coreVars, seatVars, cancelled, channel>>

(* A binary message of the client that decodes as an envelope.             *)
ReadEnvelope(c, e) ==
  /\ pc[c] = "forwarding"
  /\ ~Cancelled(c)
  /\ channel[c] = <<>>
  /\ hand' = [hand EXCEPT ![c] = <<e>>]
  /\ Goto(c, "reading")
  /\ UNCHANGED <<server, storeVars, coreVars, seatVars, cancelled, channel, queued, got>>

(* The client closes, sends anything else, or cannot be written to.        *)
ClientFails(c) ==
  /\ pc[c] \in {"forwarding", "sending"}
  /\ pc[c] = "forwarding" => ~Cancelled(c) /\ channel[c] = <<>>
  /\ Leave(c)
  /\ UNCHANGED <<server, storeVars, coreVars, seatVars, cancelled, queued, got>>

(* validate_endpoint *)
ValidEndpoint(c) ==
  /\ ~regs[seat[c].route].revoked
  /\ regs[seat[c].route].epoch = epoch[c]
  /\ slot[seat[c]] = c

(* Mutant: the limit is one message late.                                  *)
QueueFull_Late(d, e) ==
  \/ queued[d].messages > QueueMessages
  \/ queued[d].bytes + e.size > QueueBytes + 1

QueueFull(d, e) ==
  \/ queued[d].messages >= QueueMessages
  \/ queued[d].bytes + e.size > QueueBytes

(* try_send *)
CanSend(d) == pc[d] \in Receiving /\ Len(channel[d]) < ChannelSize

Fits(c, e) == e.seat = seat[c] /\ e.sequence = next[seat[c]]

(* forward: every check passes and the envelope waits for the peer.        *)
Forward(c) ==
  /\ pc[c] = "reading"
  /\ ~Locked
  /\ ValidEndpoint(c)
  /\ LET e == hand[c][1]
         d == slot[Peer(seat[c])]
     IN /\ d # None
        /\ Fits(c, e)
        /\ ~QueueFull(d, e)
        /\ CanSend(d)
        /\ channel' = [channel EXCEPT ![d] = Append(@, e)]
        /\ queued' = [queued EXCEPT ![d] = [messages |-> @.messages + 1,
                                            bytes |-> @.bytes + e.size]]
        /\ next' = [next EXCEPT ![seat[c]] = @ + 1]
  /\ hand' = [hand EXCEPT ![c] = <<>>]
  /\ Goto(c, "forwarding")
  /\ UNCHANGED <<server, storeVars, slot, challenges, failed, seatVars, cancelled, got>>

(* forward: an endpoint that was replaced, revoked or closed, or one whose *)
(* peer is missing.                                                        *)
ForwardRefused(c) ==
  /\ pc[c] = "reading"
  /\ ~Locked
  /\ ~ValidEndpoint(c) \/ slot[Peer(seat[c])] = None
  /\ Leave(c)
  /\ UNCHANGED <<server, storeVars, coreVars, seatVars, cancelled, queued, got>>

(* Mutant: only the sender is cancelled.                                   *)
ForwardCloses_OneSide(c) ==
  /\ pc[c] = "reading"
  /\ ~Locked
  /\ ValidEndpoint(c)
  /\ slot[Peer(seat[c])] # None
  /\ ClearRoute(seat[c].route)
  /\ cancelled' = cancelled \cup {c}
  /\ Leave(c)
  /\ UNCHANGED <<server, storeVars, next, challenges, failed, seatVars, got>>

(* close_with: another route or direction, a replay or a gap, a full       *)
(* queue, a peer whose task is gone, or the rate limit, which may stop any *)
(* envelope.                                                               *)
ForwardCloses(c) ==
  /\ pc[c] = "reading"
  /\ ~Locked
  /\ ValidEndpoint(c)
  /\ slot[Peer(seat[c])] # None
  /\ ClearRoute(seat[c].route)
  /\ cancelled' = cancelled \cup Tokens(seat[c].route)
  /\ Leave(c)
  /\ UNCHANGED <<server, storeVars, next, challenges, failed, seatVars, got>>

(* Mutant: disconnect does not compare the connection id.                  *)
Disconnect_Anyone(c) ==
  /\ pc[c] = "leaving"
  /\ ~Locked
  /\ ClearRoute(seat[c].route)
  /\ cancelled' = (cancelled \cup Tokens(seat[c].route)) \ {c}
  /\ End(c)
  /\ UNCHANGED <<server, storeVars, next, challenges, failed>>

(* Mutant: disconnect drops its own endpoint and leaves the peer's.        *)
Disconnect_OwnSeat(c) ==
  /\ pc[c] = "leaving"
  /\ ~Locked
  /\ IF slot[seat[c]] = c
     THEN /\ slot' = [slot EXCEPT ![seat[c]] = None]
          /\ queued' = [queued EXCEPT ![c] = Nothing]
     ELSE UNCHANGED <<slot, queued>>
  /\ cancelled' = cancelled \ {c}
  /\ End(c)
  /\ UNCHANGED <<server, storeVars, next, challenges, failed>>

(* disconnect, and the end of the task.                                    *)
Disconnect(c) ==
  /\ pc[c] = "leaving"
  /\ ~Locked
  /\ IF slot[seat[c]] = c
     THEN /\ ClearRoute(seat[c].route)
          /\ cancelled' = (cancelled \cup Tokens(seat[c].route)) \ {c}
     ELSE /\ UNCHANGED <<slot, queued>>
          /\ cancelled' = cancelled \ {c}
  /\ End(c)
  /\ UNCHANGED <<server, storeVars, next, challenges, failed>>

-----------------------------------------------------------------------------
(* The operator.  Both calls stage the new state, rename it into place,    *)
(* sync the directory and only then change the memory; the mutex is held   *)
(* throughout.                                                             *)

BeginRegister(r) ==
  /\ server # "down"
  /\ ~Locked
  /\ ~regs[r].known
  /\ Cardinality({q \in Routes : regs[q].known}) < MaxRoutes
  /\ admin' = [op |-> "register", route |-> r, step |-> "staged"]
  /\ UNCHANGED <<server, regs, path, durable, syncs, acked, coreVars, pc, seatVars, cancelled, flowVars>>

BeginRevoke(r) ==
  /\ server # "down"
  /\ ~Locked
  /\ regs[r].known
  /\ regs[r].epoch < MaxEpoch
  /\ admin' = [op |-> "revoke", route |-> r, step |-> "staged"]
  /\ UNCHANGED <<server, regs, path, durable, syncs, acked, coreVars, pc, seatVars, cancelled, flowVars>>

Committed ==
  [regs EXCEPT ![admin.route] = IF admin.op = "register" THEN Fresh ELSE Revoked(@)]

Rename ==
  /\ Locked
  /\ admin.step = "staged"
  /\ path' = Committed
  /\ durable' = durable \cup {path'}
  /\ admin' = [admin EXCEPT !.step = "renamed"]
  /\ UNCHANGED <<server, regs, syncs, acked, coreVars, pc, seatVars, cancelled, flowVars>>

(* Staging, the rename or the sync fails: the call returns the error and   *)
(* the memory stays.  A rename that was made stands.                       *)
CommitFails ==
  /\ Locked
  /\ admin' = Idle
  /\ UNCHANGED <<server, regs, path, durable, syncs, acked, coreVars, pc, seatVars, cancelled, flowVars>>

(* sync_parent: where the file system cannot sync a directory, the error   *)
(* is dropped, and every file renamed away since the last sync may come    *)
(* back.                                                                   *)
SyncParent == durable' = IF syncs THEN {path} ELSE durable

(* sync_parent, then insert_registration.                                  *)
FinishRegister ==
  /\ Locked
  /\ admin.op = "register" /\ admin.step = "renamed"
  /\ SyncParent
  /\ regs' = Committed
  /\ admin' = Idle
  /\ UNCHANGED <<server, path, syncs, acked, coreVars, pc, seatVars, cancelled, flowVars>>

(* Mutant: the operator is told before the directory is synced.            *)
FinishRevoke_Unsynced ==
  /\ Locked
  /\ admin.op = "revoke" /\ admin.step = "renamed"
  /\ regs' = Committed
  /\ ClearRoute(admin.route)
  /\ cancelled' = cancelled \cup Tokens(admin.route)
  /\ challenges' = {ch \in challenges : ch.seat.route # admin.route}
  /\ acked' = acked \cup {admin.route}
  /\ admin' = Idle
  /\ UNCHANGED <<server, path, durable, syncs, next, failed, pc, seatVars, channel, hand, got>>

(* sync_parent, then apply_revocation; the operator is told.               *)
FinishRevoke ==
  /\ Locked
  /\ admin.op = "revoke" /\ admin.step = "renamed"
  /\ SyncParent
  /\ regs' = Committed
  /\ ClearRoute(admin.route)
  /\ cancelled' = cancelled \cup Tokens(admin.route)
  /\ challenges' = {ch \in challenges : ch.seat.route # admin.route}
  /\ acked' = acked \cup {admin.route}
  /\ admin' = Idle
  /\ UNCHANGED <<server, path, syncs, next, failed, pc, seatVars, channel, hand, got>>

-----------------------------------------------------------------------------
(* Time and failures.                                                      *)

(* A challenge reaches its expiry.  issue_challenge prunes it before it    *)
(* counts, and admit refuses its proof like that of a serial it does not   *)
(* know.                                                                   *)
ExpireChallenge(ch) ==
  /\ challenges' = challenges \ {ch}
  /\ UNCHANGED <<server, storeVars, slot, next, failed, pc, seatVars, cancelled, flowVars>>

(* The window of a source's failures is over.                              *)
WindowEnds(a) ==
  /\ failed[a] > 0
  /\ failed' = [failed EXCEPT ![a] = 0]
  /\ UNCHANGED <<server, storeVars, slot, next, challenges, pc, seatVars, cancelled, flowVars>>

(* shutdown, or an accept that fails: no more connections, and every token *)
(* is cancelled.  A handshake does not look at its token.                  *)
Shutdown ==
  /\ Outages
  /\ server = "listening"
  /\ server' = "draining"
  /\ UNCHANGED <<storeVars, coreVars, pc, seatVars, cancelled, flowVars>>

(* The memory and the tasks are gone; the next start loads what the state  *)
(* file then holds.                                                        *)
Lost(file) ==
  /\ path' = file
  /\ regs' = file
  /\ admin' = Idle
  /\ server' = "down"
  /\ slot' = [s \in Seats |-> None]
  /\ next' = [s \in Seats |-> 0]
  /\ challenges' = {}
  /\ failed' = [a \in Sources |-> 0]
  /\ pc' = [c \in Conns |-> "absent"]
  /\ channel' = [c \in Conns |-> <<>>]
  /\ hand' = [c \in Conns |-> <<>>]
  /\ queued' = [c \in Conns |-> Nothing]
  /\ got' = [c \in Conns |-> <<>>]
  /\ source' = [c \in Conns |-> None]
  /\ seat' = [c \in Conns |-> None]
  /\ epoch' = [c \in Conns |-> 0]
  /\ cancelled' = {}
  /\ UNCHANGED syncs

(* The process ends: it crashes, or its drain is over and abort_all ends   *)
(* the tasks that are left.                                                *)
ProcessEnds ==
  /\ Outages
  /\ server # "down"
  /\ Lost(path)
  /\ UNCHANGED <<durable, acked>>

(* A rename whose directory was not synced may be undone, or not.  Where   *)
(* directories are not synced, the file may come back as it was before a   *)
(* revocation that was acknowledged, which then stands no more.            *)
PowerCut ==
  /\ Outages
  /\ \E file \in durable :
       /\ Lost(file)
       /\ durable' = {file}
       /\ acked' = IF syncs THEN acked ELSE {r \in acked : file[r].revoked}

(* start_inner: acquire the lock, load the state file, listen.             *)
Start ==
  /\ server = "down"
  /\ server' = "listening"
  /\ UNCHANGED <<storeVars, coreVars, pc, seatVars, cancelled, flowVars>>

-----------------------------------------------------------------------------
(* What clients may send.                                                  *)
ClientEnvelope(c) ==
  [from : {c}, seat : Seats, sequence : 0 .. MaxSequence, size : Sizes]

Handshake(c) ==
  \/ \E a \in Sources : Accept(c, a)
  \/ \E s \in Seats : IssueChallenge(c, s) \/ RefuseHello(c, s)
  \/ \E ch \in challenges : Admit(c, ch) \/ (\E b \in BOOLEAN : RefuseProof(c, ch, b))
  \/ ReplayedProof(c)
  \/ Accepted(c)
  \/ HandshakeEnds(c)

Connected(c) ==
  \/ SeeCancelled(c)
  \/ TakeOutgoing(c)
  \/ Deliver(c)
  \/ \E e \in ClientEnvelope(c) : ReadEnvelope(c, e)
  \/ ClientFails(c)
  \/ Forward(c)
  \/ ForwardRefused(c)
  \/ ForwardCloses(c)
  \/ Disconnect(c)

Operator ==
  \/ \E r \in Routes : BeginRegister(r) \/ BeginRevoke(r)
  \/ Rename
  \/ CommitFails
  \/ FinishRegister
  \/ FinishRevoke

Environment ==
  \/ \E ch \in challenges : ExpireChallenge(ch)
  \/ \E a \in Sources : WindowEnds(a)
  \/ Shutdown
  \/ ProcessEnds
  \/ PowerCut
  \/ Start

Next ==
  \/ \E c \in Conns : Handshake(c) \/ Connected(c)
  \/ Operator
  \/ Environment

Spec == Init /\ [][Next]_vars

-----------------------------------------------------------------------------
(* Properties.                                                             *)

TypeOK ==
  /\ server \in {"listening", "draining", "down"}
  /\ regs \in [Routes -> Registration]
  /\ path \in [Routes -> Registration]
  /\ durable \in SUBSET [Routes -> Registration]
  /\ syncs \in BOOLEAN
  /\ admin \in Op \cup {Idle}
  /\ acked \in SUBSET Routes
  /\ slot \in [Seats -> Conns \cup {None}]
  /\ next \in [Seats -> Nat]
  /\ challenges \in SUBSET Challenge
  /\ failed \in [Sources -> 0 .. MaxFailures]
  /\ pc \in [Conns -> Places]
  /\ source \in [Conns -> Sources \cup {None}]
  /\ seat \in [Conns -> Seats \cup {None}]
  /\ epoch \in [Conns -> Nat]
  /\ cancelled \in SUBSET Conns
  /\ channel \in [Conns -> Seq(Envelope)]
  /\ hand \in [Conns -> Seq(Envelope)]
  /\ queued \in [Conns -> [messages : Nat, bytes : Nat]]
  /\ got \in [Conns -> Seq(Envelope)]

Occupies(c) == seat[c] # None /\ slot[seat[c]] = c
Running(c) == pc[c] \in {"accepting", "forwarding", "reading", "sending", "leaving"}

(* A connection that lost its seat, by its peer's failure, a limit or a    *)
(* revocation, is cancelled: no task goes on as an endpoint of a route     *)
(* that no longer knows it.                                                *)
EvictedIsCancelled == \A c \in Conns : Running(c) => Occupies(c) \/ Cancelled(c)

(* A client is sent the envelopes of one connection, its peer on the       *)
(* route, each once, in the order of their sequence and without a gap,     *)
(* whatever endpoints came and went before or after.                       *)
OnePeerInOrder ==
  \A c \in Conns : \A i \in 1 .. Len(Stream(c)) :
    LET e == Stream(c)[i] IN
    /\ e.sequence = i - 1
    /\ e.from = Stream(c)[1].from
    /\ Running(e.from) => seat[e.from] = Peer(seat[c])

Bytes(envelopes) ==
  LET upTo[i \in 0 .. Len(envelopes)] ==
        IF i = 0 THEN 0 ELSE upTo[i - 1] + envelopes[i].size
  IN upTo[Len(envelopes)]

(* The two counters that the queue limits are checked against are exactly  *)
(* what waits for the client, the envelope that is being sent included,    *)
(* and stay within the quota.                                              *)
QueueAccounted ==
  \A c \in Conns : pc[c] \in Receiving /\ Occupies(c) =>
    /\ queued[c].messages = Len(InHand(c) \o channel[c])
    /\ queued[c].bytes = Bytes(InHand(c) \o channel[c])
    /\ queued[c].messages <= QueueMessages
    /\ queued[c].bytes <= QueueBytes

(* Once revoke_route returned Ok, no crash, restart or later commit brings *)
(* the route back, and no power cut where the file system syncs            *)
(* directories: no endpoint, no pending challenge, no task that is not     *)
(* cancelled.  Where it does not, a power cut may: sync_parent's comment   *)
(* calls the durability there weaker.                                      *)
RevokedForGood ==
  \A r \in acked :
    /\ regs[r].revoked /\ path[r].revoked
    /\ syncs => \A file \in durable : file[r].revoked
    /\ \A s \in SeatsOf(r) : slot[s] = None
    /\ \A ch \in challenges : ch.seat.route # r
    /\ \A c \in Conns : Running(c) /\ seat[c].route = r => Cancelled(c)

(* An endpoint loses its seat only because one of the two endpoints of its *)
(* route ends, its route is revoked or the server ends: a late step of a   *)
(* connection that was replaced closes nobody.                             *)
EvictedForCause ==
  [][\A s \in Seats :
       slot[s] # None /\ slot'[s] # slot[s] =>
         \/ server' = "down"
         \/ regs'[s.route].revoked
         \/ \E q \in SeatsOf(s.route) :
              slot[q] # None /\ pc'[slot[q]] \in {"leaving", "absent"}]_vars

(* Every seat that is taken has a task that will give it back: "Disconnect *)
(* closes the exact route and drops both queues".  It does not hold: a     *)
(* connection that cannot be told it was admitted ends without disconnect. *)
SeatHasTask ==
  \A s \in Seats : slot[s] # None => Running(slot[s])

-----------------------------------------------------------------------------
(* The inductive invariant.                                                *)

(* What the operator's call in progress knows of the registrations, and    *)
(* what an acknowledged revocation left in memory and in the file.         *)
StoreInv ==
  /\ admin # Idle =>
       /\ admin.op = "register" => ~regs[admin.route].known
       /\ admin.op = "revoke" => regs[admin.route].known
       /\ admin.step = "renamed" => path = Committed
  /\ path \in durable
  /\ \A r \in acked : regs[r].known /\ regs[r].revoked /\ path[r].revoked
  /\ \A r \in acked : syncs => \A file \in durable : file[r].revoked
  /\ \A file \in durable \cup {regs} : \A r \in Routes : file[r].revoked => file[r].known
  /\ \A ch \in challenges : ch.seat.route \notin acked

(* A task has an address, and a seat while it runs as an endpoint; a       *)
(* seat's occupant is such a connection, admitted under the current epoch, *)
(* or one whose task is gone; nobody occupies two seats.                   *)
SeatInv ==
  /\ \A c \in Conns : pc[c] # "absent" => source[c] \in Sources
  /\ \A c \in Conns : Running(c) <=> seat[c] # None
  /\ \A c \in cancelled : Running(c)
  /\ \A s \in Seats : slot[s] # None =>
       /\ regs[s.route].known /\ ~regs[s.route].revoked
       /\ slot[s] \notin cancelled
       /\ Running(slot[s]) \/ pc[slot[s]] = "absent"
       /\ Running(slot[s]) => seat[slot[s]] = s /\ epoch[slot[s]] = regs[s.route].epoch
       /\ \A q \in Seats : slot[q] = slot[s] => q = s

(* The hand of a task is empty unless it sends or has read an envelope,    *)
(* its own; a task that is no endpoint has nothing, and no envelope comes  *)
(* from one that is in its handshake.                                      *)
HandInv ==
  \A c \in Conns :
    /\ Len(hand[c]) = IF pc[c] \in {"reading", "sending"} THEN 1 ELSE 0
    /\ pc[c] = "reading" => hand[c][1].from = c
    /\ ~Running(c) => got[c] = <<>> /\ channel[c] = <<>>
    /\ pc[c] \in {"hello", "challenged", "refusing"} =>
         \A d \in Conns : \A i \in 1 .. Len(Stream(d)) : Stream(d)[i].from # c

(* While both seats of a route are taken, an endpoint's stream is what its *)
(* peer sent since they were paired; before, it is empty.                  *)
StreamInv ==
  \A c \in Conns : pc[c] \in Receiving /\ Occupies(c) =>
    LET p == Peer(seat[c]) IN
    /\ Len(Stream(c)) = IF slot[p] = None THEN 0 ELSE next[p]
    /\ \A i \in 1 .. Len(Stream(c)) : Stream(c)[i].from = slot[p]

(* The queue's counters belong to the endpoint in the seat: a connection   *)
(* that has none counts nothing, so that one that is admitted starts at    *)
(* zero.                                                                   *)
QueueInv ==
  /\ QueueAccounted
  /\ \A c \in Conns : queued[c] # Nothing => \E s \in Seats : slot[s] = c

RelayInv ==
  /\ TypeOK
  /\ StoreInv
  /\ SeatInv
  /\ EvictedIsCancelled
  /\ HandInv
  /\ StreamInv
  /\ OnePeerInOrder

==============================================================================
