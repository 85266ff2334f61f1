---------------------------- MODULE HostRequests ----------------------------
(***************************************************************************)
(* The connections of one Session Host and what they ask of its terminal:  *)
(* the handshake and its nonces, the writer lease, input, resize and       *)
(* interrupt under the idempotency mutex, and the end of a connection      *)
(* (accept_loop and serve_connection, multiplex-session-host/src/host.rs). *)
(* SessionHost has the stop requests and the end of the Host.              *)
(*                                                                         *)
(* A handler awaits between any two of these actions, and the other        *)
(* handlers run then.  A client sends one request and waits for its        *)
(* answer, or hangs up at any time.  A Host that closes ends a connection  *)
(* at the same places as a client that hangs up does.                      *)
(***************************************************************************)
EXTENDS Naturals, Sequences, FiniteSets, MutationCache

CONSTANTS
  Connections,      \* connection ids, which next_connection never gives twice
  Ids,              \* the command ids the clients use
  Args,             \* sizes of the terminal, and the bytes of an input
  Nonces,           \* the nonces the clients use
  FirstSize,        \* the size the terminal starts with
  MaxConnections,   \* MAX_CONNECTIONS
  MaxRequests,      \* bound: requests of all clients
  MaxFaults,        \* bound: calls that fail or requests that are malformed
  None              \* no connection

ASSUME RequestsAssumption ==
  /\ None \notin Connections
  /\ IsFiniteSet(Connections)
  /\ FirstSize \in Args
  /\ MaxConnections \in Nat \ {0}
  /\ MaxRequests \in Nat
  /\ MaxFaults \in Nat

VARIABLES
  pc,         \* where each connection's handler is
  nonce,      \* the nonce of each connection, once it was accepted
  req,        \* the request each connection carries
  reply,      \* its answer, as far as the client has seen it
  told,       \* whether the last answer about the lease says the client holds it
  permits,    \* free permits of accept_loop's semaphore
  lease,      \* writer_lease
  lock,       \* who holds the idempotency mutex
  outcomes,   \* the MutationCache under it
  nonces,     \* handshake_nonces, oldest first
  pty,        \* the size of the PTY
  screen,     \* the size of the parser's screen, which StateEvent reports
  effects,    \* what was done to the terminal and its child, in order
  forgotten,  \* the command ids and nonces that were evicted or expired
  requests,   \* requests sent
  faults      \* faults

connVars  == <<pc, nonce, req, reply, told>>
leaseVars == <<permits, lease>>
cacheVars == <<lock, outcomes, effects>>
sizeVars  == <<pty, screen>>
bounds    == <<requests, faults>>
vars      == <<connVars, leaseVars, cacheVars, nonces, forgotten, sizeVars, bounds>>

Mutations == {"input", "resize", "interrupt"}
Kinds     == Mutations \cup {"claim", "release", "query", "detach"}
Request   == [kind : Kinds, id : Ids \cup {None}, arg : Args]
Hash      == [kind : Kinds, arg : Args]

(* The requests of the clients: a mutation has a command id, an input its   *)
(* bytes and a resize its size.                                            *)
Requests  == {r \in Request : /\ r.kind \in Mutations <=> r.id # None
                              /\ r.kind \notin {"input", "resize"} => r.arg = FirstSize}

(* The handler of a connection that was accepted and has not ended.        *)
Serving   == {"greeting", "welcome", "open", "checking", "waiting", "typing", "answering",
              "conflict", "sizing", "leasing", "telling", "denied", "ending"}

(* The handlers that write or read, which is when the client can be gone.  *)
OnTheWire == {"greeting", "welcome", "open", "answering", "conflict", "telling", "denied"}

ConnectionsOK ==
  /\ pc \in [Connections -> Serving \cup {"new", "gone"}]
  /\ nonce \in [Connections -> Nonces \cup {None}]
  /\ req \in [Connections -> Request]
  /\ reply \in [Connections -> {"none", "ok", "error"}]
  /\ told \in [Connections -> BOOLEAN]

CachesOK ==
  /\ lock \in Connections \cup {None}
  /\ outcomes \in Seq([id : Ids \cup {None}, hash : Hash])
  /\ effects \in Seq([id : Ids \cup {None}, hash : Hash])
  /\ nonces \in Seq(Nonces)

TypeOK ==
  /\ ConnectionsOK /\ CachesOK
  /\ permits \in 0..MaxConnections
  /\ lease \in Connections \cup {None}
  /\ pty \in Args /\ screen \in Args
  /\ requests \in Nat /\ faults \in Nat

Init ==
  /\ pc = [c \in Connections |-> "new"]
  /\ nonce = [c \in Connections |-> None]
  /\ req = [c \in Connections |-> [kind |-> "query", id |-> None, arg |-> FirstSize]]
  /\ reply = [c \in Connections |-> "none"]
  /\ told = [c \in Connections |-> FALSE]
  /\ permits = MaxConnections /\ lease = None /\ lock = None
  /\ outcomes = <<>> /\ effects = <<>> /\ nonces = <<>> /\ forgotten = {}
  /\ pty = FirstSize /\ screen = FirstSize
  /\ requests = 0 /\ faults = 0

Fault == faults < MaxFaults /\ faults' = faults + 1 /\ UNCHANGED requests

Goes(c, where) == pc' = [pc EXCEPT ![c] = where]

-----------------------------------------------------------------------------
(* accept_loop and the handshake.                                          *)

(* Without a permit the stream is dropped.                                 *)
Accept(c) ==
  /\ pc[c] = "new"
  /\ \/ permits > 0 /\ permits' = permits - 1 /\ Goes(c, "greeting")
     \/ permits = 0 /\ Goes(c, "gone") /\ UNCHANGED permits
  /\ UNCHANGED <<nonce, req, reply, told, lease, cacheVars, nonces, forgotten, sizeVars, bounds>>

(* claim_writer and release_writer: the holder afterwards.                 *)
ClaimWriter(c)   == IF lease = None THEN c ELSE lease

(* Mutant: whoever releases frees the lease. *)
ReleaseWriter_Any(c) == None

ReleaseWriter(c) == IF lease = c THEN None ELSE lease

Known(n) == \E i \in DOMAIN nonces : nonces[i] = n

(* NonceCache::accept of a nonce that is not known.                        *)
Remembered(n) == Append(IF Len(nonces) >= MaxOutcomes THEN Tail(nonces) ELSE nonces, n)

(* Mutant: a nonce that is known is welcome. *)
Handshake_Replayed(c, n, claim) ==
  /\ pc[c] = "greeting"
  /\ nonce' = [nonce EXCEPT ![c] = n]
  /\ nonces' = Remembered(n)
  /\ forgotten' = IF Len(nonces) >= MaxOutcomes THEN forgotten \cup {nonces[1]} ELSE forgotten
  /\ lease' = IF claim THEN ClaimWriter(c) ELSE lease
  /\ Goes(c, "welcome")
  /\ UNCHANGED <<req, reply, told, permits, cacheVars, sizeVars, bounds>>

(* A known nonce is refused; another is remembered.  A client with no        *)
(* protocol or limits in common fails then; for another the lease is claimed  *)
(* if it asks for it.  The response does not say who holds it.                *)
Handshake(c, n, claim) ==
  /\ pc[c] = "greeting"
  /\ \/ /\ Known(n)
        /\ Goes(c, "denied")
        /\ UNCHANGED <<nonce, nonces, forgotten, lease, bounds>>
     \/ /\ ~Known(n)
        /\ nonce' = [nonce EXCEPT ![c] = n]
        /\ nonces' = Remembered(n)
        /\ forgotten' = IF Len(nonces) >= MaxOutcomes THEN forgotten \cup {nonces[1]} ELSE forgotten
        /\ \/ /\ lease' = IF claim THEN ClaimWriter(c) ELSE lease
              /\ Goes(c, "welcome")
              /\ UNCHANGED bounds
           \/ /\ \E where \in {"denied", "ending"} : Goes(c, where)
              /\ Fault
              /\ UNCHANGED lease
  /\ UNCHANGED <<req, reply, told, permits, cacheVars, sizeVars>>

(* The first envelope is no handshake or is for another session; or a       *)
(* request does not decode, lacks its capability, has a command id that is   *)
(* not its request id, or is too large.                                       *)
Malformed(c) ==
  /\ pc[c] \in {"greeting", "open"}
  /\ \E where \in {"denied", "ending"} : Goes(c, where)
  /\ Fault
  /\ UNCHANGED <<nonce, req, reply, told, leaseVars, cacheVars, nonces, forgotten, sizeVars>>

Welcome(c) ==
  /\ pc[c] = "welcome"
  /\ Goes(c, "open")
  /\ UNCHANGED <<nonce, req, reply, told, leaseVars, cacheVars, nonces, forgotten, sizeVars, bounds>>

-----------------------------------------------------------------------------
(* Requests.                                                                *)

(* Where the handler goes with a request.                                    *)
Dispatch(kind) ==
  IF kind = "input" THEN "checking"
  ELSE IF kind \in Mutations THEN "waiting"
  ELSE IF kind = "detach" THEN "ending"
  ELSE "leasing"

Send(c, r) ==
  /\ pc[c] = "open" /\ requests < MaxRequests
  /\ Goes(c, Dispatch(r.kind))
  /\ req' = [req EXCEPT ![c] = r]
  /\ reply' = [reply EXCEPT ![c] = "none"]
  /\ requests' = requests + 1
  /\ UNCHANGED <<nonce, told, leaseVars, cacheVars, nonces, forgotten, sizeVars, faults>>

(* Mutant: has_writer asks whether anyone holds the lease. *)
CheckWriter_Any(c) ==
  /\ pc[c] = "checking"
  /\ Goes(c, IF lease # None THEN "waiting" ELSE "denied")
  /\ UNCHANGED <<nonce, req, reply, told, leaseVars, cacheVars, nonces, forgotten, sizeVars, bounds>>

(* Input needs the lease (has_writer), and is applied later.                 *)
CheckWriter(c) ==
  /\ pc[c] = "checking"
  /\ Goes(c, IF lease = c THEN "waiting" ELSE "denied")
  /\ UNCHANGED <<nonce, req, reply, told, leaseVars, cacheVars, nonces, forgotten, sizeVars, bounds>>

HashOf(r) == [kind |-> r.kind, arg |-> r.arg]

Decision(c) == Inspect(outcomes, req[c].id, HashOf(req[c]))

(* The outcome is remembered, which may evict the oldest.                    *)
Remember(c) ==
  /\ outcomes' = Recorded(outcomes, req[c].id, HashOf(req[c]))
  /\ forgotten' = IF Len(outcomes) >= MaxOutcomes THEN forgotten \cup {outcomes[1].id} ELSE forgotten

(* Mutant: what was applied is not recorded. *)
ApplyMutation_Unrecorded(c) ==
  /\ pc[c] = "waiting" /\ lock = None /\ Decision(c) = "apply" /\ req[c].kind # "input"
  /\ lock' = c
  /\ effects' = Append(effects, Outcome(req[c].id, HashOf(req[c])))
  /\ pty' = IF req[c].kind = "resize" THEN req[c].arg ELSE pty
  /\ UNCHANGED <<outcomes, forgotten>>
  /\ Goes(c, "answering")
  /\ UNCHANGED <<nonce, req, reply, told, leaseVars, nonces, screen, bounds>>

(* handle_mutation: the group is interrupted or the PTY resized, and the     *)
(* outcome is remembered.                                                    *)
ApplyMutation(c) ==
  /\ pc[c] = "waiting" /\ lock = None /\ Decision(c) = "apply" /\ req[c].kind # "input"
  /\ lock' = c
  /\ effects' = Append(effects, Outcome(req[c].id, HashOf(req[c])))
  /\ pty' = IF req[c].kind = "resize" THEN req[c].arg ELSE pty
  /\ Remember(c)
  /\ Goes(c, "answering")
  /\ UNCHANGED <<nonce, req, reply, told, leaseVars, nonces, screen, bounds>>

(* Of an input, write_all begins.  It blocks, under the mutex and without a  *)
(* deadline, while the terminal's buffer is full ...                         *)
BeginInput(c) ==
  /\ pc[c] = "waiting" /\ lock = None /\ Decision(c) = "apply" /\ req[c].kind = "input"
  /\ lock' = c
  /\ Goes(c, "typing")
  /\ UNCHANGED <<nonce, req, reply, told, leaseVars, outcomes, effects, nonces, forgotten, sizeVars, bounds>>

(* ... and returns once the child has read enough of it.                     *)
FinishInput(c) ==
  /\ pc[c] = "typing"
  /\ effects' = Append(effects, Outcome(req[c].id, HashOf(req[c])))
  /\ Remember(c)
  /\ Goes(c, "answering")
  /\ UNCHANGED <<nonce, req, reply, told, leaseVars, lock, nonces, sizeVars, bounds>>

(* Mutant: the id alone makes a command a repetition. *)
RepeatMutation_AnyPayload(c) ==
  /\ pc[c] = "waiting" /\ lock = None /\ Decision(c) # "apply"
  /\ lock' = c
  /\ Goes(c, "answering")
  /\ UNCHANGED <<nonce, req, reply, told, leaseVars, outcomes, effects, nonces, forgotten, sizeVars, bounds>>

(* A command that is remembered is answered again, or conflicts.             *)
RepeatMutation(c) ==
  /\ pc[c] = "waiting" /\ lock = None /\ Decision(c) # "apply"
  /\ lock' = c
  /\ Goes(c, IF Decision(c) = "replay" THEN "answering" ELSE "conflict")
  /\ UNCHANGED <<nonce, req, reply, told, leaseVars, outcomes, effects, nonces, forgotten, sizeVars, bounds>>

(* The PTY could not be written or resized, or the group not be signalled.    *)
(* Of an input that failed the terminal may have taken some bytes, which      *)
(* effects leaves out.                                                        *)
MutationFails(c) ==
  /\ \/ pc[c] = "waiting" /\ lock = None
     \/ pc[c] = "typing"
  /\ lock' = None
  /\ Goes(c, "ending")
  /\ Fault
  /\ UNCHANGED <<nonce, req, reply, told, leaseVars, outcomes, effects, nonces, forgotten, sizeVars>>

(* The result is written under the mutex.                                    *)
Answer(c) ==
  /\ pc[c] = "answering"
  /\ Goes(c, IF req[c].kind = "resize" THEN "sizing" ELSE "open")
  /\ reply' = [reply EXCEPT ![c] = "ok"]
  /\ lock' = None
  /\ UNCHANGED <<nonce, req, told, leaseVars, outcomes, effects, nonces, forgotten, sizeVars, bounds>>

(* After the answer of a resize, the parser follows.                         *)
SetScreen(c) ==
  /\ pc[c] = "sizing"
  /\ screen' = req[c].arg
  /\ Goes(c, "open")
  /\ UNCHANGED <<nonce, req, reply, told, leaseVars, cacheVars, nonces, forgotten, pty, bounds>>

(* The error is written and serve_connection returns.                        *)
Refuse(c) ==
  /\ pc[c] \in {"conflict", "denied"}
  /\ Goes(c, "ending")
  /\ reply' = [reply EXCEPT ![c] = "error"]
  /\ lock' = IF lock = c THEN None ELSE lock
  /\ UNCHANGED <<nonce, req, told, leaseVars, outcomes, effects, nonces, forgotten, sizeVars, bounds>>

(* WriterLeaseRequest; GetState and Attach read the lease.                    *)
ReadLease(c) ==
  /\ pc[c] = "leasing"
  /\ \/ req[c].kind = "claim" /\ lease' = ClaimWriter(c)
     \/ req[c].kind = "release" /\ lease' = ReleaseWriter(c)
     \/ req[c].kind = "query" /\ UNCHANGED lease
  /\ told' = [told EXCEPT ![c] = (lease' = c)]
  /\ Goes(c, "telling")
  /\ UNCHANGED <<nonce, req, reply, permits, cacheVars, nonces, forgotten, sizeVars, bounds>>

Tell(c) ==
  /\ pc[c] = "telling"
  /\ Goes(c, "open")
  /\ reply' = [reply EXCEPT ![c] = "ok"]
  /\ UNCHANGED <<nonce, req, told, leaseVars, cacheVars, nonces, forgotten, sizeVars, bounds>>

-----------------------------------------------------------------------------
(* The end of a connection.                                                 *)

(* Mutant: the mutex of a handler that could not answer stays locked. *)
HangUp_Locked(c) ==
  /\ pc[c] \in OnTheWire
  /\ Goes(c, "ending")
  /\ UNCHANGED <<nonce, req, reply, told, leaseVars, cacheVars, nonces, forgotten, sizeVars, bounds>>

(* A read or a write finds the client gone or the Host closing.             *)
HangUp(c) ==
  /\ pc[c] \in OnTheWire
  /\ Goes(c, "ending")
  /\ lock' = IF lock = c THEN None ELSE lock
  /\ UNCHANGED <<nonce, req, reply, told, leaseVars, outcomes, effects, nonces, forgotten, sizeVars, bounds>>

(* Mutant: the lease of a connection that ended is kept. *)
End_KeepsLease(c) ==
  /\ pc[c] = "ending"
  /\ Goes(c, "gone")
  /\ told' = [told EXCEPT ![c] = FALSE]
  /\ permits' = permits + 1
  /\ UNCHANGED <<nonce, req, reply, lease, cacheVars, nonces, forgotten, sizeVars, bounds>>

(* serve_connection has returned, well or not.                              *)
End(c) ==
  /\ pc[c] = "ending"
  /\ Goes(c, "gone")
  /\ told' = [told EXCEPT ![c] = FALSE]
  /\ lease' = ReleaseWriter(c)
  /\ permits' = permits + 1
  /\ UNCHANGED <<nonce, req, reply, cacheVars, nonces, forgotten, sizeVars, bounds>>

(* The oldest outcome, or the oldest nonce, reaches IDEMPOTENCY_TTL.        *)
Expire ==
  /\ \/ /\ outcomes # <<>>
        /\ outcomes' = Pruned(outcomes)
        /\ forgotten' = forgotten \cup {outcomes[1].id}
        /\ UNCHANGED nonces
     \/ /\ nonces # <<>>
        /\ nonces' = Tail(nonces)
        /\ forgotten' = forgotten \cup {nonces[1]}
        /\ UNCHANGED outcomes
  /\ UNCHANGED <<connVars, leaseVars, lock, effects, sizeVars, bounds>>

-----------------------------------------------------------------------------
(* What the handler does by itself, and what waits for the mutex.           *)
Handler(c) == CheckWriter(c) \/ ReadLease(c) \/ SetScreen(c) \/ End(c)
Mutate(c)  == ApplyMutation(c) \/ BeginInput(c) \/ RepeatMutation(c)
(* What the client has to read.                                              *)
Written(c) == Welcome(c) \/ Answer(c) \/ Refuse(c) \/ Tell(c)
Client(c)  == \/ Accept(c) \/ HangUp(c) \/ Malformed(c) \/ MutationFails(c)
              \/ \E n \in Nonces, claim \in BOOLEAN : Handshake(c, n, claim)
              \/ \E r \in Requests : Send(c, r)

(* No connection id is left.                                                *)
Exhausted == (\A c \in Connections : pc[c] = "gone") /\ UNCHANGED vars

Next == Expire \/ Exhausted \/ \E c \in Connections : Handler(c) \/ Mutate(c) \/ FinishInput(c) \/ Written(c) \/ Client(c)

Spec == Init /\ [][Next]_vars

(* Every handler runs, the mutex is granted in the order it is asked for,    *)
(* and clients read what they are sent or hang up.  Nothing is assumed of    *)
(* the child: an input may block for ever.                                   *)
Fairness ==
  \A c \in Connections :
    WF_vars(Handler(c)) /\ SF_vars(Mutate(c)) /\ WF_vars(Written(c) \/ HangUp(c))

FairSpec == Spec /\ Fairness
-----------------------------------------------------------------------------
(* An input that passed the check of the lease is still the lease holder's    *)
(* when it is applied, though the handler waited for the mutex in between:     *)
(* two clients never type into the terminal at the same time.                  *)
WriterTypes ==
  \A c \in Connections :
    req[c].kind = "input" /\ pc[c] \in {"waiting", "typing", "answering"} => lease = c

(* A client that was told it holds the lease holds it until it gives it up or  *)
(* its connection ends, whatever the others claim, release and disconnect.     *)
ToldHolds == \A c \in Connections : told[c] => lease = c

(* A connection that ended, however it ended, gives back its permit and its    *)
(* lease: the next client can connect and claim.                               *)
EndedReturnsAll ==
  /\ lease # None => pc[lease] \in Serving
  /\ permits + Cardinality({c \in Connections : pc[c] \in Serving}) = MaxConnections

(* A command id takes effect once, on whichever connections it is repeated,    *)
(* unless its outcome was evicted or expired in between.                       *)
AppliedOnce ==
  \A i, j \in DOMAIN effects :
    i # j /\ effects[i].id = effects[j].id => effects[i].id \in forgotten

(* A mutation that is answered with success took effect with the payload the   *)
(* client sent: for this request, or for an earlier one that it repeats.       *)
AnsweredWasDone ==
  \A c \in Connections :
    reply[c] = "ok" /\ req[c].kind \in Mutations
      => \E i \in DOMAIN effects : effects[i] = Outcome(req[c].id, HashOf(req[c]))

(* Two connections whose handshakes got past the nonce presented different     *)
(* ones, unless the first one's was evicted or expired.                        *)
NonceOnce ==
  \A c, d \in Connections :
    c # d /\ nonce[c] # None /\ nonce[c] = nonce[d] => nonce[c] \in forgotten

(* The child reads its input, or its terminal is closed.                       *)
ChildReads == \A c \in Connections : WF_vars(FinishInput(c))

(* The handlers that have to do with the idempotency mutex.                    *)
AtMutex == {"checking", "waiting", "typing", "answering", "conflict"}

(* Every request comes to an end, and so does every connection that fails,     *)
(* while clients read or hang up: no handler waits for a mutex that a          *)
(* connection that is gone still holds.  Mutations need a child that reads its *)
(* input besides, because they wait behind an input that blocks; the requests  *)
(* that leave the mutex alone come to an end whatever the child does.          *)
RequestsEnd ==
  /\ \A c \in Connections :
       pc[c] \in Serving \ ({"greeting", "open"} \cup AtMutex) ~> pc[c] \in {"open", "gone"}
  /\ ChildReads =>
       \A c \in Connections : pc[c] \in AtMutex ~> pc[c] \in {"open", "gone"}

(* While no resize is under way, the size that StateEvent reports is the size  *)
(* of the PTY.  It does not hold: the screen is sized after the answer, outside *)
(* the mutex, and not at all when the client hangs up while it is written.     *)
ViewportIsPty ==
  (\A c \in Connections : req[c].kind = "resize" => pc[c] \notin {"answering", "sizing"})
    => screen = pty

-----------------------------------------------------------------------------
(* Why they hold.                                                             *)

(* The handlers between the inspection and the end of the answer hold the      *)
(* mutex, and nobody else does.                                                *)
Locked == \A c \in Connections : pc[c] \in {"typing", "answering", "conflict"} <=> lock = c

(* What is remembered was done, what was done is remembered or forgotten, a    *)
(* success about to be answered was done, and an input being typed was not.    *)
Remembering ==
  /\ \A i \in DOMAIN outcomes : \E j \in DOMAIN effects : effects[j] = outcomes[i]
  /\ \A i \in DOMAIN effects : Holds(outcomes, effects[i].id) \/ effects[i].id \in forgotten
  /\ \A c \in Connections : pc[c] = "answering"
       => \E i \in DOMAIN effects : effects[i] = Outcome(req[c].id, HashOf(req[c]))
  /\ \A c \in Connections : pc[c] = "typing" => ~Holds(outcomes, req[c].id)

(* A nonce that was accepted is remembered or forgotten.                       *)
NoncesKept ==
  \A c \in Connections : nonce[c] # None => Known(nonce[c]) \/ nonce[c] \in forgotten

(* The handlers of mutations carry mutations, and the others none.             *)
Dispatched ==
  \A c \in Connections :
    /\ pc[c] \in AtMutex => req[c].kind \in Mutations
    /\ pc[c] = "typing" => req[c].kind = "input"
    /\ pc[c] \in {"leasing", "telling"} => req[c].kind \notin Mutations

(* The inductive invariant of the requests.                                    *)
RequestsInv ==
  /\ TypeOK /\ Locked /\ Dispatched /\ WriterTypes /\ ToldHolds /\ EndedReturnsAll
  /\ Remembering /\ AppliedOnce /\ AnsweredWasDone /\ NoncesKept /\ NonceOnce
==============================================================================
