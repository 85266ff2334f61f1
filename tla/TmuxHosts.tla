------------------------------ MODULE TmuxHosts ------------------------------
(***************************************************************************)
(* The Session Hosts that multiplex-controller-listener starts for tmux    *)
(* sessions, for one tmux session and the connections of several phones:   *)
(* TmuxSessionSource (tmux_sessions.rs) counts the users of the shared     *)
(* Host and numbers its generations; HostConnectionBackend                 *)
(* (host_backend.rs) attaches, polls and detaches a connection;            *)
(* serve_authenticated_stream (runtime.rs) authorizes a command against    *)
(* the generation it presents and ends the connection at every error.      *)
(*                                                                         *)
(* The `hosts` mutex is held from the look-up to the insertion, across the *)
(* start of the Host; the generations have a mutex of their own and are    *)
(* read without `hosts`.  A connection's handler runs to its end: a lost   *)
(* connection is noticed only between two commands.  Hosts are numbered in *)
(* the order of their start, across restarts of the listener; a watermark  *)
(* is represented by the Host whose output it counts.                      *)
(***************************************************************************)
EXTENDS Naturals, FiniteSets

CONSTANTS
    Phones,      \* the paired devices
    NoPhone,     \* nobody holds the mutex
    MaxHosts,    \* bound: Hosts started altogether
    MaxPending   \* bound: a phone reconnects only below this many releases

ASSUME PhonesAssumption == IsFiniteSet(Phones) /\ NoPhone \notin Phones
ASSUME BoundsAssumption == MaxHosts \in Nat /\ MaxPending \in Nat

VARIABLES
    host,         \* the entry of `hosts`: the Host, 0 when there is none
    users,        \* AttachHost.users
    ended,        \* the Hosts of this listener whose tmux client has exited
    lastStarted,  \* GenerationState.last_started
    live,         \* GenerationState.live
    lock,         \* who holds `hosts` while a Host starts
    pending,      \* tasks of release_in_background that have not run yet
    pc,           \* where each phone's connection is
    claim,        \* the generation and watermark its Attach presents
    held,         \* the Host its HostClient is connected to
    fresh,        \* AcquiredHost.fresh
    granted,      \* AcquiredHost.generation
    memory,       \* what the phone remembers: generation and watermark
    started,      \* Hosts started so far
    firstHost     \* the first Host this listener may have started

generationVars == <<lastStarted, live>>
phoneVars == <<claim, held, fresh, granted, memory>>
vars == <<host, users, ended, generationVars, lock, pending, pc, phoneVars,
          started, firstHost>>

NoHost == 0
Hosts == 1 .. MaxHosts
Claims == [gen : Nat, from : Hosts \cup {NoHost}]
Nothing == [gen |-> 0, from |-> NoHost]

\* GenerationState::current.
Current == IF live THEN lastStarted ELSE lastStarted + 1

\* The connections that have counted themselves among the users.
HoldingPoints == {"acquired", "attached", "detaching", "failing"}
Holding == {p \in Phones : pc[p] \in HoldingPoints}

TypeOK ==
    /\ host \in Hosts \cup {NoHost} /\ users \in Nat /\ ended \subseteq Hosts
    /\ lastStarted \in Nat /\ live \in BOOLEAN
    /\ lock \in Phones \cup {NoPhone} /\ pending \in Nat
    /\ pc \in [Phones -> {"off", "idle", "authorized", "starting", "acquired",
                          "attached", "detaching", "failing"}]
    /\ claim \in [Phones -> Claims] /\ memory \in [Phones -> Claims]
    /\ held \in [Phones -> Hosts \cup {NoHost}]
    /\ fresh \in [Phones -> BOOLEAN] /\ granted \in [Phones -> Nat]
    /\ started \in 0 .. MaxHosts /\ firstHost \in 1 .. MaxHosts + 1

Init ==
    /\ host = NoHost /\ users = 0 /\ ended = {}
    /\ lastStarted = 0 /\ live = FALSE
    /\ lock = NoPhone /\ pending = 0
    /\ pc = [p \in Phones |-> "off"]
    /\ claim = [p \in Phones |-> Nothing]
    /\ memory = [p \in Phones |-> Nothing]
    /\ held = [p \in Phones |-> NoHost]
    /\ fresh = [p \in Phones |-> FALSE]
    /\ granted = [p \in Phones |-> 0]
    /\ started = 0 /\ firstHost = 1

Goto(p, to) == pc' = [pc EXCEPT ![p] = to]

\* The connection is over: its serving task returns and drops the backend.
Forget(p) ==
    /\ claim' = [claim EXCEPT ![p] = Nothing]
    /\ held' = [held EXCEPT ![p] = NoHost]
    /\ fresh' = [fresh EXCEPT ![p] = FALSE]
    /\ granted' = [granted EXCEPT ![p] = 0]

(***************************************************************************)
(* release_now, under the mutex: one user less of whatever Host the        *)
(* session has by now, and no Host after the last user.                    *)
(***************************************************************************)
ReleaseNow ==
    /\ lock = NoPhone
    /\ host' = IF users > 1 THEN host ELSE NoHost
    /\ users' = IF users > 1 THEN users - 1 ELSE 0
    /\ live' = (live /\ users > 1)
    /\ UNCHANGED <<lastStarted, ended>>

(***************************************************************************)
(* A phone connects and presents an Attach: with what it remembers of the  *)
(* session, or with the generation it has just been listed; the cursor it  *)
(* sends belongs to the generation it sends.  The phones' clients open a   *)
(* connection of its own for every Attach.                                 *)
(***************************************************************************)
Connect(p) ==
    /\ pc[p] = "off" /\ pending < MaxPending
    /\ Goto(p, "idle")
    /\ UNCHANGED <<host, users, ended, generationVars, lock, pending,
                   phoneVars, started, firstHost>>

Presented(p) ==
    {memory[p],
     IF memory[p].gen = Current THEN memory[p]
                                ELSE [gen |-> Current, from |-> NoHost]}

\* authorize: the generation presented must be the current one, or the
\* connection ends.
Authorize(p) ==
    /\ pc[p] = "idle"
    /\ \E c \in Presented(p) :
         LET ok == c.gen = Current IN
         /\ claim' = [claim EXCEPT ![p] = IF ok THEN c ELSE Nothing]
         /\ Goto(p, IF ok THEN "authorized" ELSE "off")
    /\ UNCHANGED <<host, users, ended, generationVars, lock, pending,
                   held, fresh, granted, memory, started, firstHost>>

(***************************************************************************)
(* acquire: join the Host that is there, or replace one that has exited,   *)
(* or start the first.                                                     *)
(***************************************************************************)
Join_Uncounted(p) ==
    /\ pc[p] = "authorized" /\ lock = NoPhone
    /\ host # NoHost /\ host \notin ended
    /\ users' = users
    /\ held' = [held EXCEPT ![p] = host]
    /\ fresh' = [fresh EXCEPT ![p] = FALSE]
    /\ granted' = [granted EXCEPT ![p] = Current]
    /\ Goto(p, "acquired")
    /\ UNCHANGED <<host, ended, generationVars, lock, pending, claim, memory,
                   started, firstHost>>

Join(p) ==
    /\ pc[p] = "authorized" /\ lock = NoPhone
    /\ host # NoHost /\ host \notin ended
    /\ users' = users + 1
    /\ held' = [held EXCEPT ![p] = host]
    /\ fresh' = [fresh EXCEPT ![p] = FALSE]
    /\ granted' = [granted EXCEPT ![p] = Current]
    /\ Goto(p, "acquired")
    /\ UNCHANGED <<host, ended, generationVars, lock, pending, claim, memory,
                   started, firstHost>>

\* The session is no longer among those tmux lists: the error ends the
\* connection.
SessionGone(p) ==
    /\ pc[p] = "authorized"
    /\ Forget(p) /\ Goto(p, "off")
    /\ UNCHANGED <<host, users, ended, generationVars, lock, pending, memory,
                   started, firstHost>>

BeginStart(p) ==
    /\ pc[p] = "authorized" /\ lock = NoPhone
    /\ host = NoHost \/ host \in ended
    /\ host' = NoHost /\ users' = 0
    /\ live' = (live /\ host = NoHost)
    /\ lock' = p
    /\ Goto(p, "starting")
    /\ UNCHANGED <<ended, lastStarted, pending, phoneVars, started, firstHost>>

\* The Host answers at its endpoint: its generation becomes the live one.
StartHost(p) ==
    /\ pc[p] = "starting" /\ started < MaxHosts
    /\ started' = started + 1
    /\ host' = started' /\ users' = 1
    /\ lastStarted' = Current /\ live' = TRUE
    /\ lock' = NoPhone
    /\ held' = [held EXCEPT ![p] = started']
    /\ fresh' = [fresh EXCEPT ![p] = TRUE]
    /\ granted' = [granted EXCEPT ![p] = Current]
    /\ Goto(p, "acquired")
    /\ UNCHANGED <<ended, pending, claim, memory, firstHost>>

\* The Host did not start: the error ends the connection.
StartFails(p) ==
    /\ pc[p] = "starting"
    /\ lock' = NoPhone
    /\ Forget(p) /\ Goto(p, "off")
    /\ UNCHANGED <<host, users, ended, generationVars, pending, memory,
                   started, firstHost>>

(***************************************************************************)
(* The rest of Attach: the generation is checked once more, the client     *)
(* connects and replays from the watermark, from zero at a fresh Host.  A  *)
(* mismatch, or a Host that cannot be reached, gives the use back and ends *)
(* the connection.                                                         *)
(***************************************************************************)
Resumed(p) == IF fresh[p] THEN NoHost ELSE claim[p].from

Attached(p) ==
    /\ claim' = [claim EXCEPT ![p].from = Resumed(p)]
    /\ memory' = [memory EXCEPT ![p] = [gen |-> claim[p].gen, from |-> held[p]]]
    /\ Goto(p, "attached")
    /\ UNCHANGED <<host, users, ended, generationVars, lock, pending, held,
                   fresh, granted, started, firstHost>>

Attach_Unchecked(p) ==
    /\ pc[p] = "acquired"
    /\ Attached(p)

Attach(p) ==
    /\ pc[p] = "acquired" /\ granted[p] = claim[p].gen
    /\ Attached(p)

\* The client connected and the replay failed: the use is given back when the
\* connection's state is dropped.
ReplayFails(p) ==
    /\ pc[p] = "acquired" /\ granted[p] = claim[p].gen
    /\ pending' = pending + 1
    /\ Forget(p) /\ Goto(p, "off")
    /\ UNCHANGED <<host, users, ended, generationVars, lock, memory, started,
                   firstHost>>

AttachFails(p) ==
    /\ pc[p] = "acquired"
    /\ Goto(p, "failing")
    /\ UNCHANGED <<host, users, ended, generationVars, lock, pending,
                   phoneVars, started, firstHost>>

(***************************************************************************)
(* next_response, at every tick of the poll: a connection of an older      *)
(* generation ends.  Polls that find the generation unchanged move the     *)
(* watermark within the same Host, which this module does not tell apart.  *)
(* The phone may also go away at any time.  Dropping the connection's      *)
(* state leaves the release to a background task.                          *)
(***************************************************************************)
Disconnect_Unreleased(p) ==
    /\ pc[p] \in {"idle", "attached"}
    /\ Forget(p) /\ Goto(p, "off")
    /\ UNCHANGED <<host, users, ended, generationVars, lock, pending, memory,
                   started, firstHost>>

Disconnect(p) ==
    /\ pc[p] \in {"idle", "attached"}
    /\ pending' = IF pc[p] = "attached" THEN pending + 1 ELSE pending
    /\ Forget(p) /\ Goto(p, "off")
    /\ UNCHANGED <<host, users, ended, generationVars, lock, memory, started,
                   firstHost>>

PollRefused(p) ==
    /\ pc[p] = "attached" /\ Current # claim[p].gen
    /\ Disconnect(p)

BackgroundRelease ==
    /\ pending > 0
    /\ ReleaseNow
    /\ pending' = pending - 1
    /\ UNCHANGED <<lock, pc, phoneVars, started, firstHost>>

(***************************************************************************)
(* Detach, and an Attach to another session, which releases this one the   *)
(* same way: authorized against the current generation as every command    *)
(* that addresses a session is, then the release, in the foreground.       *)
(***************************************************************************)
Detach(p) ==
    /\ pc[p] = "attached" /\ Current = claim[p].gen
    /\ Goto(p, "detaching")
    /\ UNCHANGED <<host, users, ended, generationVars, lock, pending,
                   phoneVars, started, firstHost>>

ForegroundRelease(p) ==
    /\ pc[p] \in {"detaching", "failing"}
    /\ ReleaseNow
    /\ Forget(p) /\ Goto(p, IF pc[p] = "detaching" THEN "idle" ELSE "off")
    /\ UNCHANGED <<lock, pending, memory, started, firstHost>>

(***************************************************************************)
(* The environment.  The tmux client of the Host ends by itself (the user  *)
(* detaches it, or kills the tmux session); the listener restarts: the     *)
(* connections and the Hosts go with it and the generations start anew,    *)
(* while the session id, a digest of what tmux says, and what the phones   *)
(* remember stay.                                                          *)
(***************************************************************************)
HostExits ==
    /\ host # NoHost /\ host \notin ended
    /\ ended' = ended \cup {host}
    /\ UNCHANGED <<host, users, generationVars, lock, pending, pc, phoneVars,
                   started, firstHost>>

Restart ==
    /\ host' = NoHost /\ users' = 0 /\ ended' = {}
    /\ lastStarted' = 0 /\ live' = FALSE
    /\ lock' = NoPhone /\ pending' = 0
    /\ pc' = [p \in Phones |-> "off"]
    /\ claim' = [p \in Phones |-> Nothing]
    /\ held' = [p \in Phones |-> NoHost]
    /\ fresh' = [p \in Phones |-> FALSE]
    /\ granted' = [p \in Phones |-> 0]
    /\ firstHost' = started + 1
    /\ UNCHANGED <<memory, started>>

PhoneStep(p) ==
    \/ Connect(p) \/ Authorize(p) \/ SessionGone(p) \/ Join(p) \/ BeginStart(p)
    \/ StartHost(p) \/ StartFails(p) \/ Attach(p) \/ ReplayFails(p) \/ AttachFails(p)
    \/ PollRefused(p) \/ Disconnect(p) \/ Detach(p) \/ ForegroundRelease(p)

Next ==
    \/ \E p \in Phones : PhoneStep(p)
    \/ BackgroundRelease \/ HostExits \/ Restart

Spec == Init /\ [][Next]_vars

(***************************************************************************)
(* Fairness: the listener's runtime runs the release tasks it has spawned  *)
(* and brings every handler that has begun to its end.  No phone has to    *)
(* come, to leave or to ask for anything.                                  *)
(***************************************************************************)
Serving(p) ==
    \/ SessionGone(p) \/ Join(p) \/ BeginStart(p) \/ StartHost(p) \/ StartFails(p)
    \/ Attach(p) \/ ReplayFails(p) \/ AttachFails(p) \/ ForegroundRelease(p)

FairSpec ==
    /\ Spec
    /\ WF_vars(BackgroundRelease)
    /\ \A p \in Phones : WF_vars(Serving(p))

-----------------------------------------------------------------------------
(***************************************************************************)
(* Properties.                                                             *)
(***************************************************************************)

\* The mutex is held by the phone that starts a Host, and meanwhile the
\* session has none.  A Host is the last one that was started, is live and
\* has a generation: the Hosts of this listener are numbered by them.
LockInv ==
    /\ \A p \in Phones : pc[p] = "starting" <=> lock = p
    /\ lock # NoPhone => host = NoHost
    /\ host = NoHost <=> users = 0
    /\ live <=> host # NoHost
    /\ host # NoHost => host = started /\ firstHost <= host
    /\ firstHost <= started + 1
    /\ lastStarted = started + 1 - firstHost

\* A claim to output of this listener's life names the generation of the
\* Host it counts.
Fenced(c) ==
    c.from <= started /\ (c.from >= firstHost => c.gen = c.from + 1 - firstHost)

\* What a phone remembers, presents and is granted agrees with the numbering
\* of the Hosts.
PhoneFenced(p) ==
    /\ Fenced(memory[p]) /\ Fenced(claim[p])
    /\ pc[p] \in HoldingPoints =>
          /\ held[p] \in firstHost .. started
          /\ granted[p] = held[p] + 1 - firstHost
    /\ pc[p] = "attached" => granted[p] = claim[p].gen

FenceInv == \A p \in Phones : PhoneFenced(p)

\* While no tmux client has exited by itself, the users counted are the
\* connections that hold the Host and the releases still to come, and all
\* of them hold the session's Host.
CountInv ==
    ended = {} =>
        /\ users = Cardinality(Holding) + pending
        /\ \A p \in Holding : held[p] = host

TmuxInv == TypeOK /\ LockInv /\ FenceInv /\ CountInv

\* Nobody's Host is taken away: while no tmux client has exited by itself, a
\* phone that is attached or about to be is at the Host of the session,
\* whatever the other phones' releases, background releases and failed
\* attaches do (acquire and release_now, tmux_sessions.rs).
KeptForUsers ==
    ended = {} => \A p \in Phones :
        pc[p] \in {"acquired", "attached"} => held[p] = host

\* The generations fence the watermarks: a phone that resumes from a
\* watermark of this listener's life is at the Host that watermark counts,
\* though its Attach was authorized before it got the mutex
\* (attach_from, and the two checks of host_backend.rs).
FencedWithinListener ==
    \A p \in Phones :
        pc[p] = "attached" /\ claim[p].from >= firstHost
            => claim[p].from = held[p]

\* Teardown: once every phone is gone the Host is stopped, unless a phone
\* comes back first (Drop of TmuxConnectionState, release_in_background).
TornDown ==
    (\A p \in Phones : pc[p] = "off")
        ~> (host = NoHost \/ \E p \in Phones : pc[p] # "off")

\* What the module comment of tmux_sessions.rs says: a Host is torn down when
\* the last connection attached to it detaches, so the Host of an attached
\* phone is the session's unless its own tmux client has exited.  It does not
\* hold: after a tmux client has exited by itself, the late release of a phone
\* of the old Host, which names only the session, counts against the new one.
TornDownWithLast ==
    \A p \in Phones :
        pc[p] = "attached" => held[p] = host \/ held[p] \in ended

\* What the comment on `generation` says: a phone that holds output of an
\* earlier Host never resumes from its watermark at a new one.  It does not
\* hold: a restart of the listener starts the generations anew while the
\* phones keep the generation and the watermark they had.
NeverResumesElsewhere ==
    \A p \in Phones :
        pc[p] = "attached" => claim[p].from \in {NoHost, held[p]}
=============================================================================
