------------------------- MODULE RelayServerProofs --------------------------
(***************************************************************************)
(* An endpoint that lost its seat is cancelled, a client is sent exactly   *)
(* its one peer's envelopes in order, a revocation that was acknowledged   *)
(* holds for good, nobody is evicted without cause and a queue's counters  *)
(* are exact and within the quota, for any number of routes, connections,  *)
(* addresses and envelopes and any limits.                                 *)
(***************************************************************************)
EXTENDS RelayServer, SequenceTheorems, WellFoundedInduction, TLAPS

(* The steps of the relay, one by one.                                     *)
LEMMA StepCases ==
  ASSUME [Next]_vars
  PROVE
  \/ UNCHANGED vars
  \/ \E c \in Conns, a \in Sources : Accept(c, a)
  \/ \E c \in Conns, s \in Seats : IssueChallenge(c, s)
  \/ \E c \in Conns, s \in Seats : RefuseHello(c, s)
  \/ \E c \in Conns : \E ch \in challenges : Admit(c, ch)
  \/ \E c \in Conns : \E ch \in challenges : \E b \in BOOLEAN : RefuseProof(c, ch, b)
  \/ \E c \in Conns : ReplayedProof(c)
  \/ \E c \in Conns : Accepted(c)
  \/ \E c \in Conns : HandshakeEnds(c)
  \/ \E c \in Conns : SeeCancelled(c)
  \/ \E c \in Conns : TakeOutgoing(c)
  \/ \E c \in Conns : Deliver(c)
  \/ \E c \in Conns : \E e \in ClientEnvelope(c) : ReadEnvelope(c, e)
  \/ \E c \in Conns : ClientFails(c)
  \/ \E c \in Conns : Forward(c)
  \/ \E c \in Conns : ForwardRefused(c)
  \/ \E c \in Conns : ForwardCloses(c)
  \/ \E c \in Conns : Disconnect(c)
  \/ \E r \in Routes : BeginRegister(r)
  \/ \E r \in Routes : BeginRevoke(r)
  \/ Rename
  \/ CommitFails
  \/ FinishRegister
  \/ FinishRevoke
  \/ \E ch \in challenges : ExpireChallenge(ch)
  \/ \E a \in Sources : WindowEnds(a)
  \/ Shutdown
  \/ ProcessEnds
  \/ PowerCut
  \/ Start
PROOF
  BY DEF Next, Handshake, Connected, Operator, Environment

(* A route has two seats.                                                  *)
LEMMA PeerSeat ==
  ASSUME NEW s \in Seats
  PROVE  /\ Peer(s) \in Seats
         /\ Peer(s) # s
         /\ Peer(Peer(s)) = s
         /\ Peer(s).route = s.route
         /\ s.route \in Routes
         /\ s # None
         /\ s \in SeatsOf(s.route)
         /\ Peer(s) \in SeatsOf(s.route)
         /\ \A q \in SeatsOf(s.route) : q \in Seats /\ (q = s \/ q = Peer(s))
         /\ \A q \in Seats : q.route = s.route => q \in SeatsOf(s.route)
PROOF
  <1>1. s.route \in Routes /\ s.role \in {"host", "controller"}
        /\ s = [route |-> s.route, role |-> s.role]
    BY DEF Seats, Roles
  <1>2. Peer(s) = [route |-> s.route, role |-> PeerRole(s.role)]
    BY <1>1 DEF Peer, Seats, Roles
  <1>3. PeerRole(s.role) \in {"host", "controller"} /\ PeerRole(s.role) # s.role
        /\ PeerRole(PeerRole(s.role)) = s.role
    BY <1>1 DEF PeerRole
  <1>4. Peer(s) \in Seats /\ Peer(s) # s /\ Peer(s).route = s.route
    BY <1>1, <1>2, <1>3 DEF Seats, Roles
  <1>5. Peer(Peer(s)) = s
    BY <1>1, <1>2, <1>3 DEF Peer, Seats, Roles
  <1>6. ASSUME NEW q \in Seats, q.route = s.route PROVE q = s \/ q = Peer(s)
    <2>1. q.role \in {"host", "controller"} /\ q = [route |-> q.route, role |-> q.role]
      BY DEF Seats, Roles
    <2>2. q.role = s.role \/ q.role = PeerRole(s.role)
      BY <1>1, <2>1 DEF PeerRole
    <2> QED
      BY <1>1, <1>2, <1>6, <2>1, <2>2
  <1>7. s # None
    BY RelayAssumption DEF Seats, Roles
  <1> QED
    BY <1>1, <1>4, <1>5, <1>6, <1>7 DEF SeatsOf

(* The registrations and the operator.                                      *)
StoreTypes ==
  /\ server \in {"listening", "draining", "down"}
  /\ regs \in [Routes -> Registration]
  /\ path \in [Routes -> Registration]
  /\ durable \in SUBSET [Routes -> Registration]
  /\ syncs \in BOOLEAN
  /\ admin \in Op \cup {Idle}
  /\ acked \in SUBSET Routes

(* The state under the mutex.                                               *)
CoreTypes ==
  /\ slot \in [Seats -> Conns \cup {None}]
  /\ next \in [Seats -> Nat]
  /\ challenges \in SUBSET Challenge
  /\ failed \in [Sources -> 0 .. MaxFailures]

(* The tasks.                                                               *)
ConnTypes ==
  /\ pc \in [Conns -> Places]
  /\ source \in [Conns -> Sources \cup {None}]
  /\ seat \in [Conns -> Seats \cup {None}]
  /\ epoch \in [Conns -> Nat]
  /\ cancelled \in SUBSET Conns

(* The envelopes.                                                           *)
FlowTypes ==
  /\ channel \in [Conns -> Seq(Envelope)]
  /\ hand \in [Conns -> Seq(Envelope)]
  /\ queued \in [Conns -> [messages : Nat, bytes : Nat]]
  /\ got \in [Conns -> Seq(Envelope)]

LEMMA TypeParts ==
  /\ TypeOK <=> StoreTypes /\ CoreTypes /\ ConnTypes /\ FlowTypes
  /\ TypeOK' <=> StoreTypes' /\ CoreTypes' /\ ConnTypes' /\ FlowTypes'
PROOF
  BY DEF TypeOK, StoreTypes, CoreTypes, ConnTypes, FlowTypes

(* A task has an address; an endpoint has a seat, and its hand one         *)
(* envelope while it sends or has read one.                                *)
LEMMA TaskFacts ==
  ASSUME RelayInv, NEW c \in Conns
  PROVE  /\ pc[c] # "absent" => source[c] \in Sources
         /\ Running(c) => seat[c] \in Seats
         /\ hand[c] \in Seq(Envelope)
         /\ pc[c] \in {"reading", "sending"} =>
              /\ Len(hand[c]) = 1
              /\ hand[c][1] \in Envelope
              /\ hand[c] = <<hand[c][1]>>
         /\ pc[c] \notin {"reading", "sending"} => hand[c] = <<>>
PROOF
  <1>1. pc[c] # "absent" => source[c] \in Sources
    BY DEF RelayInv, SeatInv
  <1>2. Running(c) => seat[c] \in Seats
    BY DEF RelayInv, SeatInv, TypeOK
  <1>3. hand[c] \in Seq(Envelope)
    BY DEF RelayInv, TypeOK
  <1>4. Len(hand[c]) = IF pc[c] \in {"reading", "sending"} THEN 1 ELSE 0
    BY DEF RelayInv, HandInv
  <1>5. Len(hand[c]) = 1 => hand[c][1] \in Envelope /\ hand[c] = <<hand[c][1]>>
    BY <1>3
  <1>6. Len(hand[c]) = 0 => hand[c] = <<>>
    BY <1>3
  <1> QED
    BY <1>1, <1>2, <1>3, <1>4, <1>5, <1>6

(* The occupants of a route are connections.                               *)
LEMMA OccupantConns ==
  ASSUME CoreTypes, NEW r
  PROVE  Occupants(r) \subseteq Conns /\ Tokens(r) \subseteq Conns
PROOF
  BY DEF CoreTypes, Occupants, Tokens, SeatsOf

(* The operator's call, and the registrations it commits.                  *)
LEMMA CommittedType ==
  ASSUME StoreTypes, admin # Idle
  PROVE  /\ admin.op \in {"register", "revoke"}
         /\ admin.step \in {"staged", "renamed"}
         /\ admin.route \in Routes
         /\ [admin EXCEPT !.step = "renamed"] \in Op
         /\ Committed \in [Routes -> Registration]
PROOF
  <1>1. admin \in Op
    BY DEF StoreTypes
  <1>2. /\ admin.op \in {"register", "revoke"}
        /\ admin.step \in {"staged", "renamed"}
        /\ admin.route \in Routes
        /\ [admin EXCEPT !.step = "renamed"] \in Op
    BY <1>1 DEF Op
  <1>3. Fresh \in Registration
    BY DEF Fresh, Registration
  <1>4. regs[admin.route] \in Registration
    BY <1>2 DEF StoreTypes
  <1>5. Revoked(regs[admin.route]) \in Registration
    <2>1. regs[admin.route].known \in BOOLEAN /\ regs[admin.route].epoch \in Nat
      BY <1>4 DEF Registration
    <2>2. regs[admin.route].epoch + 1 \in Nat
      BY <2>1
    <2>3. ASSUME NEW k \in BOOLEAN, NEW n \in Nat
          PROVE  [known |-> k, revoked |-> TRUE, epoch |-> n] \in Registration
      BY DEF Registration
    <2> QED
      BY <2>1, <2>2, <2>3 DEF Revoked
  <1>6. Committed \in [Routes -> Registration]
    BY <1>2, <1>3, <1>5 DEF Committed, StoreTypes
  <1> QED
    BY <1>2, <1>6

(* record_failed counts up to the limit.                                   *)
LEMMA RecordedType ==
  ASSUME CoreTypes, NEW a, RecordFailed(a)
  PROVE  failed' \in [Sources -> 0 .. MaxFailures]
PROOF
  <1>1. MaxFailures \in Nat
    BY RelayAssumption
  <1>2. CASE a \notin Sources
    BY <1>2 DEF CoreTypes, RecordFailed
  <1>3. CASE a \in Sources
    <2>1. failed[a] \in 0 .. MaxFailures
      BY <1>3 DEF CoreTypes
    <2>2. (IF failed[a] < MaxFailures THEN failed[a] + 1 ELSE failed[a]) \in 0 .. MaxFailures
      BY <1>1, <2>1
    <2> QED
      BY <1>3, <2>2 DEF CoreTypes, RecordFailed
  <1> QED
    BY <1>2, <1>3

(* A crash leaves nothing in memory.                                       *)
LEMMA LostTypes ==
  ASSUME NEW file, Lost(file)
  PROVE  CoreTypes' /\ ConnTypes' /\ FlowTypes'
PROOF
  <1>1. MaxFailures \in Nat /\ 0 \in 0 .. MaxFailures
    BY RelayAssumption
  <1>2. CoreTypes'
    BY <1>1 DEF Lost, CoreTypes
  <1>3. ConnTypes'
    BY DEF Lost, ConnTypes, Places
  <1>4. FlowTypes'
    BY DEF Lost, FlowTypes, Nothing
  <1> QED
    BY <1>2, <1>3, <1>4

LEMMA StoreTypesStep ==
  RelayInv /\ [Next]_vars => StoreTypes'
PROOF
  <1> SUFFICES ASSUME RelayInv, [Next]_vars PROVE StoreTypes'
    OBVIOUS
  <1>0. StoreTypes /\ CoreTypes /\ ConnTypes /\ FlowTypes
    BY TypeParts DEF RelayInv
  <1>1. CASE UNCHANGED <<server, regs, path, durable, syncs, admin, acked>>
    BY <1>0, <1>1 DEF StoreTypes
  <1>2. ASSUME NEW r \in Routes, BeginRegister(r) PROVE StoreTypes'
    BY <1>0, <1>2 DEF StoreTypes, Registration, Op, Idle, Unknown, Fresh, Revoked,
         BeginRegister, storeVars
  <1>3. ASSUME NEW r \in Routes, BeginRevoke(r) PROVE StoreTypes'
    BY <1>0, <1>3 DEF StoreTypes, Registration, Op, Idle, Unknown, Fresh, Revoked,
         BeginRevoke, storeVars
  <1>4. ASSUME Rename PROVE StoreTypes'
    BY <1>0, <1>4, CommittedType DEF StoreTypes, Rename, Locked
  <1>5. ASSUME CommitFails PROVE StoreTypes'
    BY <1>0, <1>5 DEF StoreTypes, Registration, Op, Idle, Unknown, Fresh, Revoked,
         CommitFails, Locked, storeVars
  <1>6. ASSUME FinishRegister PROVE StoreTypes'
    BY <1>0, <1>6, CommittedType DEF StoreTypes, FinishRegister, SyncParent, Locked
  <1>7. ASSUME FinishRevoke PROVE StoreTypes'
    BY <1>0, <1>7, CommittedType DEF StoreTypes, FinishRevoke, SyncParent, Locked
  <1>8. ASSUME Shutdown PROVE StoreTypes'
    BY <1>0, <1>8 DEF StoreTypes, Registration, Op, Idle, Unknown, Fresh, Revoked, Shutdown,
         storeVars
  <1>9. ASSUME ProcessEnds PROVE StoreTypes'
    BY <1>0, <1>9 DEF StoreTypes, Registration, Op, Idle, Unknown, Fresh, Revoked,
         ProcessEnds, Lost, storeVars
  <1>10. ASSUME PowerCut PROVE StoreTypes'
    BY <1>0, <1>10 DEF StoreTypes, Registration, Op, Idle, Unknown, Fresh, Revoked,
         PowerCut, Lost, storeVars
  <1>11. ASSUME Start PROVE StoreTypes'
    BY <1>0, <1>11 DEF StoreTypes, Registration, Op, Idle, Unknown, Fresh, Revoked, Start,
         storeVars
  <1>12. \/ UNCHANGED <<server, regs, path, durable, syncs, admin, acked>>
         \/ \E r \in Routes : BeginRegister(r)
         \/ \E r \in Routes : BeginRevoke(r)
         \/ Rename
         \/ CommitFails
         \/ FinishRegister
         \/ FinishRevoke
         \/ Shutdown
         \/ ProcessEnds
         \/ PowerCut
         \/ Start
    BY StepCases DEF vars, storeVars, Accept, IssueChallenge, RefuseHello, Admit,
         RefuseProof, ReplayedProof, Accepted, HandshakeEnds, SeeCancelled, TakeOutgoing,
         Deliver, ReadEnvelope, ClientFails, Forward, ForwardRefused, ForwardCloses,
         Disconnect, ExpireChallenge, WindowEnds
  <1> QED
    BY <1>1, <1>2, <1>3, <1>4, <1>5, <1>6, <1>7, <1>8, <1>9, <1>10, <1>11, <1>12

LEMMA CoreTypesStep ==
  RelayInv /\ [Next]_vars => CoreTypes'
PROOF
  <1> SUFFICES ASSUME RelayInv, [Next]_vars PROVE CoreTypes'
    OBVIOUS
  <1>0. StoreTypes /\ CoreTypes /\ ConnTypes /\ FlowTypes
    BY TypeParts DEF RelayInv
  <1>1. CASE UNCHANGED <<slot, next, challenges, failed>>
    BY <1>0, <1>1 DEF CoreTypes
  <1>2. ASSUME NEW c \in Conns, NEW s \in Seats, IssueChallenge(c, s) PROVE CoreTypes'
    <2>1. source[c] \in Sources /\ regs[s.route].epoch \in Nat
      BY <1>0, <1>2, TaskFacts, PeerSeat DEF IssueChallenge, StoreTypes, Registration
    <2>2. [serial |-> c, seat |-> s, epoch |-> regs[s.route].epoch, source |-> source[c]] \in Challenge
      BY <2>1 DEF Challenge
    <2> QED
      BY <1>0, <1>2, <2>2 DEF CoreTypes, IssueChallenge
  <1>3. ASSUME NEW c \in Conns, NEW s \in Seats, RefuseHello(c, s) PROVE CoreTypes'
    BY <1>0, <1>3, RecordedType DEF CoreTypes, RefuseHello
  <1>4. ASSUME NEW c \in Conns, NEW ch \in challenges, Admit(c, ch) PROVE CoreTypes'
    BY <1>0, <1>4 DEF CoreTypes, Seats, Roles, Challenge, Admit, coreVars
  <1>5. ASSUME NEW c \in Conns, NEW ch \in challenges, NEW b \in BOOLEAN, RefuseProof(c, ch, b) PROVE CoreTypes'
    BY <1>0, <1>5, RecordedType DEF CoreTypes, RefuseProof
  <1>6. ASSUME NEW c \in Conns, ReplayedProof(c) PROVE CoreTypes'
    BY <1>0, <1>6, RecordedType DEF CoreTypes, ReplayedProof
  <1>7. ASSUME NEW c \in Conns, Forward(c) PROVE CoreTypes'
    <2>1. seat[c] \in Seats
      BY <1>7, TaskFacts DEF Forward, Running
    <2> QED
      BY <1>0, <1>7, <2>1 DEF CoreTypes, Forward
  <1>8. ASSUME NEW c \in Conns, ForwardCloses(c) PROVE CoreTypes'
    BY <1>0, <1>8 DEF CoreTypes, Seats, Roles, Challenge, ForwardCloses, ClearRoute, Tokens,
         Occupants, coreVars
  <1>9. ASSUME NEW c \in Conns, Disconnect(c) PROVE CoreTypes'
    BY <1>0, <1>9 DEF CoreTypes, Seats, Roles, Challenge, Disconnect, ClearRoute, Tokens,
         Occupants, coreVars
  <1>10. ASSUME FinishRevoke PROVE CoreTypes'
    BY <1>0, <1>10 DEF CoreTypes, Seats, Roles, Challenge, FinishRevoke, ClearRoute, Tokens,
         Occupants, coreVars
  <1>11. ASSUME NEW ch \in challenges, ExpireChallenge(ch) PROVE CoreTypes'
    BY <1>0, <1>11 DEF CoreTypes, Seats, Roles, Challenge, ExpireChallenge, coreVars
  <1>12. ASSUME NEW a \in Sources, WindowEnds(a) PROVE CoreTypes'
    BY <1>0, <1>12, RelayAssumption DEF CoreTypes, WindowEnds
  <1>13. ASSUME ProcessEnds PROVE CoreTypes'
    BY <1>13, LostTypes DEF ProcessEnds
  <1>14. ASSUME PowerCut PROVE CoreTypes'
    BY <1>14, LostTypes DEF PowerCut
  <1>15. \/ UNCHANGED <<slot, next, challenges, failed>>
         \/ \E c \in Conns, s \in Seats : IssueChallenge(c, s)
         \/ \E c \in Conns, s \in Seats : RefuseHello(c, s)
         \/ \E c \in Conns : \E ch \in challenges : Admit(c, ch)
         \/ \E c \in Conns : \E ch \in challenges : \E b \in BOOLEAN : RefuseProof(c, ch, b)
         \/ \E c \in Conns : ReplayedProof(c)
         \/ \E c \in Conns : Forward(c)
         \/ \E c \in Conns : ForwardCloses(c)
         \/ \E c \in Conns : Disconnect(c)
         \/ FinishRevoke
         \/ \E ch \in challenges : ExpireChallenge(ch)
         \/ \E a \in Sources : WindowEnds(a)
         \/ ProcessEnds
         \/ PowerCut
    BY StepCases DEF vars, coreVars, Accept, Accepted, HandshakeEnds, SeeCancelled,
         TakeOutgoing, Deliver, ReadEnvelope, ClientFails, ForwardRefused, BeginRegister,
         BeginRevoke, Rename, CommitFails, FinishRegister, Shutdown, Start
  <1> QED
    BY <1>1, <1>2, <1>3, <1>4, <1>5, <1>6, <1>7, <1>8, <1>9, <1>10, <1>11, <1>12, <1>13,
         <1>14, <1>15

LEMMA ConnTypesStep ==
  RelayInv /\ [Next]_vars => ConnTypes'
PROOF
  <1> SUFFICES ASSUME RelayInv, [Next]_vars PROVE ConnTypes'
    OBVIOUS
  <1>0. StoreTypes /\ CoreTypes /\ ConnTypes /\ FlowTypes
    BY TypeParts DEF RelayInv
  <1>1. CASE UNCHANGED <<pc, source, seat, epoch, cancelled>>
    BY <1>0, <1>1 DEF ConnTypes
  <1>2. ASSUME NEW c \in Conns, NEW a \in Sources, Accept(c, a) PROVE ConnTypes'
    BY <1>0, <1>2 DEF ConnTypes, Places, Handshaking, Receiving, Accept, Goto, seatVars
  <1>3. ASSUME NEW c \in Conns, NEW s \in Seats, IssueChallenge(c, s) PROVE ConnTypes'
    BY <1>0, <1>3 DEF ConnTypes, Places, Handshaking, Receiving, IssueChallenge, Goto,
         seatVars
  <1>4. ASSUME NEW c \in Conns, NEW s \in Seats, RefuseHello(c, s) PROVE ConnTypes'
    BY <1>0, <1>4 DEF ConnTypes, Places, Handshaking, Receiving, RefuseHello, Goto, seatVars
  <1>5. ASSUME NEW c \in Conns, NEW ch \in challenges, Admit(c, ch) PROVE ConnTypes'
    <2>1. ch.seat \in Seats /\ ch.epoch \in Nat
      BY <1>0 DEF CoreTypes, Challenge
    <2> QED
      BY <1>0, <1>5, <2>1 DEF ConnTypes, Admit, Goto, Places, Handshaking
  <1>6. ASSUME NEW c \in Conns, NEW ch \in challenges, NEW b \in BOOLEAN, RefuseProof(c, ch, b) PROVE ConnTypes'
    BY <1>0, <1>6 DEF ConnTypes, Places, Handshaking, Receiving, RefuseProof, Goto, seatVars
  <1>7. ASSUME NEW c \in Conns, ReplayedProof(c) PROVE ConnTypes'
    BY <1>0, <1>7 DEF ConnTypes, Places, Handshaking, Receiving, ReplayedProof, Goto,
         seatVars
  <1>8. ASSUME NEW c \in Conns, Accepted(c) PROVE ConnTypes'
    BY <1>0, <1>8 DEF ConnTypes, Places, Handshaking, Receiving, Accepted, Goto, seatVars
  <1>9. ASSUME NEW c \in Conns, HandshakeEnds(c) PROVE ConnTypes'
    BY <1>0, <1>9 DEF ConnTypes, Places, Handshaking, Receiving, HandshakeEnds, Goto, End,
         seatVars
  <1>10. ASSUME NEW c \in Conns, SeeCancelled(c) PROVE ConnTypes'
    BY <1>0, <1>10 DEF ConnTypes, Places, Handshaking, Receiving, SeeCancelled, Goto, Leave,
         seatVars
  <1>11. ASSUME NEW c \in Conns, TakeOutgoing(c) PROVE ConnTypes'
    BY <1>0, <1>11 DEF ConnTypes, Places, Handshaking, Receiving, TakeOutgoing, Goto,
         seatVars
  <1>12. ASSUME NEW c \in Conns, Deliver(c) PROVE ConnTypes'
    BY <1>0, <1>12 DEF ConnTypes, Places, Handshaking, Receiving, Deliver, Goto, seatVars
  <1>13. ASSUME NEW c \in Conns, NEW e \in ClientEnvelope(c), ReadEnvelope(c, e) PROVE ConnTypes'
    BY <1>0, <1>13 DEF ConnTypes, Places, Handshaking, Receiving, ReadEnvelope, Goto,
         seatVars
  <1>14. ASSUME NEW c \in Conns, ClientFails(c) PROVE ConnTypes'
    BY <1>0, <1>14 DEF ConnTypes, Places, Handshaking, Receiving, ClientFails, Goto, Leave,
         seatVars
  <1>15. ASSUME NEW c \in Conns, Forward(c) PROVE ConnTypes'
    BY <1>0, <1>15 DEF ConnTypes, Places, Handshaking, Receiving, Forward, Goto, seatVars
  <1>16. ASSUME NEW c \in Conns, ForwardRefused(c) PROVE ConnTypes'
    BY <1>0, <1>16 DEF ConnTypes, Places, Handshaking, Receiving, ForwardRefused, Goto,
         Leave, seatVars
  <1>17. ASSUME NEW c \in Conns, ForwardCloses(c) PROVE ConnTypes'
    BY <1>0, <1>17, OccupantConns DEF ConnTypes, ForwardCloses, Goto, Leave, Places, seatVars
  <1>18. ASSUME NEW c \in Conns, Disconnect(c) PROVE ConnTypes'
    BY <1>0, <1>18, OccupantConns DEF ConnTypes, Disconnect, Goto, End, Places, seatVars
  <1>19. ASSUME FinishRevoke PROVE ConnTypes'
    BY <1>0, <1>19, OccupantConns DEF ConnTypes, FinishRevoke, seatVars
  <1>20. ASSUME ProcessEnds PROVE ConnTypes'
    BY <1>20, LostTypes DEF ProcessEnds
  <1>21. ASSUME PowerCut PROVE ConnTypes'
    BY <1>21, LostTypes DEF PowerCut
  <1>22. \/ UNCHANGED <<pc, source, seat, epoch, cancelled>>
         \/ \E c \in Conns, a \in Sources : Accept(c, a)
         \/ \E c \in Conns, s \in Seats : IssueChallenge(c, s)
         \/ \E c \in Conns, s \in Seats : RefuseHello(c, s)
         \/ \E c \in Conns : \E ch \in challenges : Admit(c, ch)
         \/ \E c \in Conns : \E ch \in challenges : \E b \in BOOLEAN : RefuseProof(c, ch, b)
         \/ \E c \in Conns : ReplayedProof(c)
         \/ \E c \in Conns : Accepted(c)
         \/ \E c \in Conns : HandshakeEnds(c)
         \/ \E c \in Conns : SeeCancelled(c)
         \/ \E c \in Conns : TakeOutgoing(c)
         \/ \E c \in Conns : Deliver(c)
         \/ \E c \in Conns : \E e \in ClientEnvelope(c) : ReadEnvelope(c, e)
         \/ \E c \in Conns : ClientFails(c)
         \/ \E c \in Conns : Forward(c)
         \/ \E c \in Conns : ForwardRefused(c)
         \/ \E c \in Conns : ForwardCloses(c)
         \/ \E c \in Conns : Disconnect(c)
         \/ FinishRevoke
         \/ ProcessEnds
         \/ PowerCut
    BY StepCases DEF vars, seatVars, BeginRegister, BeginRevoke, Rename, CommitFails,
         FinishRegister, ExpireChallenge, WindowEnds, Shutdown, Start
  <1> QED
    BY <1>1, <1>2, <1>3, <1>4, <1>5, <1>6, <1>7, <1>8, <1>9, <1>10, <1>11, <1>12, <1>13,
         <1>14, <1>15, <1>16, <1>17, <1>18, <1>19, <1>20, <1>21, <1>22

LEMMA FlowTypesStep ==
  RelayInv /\ [Next]_vars => FlowTypes'
PROOF
  <1> SUFFICES ASSUME RelayInv, [Next]_vars PROVE FlowTypes'
    OBVIOUS
  <1>0. StoreTypes /\ CoreTypes /\ ConnTypes /\ FlowTypes
    BY TypeParts DEF RelayInv
  <1>1. CASE UNCHANGED <<channel, hand, queued, got>>
    BY <1>0, <1>1 DEF FlowTypes
  <1>2. ASSUME NEW c \in Conns, HandshakeEnds(c) PROVE FlowTypes'
    BY <1>0, <1>2 DEF FlowTypes, HandshakeEnds, End, flowVars
  <1>3. ASSUME NEW c \in Conns, SeeCancelled(c) PROVE FlowTypes'
    BY <1>0, <1>3 DEF FlowTypes, SeeCancelled, Leave, flowVars
  <1>4. ASSUME NEW c \in Conns, TakeOutgoing(c) PROVE FlowTypes'
    BY <1>0, <1>4 DEF FlowTypes, TakeOutgoing, flowVars
  <1>5. ASSUME NEW c \in Conns, Deliver(c) PROVE FlowTypes'
    <2>1. hand[c][1] \in Envelope /\ hand[c][1].size \in Nat
      BY <1>5, TaskFacts, RelayAssumption DEF Deliver, Envelope
    <2>2. Append(got[c], hand[c][1]) \in Seq(Envelope)
      BY <1>0, <2>1 DEF FlowTypes
    <2>3. queued[c].messages \in Nat /\ queued[c].bytes \in Nat
      BY <1>0 DEF FlowTypes
    <2>4. [messages |-> Less(queued[c].messages, 1), bytes |-> Less(queued[c].bytes, hand[c][1].size)]
            \in [messages : Nat, bytes : Nat]
      BY <2>1, <2>3 DEF Less
    <2>5. queued' \in [Conns -> [messages : Nat, bytes : Nat]]
      BY <1>0, <1>5, <2>4 DEF FlowTypes, Deliver
    <2> QED
      BY <1>0, <1>5, <2>2, <2>5 DEF FlowTypes, Deliver
  <1>6. ASSUME NEW c \in Conns, NEW e \in ClientEnvelope(c), ReadEnvelope(c, e) PROVE FlowTypes'
    <2>1. e \in Envelope
      BY RelayAssumption DEF ClientEnvelope, Envelope
    <2>2. <<e>> \in Seq(Envelope)
      BY <2>1
    <2> QED
      BY <1>0, <1>6, <2>2 DEF FlowTypes, ReadEnvelope
  <1>7. ASSUME NEW c \in Conns, ClientFails(c) PROVE FlowTypes'
    BY <1>0, <1>7 DEF FlowTypes, ClientFails, Leave, flowVars
  <1>8. ASSUME NEW c \in Conns, Forward(c) PROVE FlowTypes'
    <2> DEFINE e == hand[c][1]
               d == slot[Peer(seat[c])]
    <2>1. e \in Envelope /\ e.size \in Nat
      BY <1>8, TaskFacts, RelayAssumption DEF Forward, Envelope
    <2>2. seat[c] \in Seats /\ Peer(seat[c]) \in Seats
      BY <1>8, TaskFacts, PeerSeat DEF Forward, Running
    <2>3. d \in Conns
      BY <1>0, <1>8, <2>2 DEF CoreTypes, Forward
    <2>4. Append(channel[d], e) \in Seq(Envelope)
      BY <1>0, <2>1, <2>3 DEF FlowTypes
    <2>5. queued[d].messages \in Nat /\ queued[d].bytes \in Nat
      BY <1>0, <2>3 DEF FlowTypes
    <2>6. [messages |-> queued[d].messages + 1, bytes |-> queued[d].bytes + e.size]
            \in [messages : Nat, bytes : Nat]
      BY <2>1, <2>5
    <2>7. /\ channel' = [channel EXCEPT ![d] = Append(channel[d], e)]
          /\ queued' = [queued EXCEPT ![d] = [messages |-> queued[d].messages + 1,
                                             bytes |-> queued[d].bytes + e.size]]
          /\ hand' = [hand EXCEPT ![c] = <<>>]
          /\ got' = got
      BY <1>0, <1>8, <2>3 DEF Forward, FlowTypes
    <2>8. channel' \in [Conns -> Seq(Envelope)]
      BY <1>0, <2>4, <2>7 DEF FlowTypes
    <2>9. queued' \in [Conns -> [messages : Nat, bytes : Nat]]
      BY <1>0, <2>6, <2>7 DEF FlowTypes
    <2>10. hand' \in [Conns -> Seq(Envelope)]
      BY <1>0, <2>7 DEF FlowTypes
    <2> QED
      BY <1>0, <2>7, <2>8, <2>9, <2>10 DEF FlowTypes
  <1>9. ASSUME NEW c \in Conns, ForwardRefused(c) PROVE FlowTypes'
    BY <1>0, <1>9 DEF FlowTypes, ForwardRefused, Leave, flowVars
  <1>10. ASSUME NEW c \in Conns, ForwardCloses(c) PROVE FlowTypes'
    BY <1>0, <1>10 DEF FlowTypes, ForwardCloses, Leave, ClearRoute, Tokens, Occupants,
         Nothing, flowVars
  <1>11. ASSUME NEW c \in Conns, Disconnect(c) PROVE FlowTypes'
    <2>0. /\ Nothing \in [messages : Nat, bytes : Nat]
          /\ queued \in [Conns -> [messages : Nat, bytes : Nat]]
      BY <1>0 DEF FlowTypes, Nothing
    <2>1. queued' \in [Conns -> [messages : Nat, bytes : Nat]]
      <3>1. CASE slot[seat[c]] = c
        <4>1. queued' = [d \in Conns |-> IF d \in Occupants(seat[c].route) THEN Nothing
                                                                         ELSE queued[d]]
          BY <1>11, <3>1 DEF Disconnect, ClearRoute
        <4> QED
          BY <2>0, <4>1
      <3>2. CASE slot[seat[c]] # c
        BY <1>11, <2>0, <3>2 DEF Disconnect
      <3> QED
        BY <3>1, <3>2
    <2>2. channel' \in [Conns -> Seq(Envelope)]
      BY <1>0, <1>11 DEF FlowTypes, Disconnect, End
    <2>3. hand' \in [Conns -> Seq(Envelope)] /\ got' \in [Conns -> Seq(Envelope)]
      BY <1>0, <1>11 DEF FlowTypes, Disconnect, End
    <2> QED
      BY <2>1, <2>2, <2>3 DEF FlowTypes
  <1>12. ASSUME FinishRevoke PROVE FlowTypes'
    BY <1>0, <1>12 DEF FlowTypes, FinishRevoke, ClearRoute, Tokens, Occupants, Nothing,
         flowVars
  <1>13. ASSUME ProcessEnds PROVE FlowTypes'
    BY <1>13, LostTypes DEF ProcessEnds
  <1>14. ASSUME PowerCut PROVE FlowTypes'
    BY <1>14, LostTypes DEF PowerCut
  <1>15. \/ UNCHANGED <<channel, hand, queued, got>>
         \/ \E c \in Conns : HandshakeEnds(c)
         \/ \E c \in Conns : SeeCancelled(c)
         \/ \E c \in Conns : TakeOutgoing(c)
         \/ \E c \in Conns : Deliver(c)
         \/ \E c \in Conns : \E e \in ClientEnvelope(c) : ReadEnvelope(c, e)
         \/ \E c \in Conns : ClientFails(c)
         \/ \E c \in Conns : Forward(c)
         \/ \E c \in Conns : ForwardRefused(c)
         \/ \E c \in Conns : ForwardCloses(c)
         \/ \E c \in Conns : Disconnect(c)
         \/ FinishRevoke
         \/ ProcessEnds
         \/ PowerCut
    BY StepCases DEF vars, flowVars, Accept, IssueChallenge, RefuseHello, Admit,
         RefuseProof, ReplayedProof, Accepted, BeginRegister, BeginRevoke, Rename,
         CommitFails, FinishRegister, ExpireChallenge, WindowEnds, Shutdown, Start
  <1> QED
    BY <1>1, <1>2, <1>3, <1>4, <1>5, <1>6, <1>7, <1>8, <1>9, <1>10, <1>11, <1>12, <1>13,
         <1>14, <1>15

(* What the commit changes: a route that is revoked stays so, and only the *)
(* route of the operator's call is touched.                                *)
LEMMA CommittedFacts ==
  ASSUME RelayInv, admin # Idle
  PROVE  /\ \A r \in Routes : r # admin.route => Committed[r] = regs[r]
         /\ admin.op = "register" => Committed[admin.route] = Fresh
         /\ admin.op = "revoke" =>
              Committed[admin.route].known /\ Committed[admin.route].revoked
         /\ \A r \in acked : Committed[r].known /\ Committed[r].revoked
         /\ \A r \in Routes : Committed[r].revoked => Committed[r].known
PROOF
  <1>0. StoreTypes
    BY TypeParts DEF RelayInv
  <1>1. admin.route \in Routes /\ admin.op \in {"register", "revoke"}
    BY <1>0, CommittedType
  <1>2. \A r \in Routes : r # admin.route => Committed[r] = regs[r]
    BY <1>0, <1>1 DEF Committed, StoreTypes
  <1>3. admin.op = "register" => Committed[admin.route] = Fresh
    BY <1>0, <1>1 DEF Committed, StoreTypes
  <1>4. admin.op = "revoke" => Committed[admin.route] = Revoked(regs[admin.route])
    BY <1>0, <1>1 DEF Committed, StoreTypes
  <1>5. admin.op = "revoke" => regs[admin.route].known
    BY DEF RelayInv, StoreInv
  <1>6. admin.op = "revoke" =>
          Committed[admin.route].known /\ Committed[admin.route].revoked
    BY <1>4, <1>5 DEF Revoked
  <1>7. ASSUME NEW r \in acked PROVE Committed[r].known /\ Committed[r].revoked
    <2>1. r \in Routes /\ regs[r].known /\ regs[r].revoked
      BY <1>0 DEF StoreTypes, RelayInv, StoreInv
    <2>2. admin.op = "register" => r # admin.route
      BY <2>1 DEF RelayInv, StoreInv
    <2> QED
      BY <1>1, <1>2, <1>6, <2>1, <2>2
  <1>8. ASSUME NEW r \in Routes, Committed[r].revoked PROVE Committed[r].known
    <2>1. regs[r].revoked => regs[r].known
      BY DEF RelayInv, StoreInv
    <2>2. Fresh.known
      BY DEF Fresh
    <2> QED
      BY <1>1, <1>2, <1>3, <1>6, <1>8, <2>1, <2>2
  <1> QED
    BY <1>2, <1>3, <1>6, <1>7, <1>8

LEMMA StoreInvStep ==
  RelayInv /\ [Next]_vars => StoreInv'
PROOF
  <1> SUFFICES ASSUME RelayInv, [Next]_vars PROVE StoreInv'
    OBVIOUS
  <1>0. StoreTypes /\ CoreTypes /\ StoreInv
    BY TypeParts DEF RelayInv
  <1>1. CASE UNCHANGED storeVars /\ challenges' \subseteq challenges
    BY <1>0, <1>1 DEF StoreInv, storeVars, Committed
  <1>2. ASSUME NEW c \in Conns, NEW s \in Seats, IssueChallenge(c, s) PROVE StoreInv'
    <2>1. s.route \notin acked
      BY <1>0, <1>2 DEF IssueChallenge, Free, StoreInv
    <2>2. \A ch \in challenges' : ch \in challenges \/ ch.seat = s
      BY <1>2 DEF IssueChallenge
    <2> QED
      BY <1>0, <1>2, <2>1, <2>2 DEF IssueChallenge, StoreInv, storeVars, Committed
  <1>3. ASSUME NEW r \in Routes, BeginRegister(r) PROVE StoreInv'
    BY <1>0, <1>3 DEF BeginRegister, StoreInv, coreVars
  <1>4. ASSUME NEW r \in Routes, BeginRevoke(r) PROVE StoreInv'
    BY <1>0, <1>4 DEF BeginRevoke, StoreInv, coreVars
  <1>5. ASSUME Rename PROVE StoreInv'
    <2>1. admin # Idle /\ admin \in Op
      BY <1>0, <1>5 DEF Rename, Locked, StoreTypes
    <2>2. admin'.op = admin.op /\ admin'.route = admin.route
      BY <1>5, <2>1 DEF Rename, Op
    <2>3. path' = Committed'
      BY <1>5, <2>2 DEF Rename, Committed
    <2>4. /\ \A r \in acked : path'[r].known /\ path'[r].revoked
          /\ \A r \in Routes : path'[r].revoked => path'[r].known
      BY <1>5, <2>1, CommittedFacts DEF Rename
    <2>5. regs' = regs /\ syncs' = syncs /\ acked' = acked /\ challenges' = challenges
      BY <1>5 DEF Rename, coreVars
    <2>6. durable' = durable \cup {path'}
      BY <1>5 DEF Rename
    <2> QED
      BY <1>0, <2>1, <2>2, <2>3, <2>4, <2>5, <2>6 DEF StoreInv
  <1>6. ASSUME CommitFails PROVE StoreInv'
    BY <1>0, <1>6 DEF CommitFails, StoreInv, coreVars
  <1>7. ASSUME FinishRegister PROVE StoreInv'
    <2>1. path = Committed /\ admin # Idle
      BY <1>0, <1>7 DEF FinishRegister, Locked, StoreInv
    <2>2. \A r \in acked : path[r].known /\ path[r].revoked
      BY <2>1, CommittedFacts
    <2>3. durable' \subseteq durable /\ path \in durable'
      BY <1>0, <1>7 DEF FinishRegister, SyncParent, StoreInv
    <2>4. /\ regs' = path /\ path' = path /\ syncs' = syncs /\ admin' = Idle
          /\ acked' = acked /\ challenges' = challenges
      BY <1>7, <2>1 DEF FinishRegister, coreVars
    <2> QED
      BY <1>0, <2>2, <2>3, <2>4 DEF StoreInv
  <1>8. ASSUME FinishRevoke PROVE StoreInv'
    <2>1. path = Committed /\ admin # Idle
      BY <1>0, <1>8 DEF FinishRevoke, Locked, StoreInv
    <2>2. \A r \in acked' : path[r].known /\ path[r].revoked
      BY <1>8, <2>1, CommittedFacts DEF FinishRevoke
    <2>3. \A ch \in challenges' : ch.seat.route \notin acked'
      BY <1>0, <1>8 DEF FinishRevoke, StoreInv
    <2>4. /\ durable' \subseteq durable /\ path \in durable'
          /\ syncs => durable' = {path}
      BY <1>0, <1>8 DEF FinishRevoke, SyncParent, StoreInv
    <2>5. regs' = path /\ path' = path /\ syncs' = syncs /\ admin' = Idle
      BY <1>8, <2>1 DEF FinishRevoke
    <2> QED
      BY <1>0, <2>2, <2>3, <2>4, <2>5 DEF StoreInv
  <1>9. ASSUME ProcessEnds PROVE StoreInv'
    <2>1. /\ regs' = path /\ path' = path /\ durable' = durable /\ syncs' = syncs
          /\ admin' = Idle /\ acked' = acked /\ challenges' = {}
      BY <1>9 DEF ProcessEnds, Lost
    <2>2. \A r \in acked : r \in Routes /\ path[r].known
      BY <1>0 DEF StoreInv, StoreTypes
    <2> QED
      BY <1>0, <2>1, <2>2 DEF StoreInv
  <1>10. ASSUME PowerCut PROVE StoreInv'
    <2>1. PICK file \in durable :
            /\ regs' = file /\ path' = file /\ durable' = {file} /\ syncs' = syncs
            /\ admin' = Idle /\ challenges' = {}
            /\ acked' = IF syncs THEN acked ELSE {r \in acked : file[r].revoked}
      BY <1>10 DEF PowerCut, Lost
    <2>2. \A r \in acked' : r \in Routes /\ file[r].revoked
      BY <1>0, <2>1 DEF StoreInv, StoreTypes
    <2>3. \A r \in Routes : file[r].revoked => file[r].known
      BY <1>0 DEF StoreInv
    <2> QED
      BY <2>1, <2>2, <2>3 DEF StoreInv
  <1>11. \/ UNCHANGED storeVars /\ challenges' \subseteq challenges
         \/ \E c \in Conns, s \in Seats : IssueChallenge(c, s)
         \/ \E r \in Routes : BeginRegister(r)
         \/ \E r \in Routes : BeginRevoke(r)
         \/ Rename
         \/ CommitFails
         \/ FinishRegister
         \/ FinishRevoke
         \/ ProcessEnds
         \/ PowerCut
    BY StepCases DEF vars, coreVars, Accept, RefuseHello, Admit,
         RefuseProof, ReplayedProof, Accepted, HandshakeEnds, SeeCancelled, TakeOutgoing,
         Deliver, ReadEnvelope, ClientFails, Forward, ForwardRefused, ForwardCloses,
         Disconnect, ExpireChallenge, WindowEnds, Shutdown, Start
  <1> QED
    BY <1>1, <1>2, <1>3, <1>4, <1>5, <1>6, <1>7, <1>8, <1>9, <1>10, <1>11

(* The same tasks exist and the same ones run as endpoints.                *)
SameTasks ==
  \A d \in Conns : (Running(d)' <=> Running(d)) /\ (pc'[d] = "absent" <=> pc[d] = "absent")

LEMMA EndpointGoes ==
  ASSUME ConnTypes, NEW c \in Conns, Running(c),
         NEW place \in {"forwarding", "reading", "sending", "leaving"}, Goto(c, place)
  PROVE  SameTasks
PROOF
  BY DEF ConnTypes, Running, Goto, SameTasks

LEMMA HandshakeGoes ==
  ASSUME ConnTypes, NEW c \in Conns, pc[c] \in {"hello", "challenged"},
         NEW place \in {"challenged", "refusing"}, Goto(c, place)
  PROVE  SameTasks
PROOF
  BY DEF ConnTypes, Running, Goto, SameTasks

(* The steps that neither admit nor evict anybody.                         *)
NobodyMoves ==
  /\ UNCHANGED <<slot, seat, epoch, source, cancelled, regs>>
  /\ SameTasks
  /\ server = "draining" => server' = "draining"

LEMMA MovesCases ==
  ASSUME RelayInv, [Next]_vars
  PROVE  \/ NobodyMoves
         \/ \E c \in Conns, a \in Sources : Accept(c, a)
         \/ \E c \in Conns : \E ch \in challenges : Admit(c, ch)
         \/ \E c \in Conns : HandshakeEnds(c)
         \/ \E c \in Conns : ForwardCloses(c)
         \/ \E c \in Conns : Disconnect(c)
         \/ FinishRegister
         \/ FinishRevoke
         \/ \E file : Lost(file)
PROOF
  <1>0. ConnTypes
    BY TypeParts DEF RelayInv
  <1>1. CASE UNCHANGED <<slot, seat, epoch, source, cancelled, regs, pc>>
             /\ (server = "draining" => server' = "draining")
    BY <1>1 DEF NobodyMoves, SameTasks, Running
  <1>2. ASSUME NEW c \in Conns, NEW s \in Seats, IssueChallenge(c, s) PROVE NobodyMoves
    BY <1>0, <1>2, HandshakeGoes DEF IssueChallenge, NobodyMoves, storeVars, seatVars
  <1>3. ASSUME NEW c \in Conns, NEW s \in Seats, RefuseHello(c, s) PROVE NobodyMoves
    BY <1>0, <1>3, HandshakeGoes DEF RefuseHello, NobodyMoves, storeVars, seatVars
  <1>4. ASSUME NEW c \in Conns, NEW ch \in challenges, NEW b \in BOOLEAN,
               RefuseProof(c, ch, b)
        PROVE  NobodyMoves
    BY <1>0, <1>4, HandshakeGoes DEF RefuseProof, NobodyMoves, storeVars, seatVars
  <1>5. ASSUME NEW c \in Conns, ReplayedProof(c) PROVE NobodyMoves
    BY <1>0, <1>5, HandshakeGoes DEF ReplayedProof, NobodyMoves, storeVars, seatVars
  <1>6. ASSUME NEW c \in Conns, Accepted(c) PROVE NobodyMoves
    BY <1>0, <1>6, EndpointGoes DEF Accepted, Running, NobodyMoves, storeVars, coreVars,
         seatVars
  <1>7. ASSUME NEW c \in Conns, SeeCancelled(c) PROVE NobodyMoves
    BY <1>0, <1>7, EndpointGoes DEF SeeCancelled, Leave, Running, NobodyMoves, storeVars,
         coreVars, seatVars
  <1>8. ASSUME NEW c \in Conns, TakeOutgoing(c) PROVE NobodyMoves
    BY <1>0, <1>8, EndpointGoes DEF TakeOutgoing, Running, NobodyMoves, storeVars,
         coreVars, seatVars
  <1>9. ASSUME NEW c \in Conns, Deliver(c) PROVE NobodyMoves
    BY <1>0, <1>9, EndpointGoes DEF Deliver, Running, NobodyMoves, storeVars,
         coreVars, seatVars
  <1>10. ASSUME NEW c \in Conns, NEW e \in ClientEnvelope(c), ReadEnvelope(c, e)
         PROVE  NobodyMoves
    BY <1>0, <1>10, EndpointGoes DEF ReadEnvelope, Running, NobodyMoves, storeVars,
         coreVars, seatVars
  <1>11. ASSUME NEW c \in Conns, ClientFails(c) PROVE NobodyMoves
    BY <1>0, <1>11, EndpointGoes DEF ClientFails, Leave, Running, NobodyMoves, storeVars,
         coreVars, seatVars
  <1>12. ASSUME NEW c \in Conns, Forward(c) PROVE NobodyMoves
    BY <1>0, <1>12, EndpointGoes DEF Forward, Running, NobodyMoves, storeVars, seatVars
  <1>13. ASSUME NEW c \in Conns, ForwardRefused(c) PROVE NobodyMoves
    BY <1>0, <1>13, EndpointGoes DEF ForwardRefused, Leave, Running, NobodyMoves,
         storeVars, coreVars, seatVars
  <1>14. \/ UNCHANGED <<slot, seat, epoch, source, cancelled, regs, pc>>
            /\ (server = "draining" => server' = "draining")
         \/ \E c \in Conns, s \in Seats : IssueChallenge(c, s)
         \/ \E c \in Conns, s \in Seats : RefuseHello(c, s)
         \/ \E c \in Conns : \E ch \in challenges : \E b \in BOOLEAN : RefuseProof(c, ch, b)
         \/ \E c \in Conns : ReplayedProof(c)
         \/ \E c \in Conns : Accepted(c)
         \/ \E c \in Conns : SeeCancelled(c)
         \/ \E c \in Conns : TakeOutgoing(c)
         \/ \E c \in Conns : Deliver(c)
         \/ \E c \in Conns : \E e \in ClientEnvelope(c) : ReadEnvelope(c, e)
         \/ \E c \in Conns : ClientFails(c)
         \/ \E c \in Conns : Forward(c)
         \/ \E c \in Conns : ForwardRefused(c)
         \/ \E c \in Conns, a \in Sources : Accept(c, a)
         \/ \E c \in Conns : \E ch \in challenges : Admit(c, ch)
         \/ \E c \in Conns : HandshakeEnds(c)
         \/ \E c \in Conns : ForwardCloses(c)
         \/ \E c \in Conns : Disconnect(c)
         \/ FinishRegister
         \/ FinishRevoke
         \/ \E file : Lost(file)
    BY StepCases DEF vars, storeVars, coreVars, seatVars, BeginRegister, BeginRevoke,
         Rename, CommitFails, ExpireChallenge, WindowEnds, Shutdown, ProcessEnds,
         PowerCut, Start
  <1> QED
    BY <1>1, <1>2, <1>3, <1>4, <1>5, <1>6, <1>7, <1>8, <1>9, <1>10, <1>11, <1>12, <1>13,
       <1>14

(* cancel_and_clear cancels every endpoint of the route that still runs,   *)
(* and no endpoint of another route.                                       *)
LEMMA Cleared ==
  ASSUME RelayInv, NEW r, ClearRoute(r)
  PROVE  /\ \A s \in Seats : slot'[s] = IF s.route = r THEN None ELSE slot[s]
         /\ \A c \in Tokens(r) : c \in Conns /\ Running(c)
         /\ \A s \in Seats : slot[s] # None /\ s.route # r => slot[s] \notin Tokens(r)
         /\ \A c \in Conns : Running(c) /\ Occupies(c) /\ seat[c].route = r =>
              c \in Tokens(r)
PROOF
  <1>0. CoreTypes /\ ConnTypes /\ SeatInv
    BY TypeParts DEF RelayInv
  <1>1. \A s \in Seats : slot'[s] = IF s.route = r THEN None ELSE slot[s]
    BY DEF ClearRoute
  <1>2. \A c \in Tokens(r) : \E s \in Seats : s.route = r /\ slot[s] = c /\ c # None
                                              /\ pc[c] # "absent"
    BY DEF Tokens, Occupants, SeatsOf
  <1>3. \A c \in Tokens(r) : c \in Conns /\ Running(c)
    BY <1>0, <1>2 DEF CoreTypes, SeatInv
  <1>4. \A s \in Seats : slot[s] # None /\ s.route # r => slot[s] \notin Tokens(r)
    BY <1>0, <1>2 DEF SeatInv
  <1>5. ASSUME NEW c \in Conns, Running(c), Occupies(c), seat[c].route = r
        PROVE  c \in Tokens(r)
    <2>1. seat[c] \in Seats /\ slot[seat[c]] = c
      BY <1>0, <1>5 DEF ConnTypes, Occupies
    <2>2. c # None /\ pc[c] # "absent"
      BY <1>5, RelayAssumption DEF Running
    <2> QED
      BY <1>5, <2>1, <2>2 DEF Tokens, Occupants, SeatsOf
  <1> QED
    BY <1>1, <1>3, <1>4, <1>5

LEMMA SeatInvStep ==
  RelayInv /\ [Next]_vars => SeatInv' /\ EvictedIsCancelled'
PROOF
  <1> SUFFICES ASSUME RelayInv, [Next]_vars PROVE SeatInv' /\ EvictedIsCancelled'
    OBVIOUS
  <1>0. StoreTypes /\ CoreTypes /\ ConnTypes /\ StoreInv /\ SeatInv /\ EvictedIsCancelled
    BY TypeParts DEF RelayInv
  <1>1. CASE NobodyMoves
    <2>1. \A d \in Conns : /\ Running(d)' <=> Running(d)
                           /\ pc'[d] = "absent" <=> pc[d] = "absent"
      BY <1>1 DEF NobodyMoves, SameTasks
    <2>2. UNCHANGED <<slot, seat, epoch, source, cancelled, regs>>
      BY <1>1 DEF NobodyMoves
    <2>3. SeatInv'
      BY <1>0, <2>1, <2>2 DEF SeatInv, CoreTypes, ConnTypes
    <2>4. \A d \in Conns : /\ Occupies(d)' <=> Occupies(d)
                           /\ Cancelled(d) => Cancelled(d)'
      BY <1>1 DEF NobodyMoves, Occupies, Cancelled
    <2> QED
      BY <1>0, <2>1, <2>3, <2>4 DEF EvictedIsCancelled
  <1>2. ASSUME NEW c \in Conns, NEW a \in Sources, Accept(c, a)
        PROVE  SeatInv' /\ EvictedIsCancelled'
    <2>1. UNCHANGED <<slot, seat, epoch, cancelled, regs, server>>
      BY <1>2 DEF Accept, storeVars, coreVars
    <2>2. \A d \in Conns : d # c => pc'[d] = pc[d] /\ source'[d] = source[d]
      BY <1>0, <1>2 DEF Accept, Goto, ConnTypes
    <2>3. pc[c] = "absent" /\ pc'[c] = "hello" /\ source'[c] = a
      BY <1>0, <1>2 DEF Accept, Goto, ConnTypes
    <2>4. \A d \in Conns : Running(d)' <=> Running(d)
      BY <2>2, <2>3 DEF Running
    <2>5. \A s \in Seats : slot[s] # c
      BY <1>2 DEF Accept, Unnamed
    <2>6. SeatInv'
      BY <1>0, <2>1, <2>2, <2>3, <2>4, <2>5 DEF SeatInv, CoreTypes, ConnTypes
    <2> QED
      BY <1>0, <2>1, <2>4, <2>6 DEF EvictedIsCancelled, Occupies, Cancelled
  <1>3. ASSUME NEW c \in Conns, NEW ch \in challenges, Admit(c, ch)
        PROVE  SeatInv' /\ EvictedIsCancelled'
    <2> DEFINE s == ch.seat
    <2>1. s \in Seats /\ ch.epoch \in Nat /\ s # None
      BY <1>0, PeerSeat DEF CoreTypes, Challenge
    <2>2. UNCHANGED <<source, cancelled, regs, server>>
      BY <1>3 DEF Admit, storeVars
    <2>3. \A d \in Conns : d # c => pc'[d] = pc[d] /\ seat'[d] = seat[d] /\ epoch'[d] = epoch[d]
      BY <1>0, <1>3 DEF Admit, Goto, ConnTypes
    <2>4. pc[c] = "challenged" /\ pc'[c] = "accepting" /\ seat'[c] = s /\ epoch'[c] = ch.epoch
      BY <1>0, <1>3 DEF Admit, Goto, ConnTypes
    <2>5. ~Running(c) /\ Running(c)' /\ \A d \in Conns : d # c => (Running(d)' <=> Running(d))
      BY <2>3, <2>4 DEF Running
    <2>6. slot[s] = None /\ slot'[s] = c /\ \A q \in Seats : q # s => slot'[q] = slot[q]
      BY <1>0, <1>3, <2>1 DEF Admit, CoreTypes
    <2>7. \A q \in Seats : slot[q] # c
      BY <1>0, <2>4, <2>5, RelayAssumption DEF SeatInv
    <2>8. regs[s.route].known /\ ~regs[s.route].revoked /\ regs[s.route].epoch = ch.epoch
      BY <1>3 DEF Admit, Current
    <2>9. /\ \A d \in Conns : pc'[d] # "absent" => source'[d] \in Sources
          /\ \A d \in Conns : Running(d)' <=> seat'[d] # None
          /\ \A d \in cancelled' : Running(d)'
      BY <1>0, <2>1, <2>2, <2>3, <2>4, <2>5 DEF SeatInv, ConnTypes
    <2>10. ASSUME NEW q \in Seats, slot'[q] # None
           PROVE  /\ regs[q.route].known /\ ~regs[q.route].revoked
                  /\ slot'[q] \notin cancelled
                  /\ Running(slot[q])' \/ pc'[slot'[q]] = "absent"
                  /\ Running(slot[q])' =>
                       seat'[slot'[q]] = q /\ epoch'[slot'[q]] = regs[q.route].epoch
                  /\ \A p \in Seats : slot'[p] = slot'[q] => p = q
      <3>1. CASE q = s
        <4>1. slot'[q] = c /\ c \notin cancelled
          BY <1>0, <2>5, <2>6, <3>1 DEF SeatInv
        <4>2. \A p \in Seats : slot'[p] = c => p = q
          BY <2>6, <2>7, <3>1
        <4> QED
          BY <2>4, <2>5, <2>8, <3>1, <4>1, <4>2 DEF Running
      <3>2. CASE q # s
        <4>1. slot'[q] = slot[q] /\ slot[q] # None /\ slot[q] # c /\ slot[q] \in Conns
          BY <1>0, <2>6, <2>7, <2>10, <3>2 DEF CoreTypes
        <4>2. Running(slot[q])' <=> Running(slot[q])
          BY <2>3, <4>1 DEF Running
        <4>3. \A p \in Seats : slot'[p] = slot[q] => slot[p] = slot[q]
          BY <2>6, <4>1
        <4> QED
          BY <1>0, <2>3, <4>1, <4>2, <4>3 DEF SeatInv
      <3> QED
        BY <3>1, <3>2
    <2>11. SeatInv'
      BY <2>2, <2>9, <2>10 DEF SeatInv
    <2>12. ASSUME NEW d \in Conns, d # c, Occupies(d) PROVE Occupies(d)'
      <3>1. seat[d] \in Seats /\ slot[seat[d]] = d /\ d # None
        BY <1>0, <2>12, RelayAssumption DEF Occupies, ConnTypes
      <3>2. seat[d] # s /\ seat'[d] = seat[d]
        BY <2>3, <2>6, <2>12, <3>1
      <3> QED
        BY <2>6, <2>12, <3>1, <3>2 DEF Occupies
    <2>13. Occupies(c)'
      BY <2>1, <2>4, <2>6 DEF Occupies
    <2> QED
      BY <1>0, <2>2, <2>5, <2>11, <2>12, <2>13 DEF EvictedIsCancelled, Cancelled
  <1>4. ASSUME NEW c \in Conns, HandshakeEnds(c)
        PROVE  SeatInv' /\ EvictedIsCancelled'
    <2>1. UNCHANGED <<slot, regs, server>> /\ cancelled' = cancelled \ {c}
      BY <1>4 DEF HandshakeEnds, storeVars, coreVars
    <2>2. \A d \in Conns : d # c => /\ pc'[d] = pc[d] /\ seat'[d] = seat[d]
                                    /\ epoch'[d] = epoch[d] /\ source'[d] = source[d]
      BY <1>0, <1>4 DEF HandshakeEnds, End, Goto, ConnTypes
    <2>3. pc'[c] = "absent" /\ seat'[c] = None
      BY <1>0, <1>4 DEF HandshakeEnds, End, Goto, ConnTypes
    <2>4. ~Running(c)' /\ \A d \in Conns : d # c => (Running(d)' <=> Running(d))
      BY <2>2, <2>3 DEF Running
    <2>5. SeatInv'
      BY <1>0, <2>1, <2>2, <2>3, <2>4 DEF SeatInv, CoreTypes, ConnTypes
    <2>6. \A d \in Conns : d # c => /\ Occupies(d)' <=> Occupies(d)
                                    /\ Cancelled(d) => Cancelled(d)'
      BY <2>1, <2>2 DEF Occupies, Cancelled
    <2> QED
      BY <1>0, <2>4, <2>5, <2>6 DEF EvictedIsCancelled
  <1>5. ASSUME NEW c \in Conns, ForwardCloses(c)
        PROVE  SeatInv' /\ EvictedIsCancelled'
    <2> DEFINE r == seat[c].route
    <2>1. /\ UNCHANGED <<regs, server, source, seat, epoch>>
          /\ cancelled' = cancelled \cup Tokens(r)
      BY <1>5 DEF ForwardCloses, storeVars, seatVars
    <2>2. ClearRoute(r) /\ Running(c) /\ Goto(c, "leaving")
      BY <1>5 DEF ForwardCloses, Leave, Running
    <2>3. \A d \in Conns : /\ Running(d)' <=> Running(d)
                           /\ pc'[d] = "absent" <=> pc[d] = "absent"
      BY <1>0, <2>2, EndpointGoes DEF SameTasks
    <2>4. /\ \A s \in Seats : slot'[s] = IF s.route = r THEN None ELSE slot[s]
          /\ \A d \in Tokens(r) : d \in Conns /\ Running(d)
          /\ \A s \in Seats : slot[s] # None /\ s.route # r => slot[s] \notin Tokens(r)
      BY <2>2, Cleared
    <2>5. \A d \in Conns : Running(d) /\ Occupies(d) /\ seat[d].route = r => d \in Tokens(r)
      BY <2>2, Cleared
    <2>6. SeatInv'
      BY <1>0, <2>1, <2>3, <2>4 DEF SeatInv, CoreTypes, ConnTypes
    <2>7. \A d \in Conns : Running(d) /\ Occupies(d) => Occupies(d)' \/ d \in Tokens(r)
      BY <1>0, <2>1, <2>4, <2>5 DEF Occupies, ConnTypes
    <2> QED
      BY <1>0, <2>1, <2>3, <2>6, <2>7 DEF EvictedIsCancelled, Cancelled
  <1>6. ASSUME NEW c \in Conns, Disconnect(c)
        PROVE  SeatInv' /\ EvictedIsCancelled'
    <2> DEFINE r == seat[c].route
    <2>1. UNCHANGED <<regs, server>>
      BY <1>6 DEF Disconnect, storeVars
    <2>2. \A d \in Conns : d # c => /\ pc'[d] = pc[d] /\ seat'[d] = seat[d]
                                    /\ epoch'[d] = epoch[d] /\ source'[d] = source[d]
      BY <1>0, <1>6 DEF Disconnect, End, Goto, ConnTypes
    <2>3. pc'[c] = "absent" /\ seat'[c] = None
      BY <1>0, <1>6 DEF Disconnect, End, Goto, ConnTypes
    <2>4. ~Running(c)' /\ \A d \in Conns : d # c => (Running(d)' <=> Running(d))
      BY <2>2, <2>3 DEF Running
    <2>5. CASE slot[seat[c]] # c
      <3>1. slot' = slot /\ cancelled' = cancelled \ {c}
        BY <1>6, <2>5 DEF Disconnect
      <3>2. SeatInv'
        BY <1>0, <2>1, <2>2, <2>3, <2>4, <3>1 DEF SeatInv, CoreTypes, ConnTypes
      <3>3. \A d \in Conns : d # c => /\ Occupies(d)' <=> Occupies(d)
                                      /\ Cancelled(d) => Cancelled(d)'
        BY <2>1, <2>2, <3>1 DEF Occupies, Cancelled
      <3> QED
        BY <1>0, <2>4, <3>2, <3>3 DEF EvictedIsCancelled
    <2>6. CASE slot[seat[c]] = c
      <3>1. ClearRoute(r) /\ cancelled' = (cancelled \cup Tokens(r)) \ {c}
        BY <1>6, <2>6 DEF Disconnect
      <3>2. /\ \A s \in Seats : slot'[s] = IF s.route = r THEN None ELSE slot[s]
            /\ \A d \in Tokens(r) : d \in Conns /\ Running(d)
            /\ \A s \in Seats : slot[s] # None /\ s.route # r => slot[s] \notin Tokens(r)
        BY <3>1, Cleared
      <3>3. \A d \in Conns : Running(d) /\ Occupies(d) /\ seat[d].route = r => d \in Tokens(r)
        BY <3>1, Cleared
      <3>4. Running(c) /\ seat[c] \in Seats
        BY <1>6, TaskFacts DEF Disconnect, Running
      <3>5. \A s \in Seats : s.route # r => slot[s] # c
        BY <1>0, <2>6, <3>4, RelayAssumption DEF SeatInv
      <3>6. SeatInv'
        BY <1>0, <2>1, <2>2, <2>3, <2>4, <3>1, <3>2, <3>5 DEF SeatInv, CoreTypes, ConnTypes
      <3>7. \A d \in Conns : d # c /\ Running(d) /\ Occupies(d) => Occupies(d)' \/ d \in Tokens(r)
        BY <1>0, <2>2, <3>2, <3>3 DEF Occupies, ConnTypes
      <3> QED
        BY <1>0, <2>1, <2>4, <3>1, <3>6, <3>7 DEF EvictedIsCancelled, Cancelled
    <2> QED
      BY <2>5, <2>6
  <1>7. ASSUME FinishRegister PROVE SeatInv' /\ EvictedIsCancelled'
    <2>1. UNCHANGED <<slot, seat, epoch, source, cancelled, pc, server>> /\ regs' = Committed
      BY <1>7 DEF FinishRegister, coreVars, seatVars
    <2>2. admin # Idle /\ ~regs[admin.route].known
      BY <1>0, <1>7 DEF FinishRegister, Locked, StoreInv
    <2>3. \A s \in Seats : slot[s] # None => regs'[s.route] = regs[s.route]
      BY <1>0, <2>1, <2>2, CommittedFacts, PeerSeat DEF SeatInv
    <2>4. SeatInv'
      BY <1>0, <2>1, <2>3 DEF SeatInv, Running, CoreTypes
    <2> QED
      BY <1>0, <2>1, <2>4 DEF EvictedIsCancelled, Running, Occupies, Cancelled
  <1>8. ASSUME FinishRevoke PROVE SeatInv' /\ EvictedIsCancelled'
    <2> DEFINE r == admin.route
    <2>1. /\ UNCHANGED <<seat, epoch, source, pc, server>> /\ regs' = Committed
          /\ ClearRoute(r) /\ cancelled' = cancelled \cup Tokens(r)
      BY <1>8 DEF FinishRevoke, coreVars, seatVars
    <2>2. /\ \A s \in Seats : slot'[s] = IF s.route = r THEN None ELSE slot[s]
          /\ \A d \in Tokens(r) : d \in Conns /\ Running(d)
          /\ \A s \in Seats : slot[s] # None /\ s.route # r => slot[s] \notin Tokens(r)
      BY <2>1, Cleared
    <2>3. \A d \in Conns : Running(d) /\ Occupies(d) /\ seat[d].route = r => d \in Tokens(r)
      BY <2>1, Cleared
    <2>4. \A s \in Seats : s.route # r => regs'[s.route] = regs[s.route]
      BY <1>8, <2>1, CommittedFacts, PeerSeat DEF FinishRevoke, Locked
    <2>5. \A d \in Conns : Running(d)' <=> Running(d)
      BY <2>1 DEF Running
    <2>6. SeatInv'
      BY <1>0, <2>1, <2>2, <2>4, <2>5 DEF SeatInv, CoreTypes, ConnTypes
    <2>7. \A d \in Conns : Running(d) /\ Occupies(d) => Occupies(d)' \/ d \in Tokens(r)
      BY <1>0, <2>1, <2>2, <2>3 DEF Occupies, ConnTypes
    <2> QED
      BY <1>0, <2>1, <2>5, <2>6, <2>7 DEF EvictedIsCancelled, Cancelled
  <1>9. ASSUME NEW file, Lost(file) PROVE SeatInv' /\ EvictedIsCancelled'
    BY <1>9 DEF Lost, SeatInv, EvictedIsCancelled, Running
  <1> QED
    BY <1>1, <1>2, <1>3, <1>4, <1>5, <1>6, <1>7, <1>8, <1>9, MovesCases

(* What a client was sent and will be sent.                                *)
LEMMA StreamTypes ==
  ASSUME FlowTypes, NEW c \in Conns
  PROVE  /\ got[c] \in Seq(Envelope) /\ InHand(c) \in Seq(Envelope)
         /\ channel[c] \in Seq(Envelope) /\ Stream(c) \in Seq(Envelope)
         /\ got[c] \o InHand(c) \in Seq(Envelope)
         /\ Len(Stream(c)) = Len(got[c]) + Len(InHand(c)) + Len(channel[c])
PROOF
  <1>1. got[c] \in Seq(Envelope) /\ InHand(c) \in Seq(Envelope) /\ channel[c] \in Seq(Envelope)
    BY EmptySeq DEF FlowTypes, InHand
  <1>2. /\ got[c] \o InHand(c) \in Seq(Envelope)
        /\ Len(got[c] \o InHand(c)) = Len(got[c]) + Len(InHand(c))
    BY <1>1, ConcatProperties
  <1>3. /\ Stream(c) \in Seq(Envelope)
        /\ Len(Stream(c)) = Len(got[c] \o InHand(c)) + Len(channel[c])
    BY <1>1, <1>2, ConcatProperties DEF Stream
  <1> QED
    BY <1>1, <1>2, <1>3

(* What was sent is a prefix of the stream.                                *)
LEMMA GotIsPrefix ==
  ASSUME FlowTypes, NEW c \in Conns
  PROVE  /\ Len(got[c]) <= Len(Stream(c))
         /\ \A i \in 1 .. Len(got[c]) : Stream(c)[i] = got[c][i]
PROOF
  <1> DEFINE g == got[c]
             h == InHand(c)
             q == channel[c]
             sent == g \o h
  <1>1. g \in Seq(Envelope) /\ h \in Seq(Envelope) /\ q \in Seq(Envelope)
    BY StreamTypes
  <1>2. Stream(c) = sent \o q
    BY DEF Stream
  <1> HIDE DEF g, h, q
  <1>3. /\ sent \in Seq(Envelope) /\ Len(sent) = Len(g) + Len(h)
        /\ \A i \in 1 .. Len(g) + Len(h) : sent[i] = IF i <= Len(g) THEN g[i] ELSE h[i - Len(g)]
    BY <1>1, ConcatProperties
  <1> HIDE DEF sent
  <1> DEFINE st == sent \o q
  <1>4. /\ Len(st) = Len(sent) + Len(q)
        /\ \A i \in 1 .. Len(sent) + Len(q) :
             st[i] = IF i <= Len(sent) THEN sent[i] ELSE q[i - Len(sent)]
    <2>1. sent \in Seq(Envelope)
      BY <1>3
    <2> QED
      BY <1>1, <2>1, ConcatProperties, Zenon
  <1> HIDE DEF st
  <1>5. Len(g) \in Nat /\ Len(h) \in Nat /\ Len(q) \in Nat
    BY <1>1, LenProperties
  <1>6. Len(g) <= Len(st)
    BY <1>3, <1>4, <1>5
  <1>7. ASSUME NEW i \in 1 .. Len(g) PROVE st[i] = g[i]
    <2>1. i \in 1 .. Len(g) + Len(h) /\ i <= Len(g) /\ i <= Len(sent)
      BY <1>3, <1>5
    <2>2. i \in 1 .. Len(sent) + Len(q)
      BY <1>3, <1>5, <2>1
    <2> QED
      BY <1>3, <1>4, <2>1, <2>2
  <1> QED
    BY <1>2, <1>6, <1>7 DEF g, st

LEMMA StreamKept ==
  ASSUME NEW d \in Conns, got'[d] = got[d], InHand(d)' = InHand(d), channel'[d] = channel[d]
  PROVE  Stream(d)' = Stream(d)
PROOF
  BY DEF Stream

(* The head of the channel moves into the hand.                            *)
LEMMA TakeKeeps ==
  ASSUME RelayInv, NEW c \in Conns, TakeOutgoing(c), NEW d \in Conns
  PROVE  Stream(d)' = Stream(d)
PROOF
  <1>0. FlowTypes /\ ConnTypes
    BY TypeParts DEF RelayInv
  <1>1. CASE d # c
    <2>1. got'[d] = got[d] /\ channel'[d] = channel[d] /\ InHand(d)' = InHand(d)
      BY <1>0, <1>1 DEF TakeOutgoing, Goto, InHand, FlowTypes, ConnTypes
    <2> QED
      BY <2>1, StreamKept
  <1>2. CASE d = c
    <2> DEFINE g == got[c]
               q == channel[c]
    <2>1. g \in Seq(Envelope) /\ q \in Seq(Envelope) /\ q # <<>> /\ InHand(c) = <<>>
      BY <1>0 DEF TakeOutgoing, InHand, FlowTypes
    <2>2. /\ got'[c] = g /\ channel'[c] = Tail(q) /\ pc'[c] = "sending"
          /\ hand'[c] = <<Head(q)>>
      BY <1>0 DEF TakeOutgoing, Goto, FlowTypes, ConnTypes
    <2>3. Head(q) \in Envelope /\ Tail(q) \in Seq(Envelope) /\ <<Head(q)>> \in Seq(Envelope)
      BY <2>1, HeadTailProperties
    <2>4. q = <<Head(q)>> \o Tail(q)
      <3> HIDE DEF q
      <3>1. SubSeq(q, 1, Len(q)) = <<q[1]>> \o SubSeq(q, 2, Len(q))
        BY <2>1, LenProperties, EmptySeq, SubSeqRecursiveFirst
      <3>2. SubSeq(q, 1, Len(q)) = q /\ SubSeq(q, 2, Len(q)) = Tail(q)
        BY <2>1, SubSeqFull, TailIsSubSeq
      <3>3. Head(q) = q[1]
        BY <2>1
      <3> QED
        BY <3>1, <3>2, <3>3
    <2>5. (g \o <<Head(q)>>) \o Tail(q) = g \o (<<Head(q)>> \o Tail(q))
      <3> DEFINE h == <<Head(q)>>
                 t == Tail(q)
      <3>1. h \in Seq(Envelope) /\ t \in Seq(Envelope)
        BY <2>3
      <3> HIDE DEF g, q, h, t
      <3>2. (g \o h) \o t = g \o (h \o t)
        BY <2>1, <3>1, ConcatAssociative
      <3> QED
        BY <3>2 DEF h, t
    <2>6. Stream(c)' = (g \o <<Head(q)>>) \o Tail(q)
      BY <2>2 DEF Stream, InHand
    <2>7. Stream(c) = g \o q
      BY <2>1, ConcatEmptySeq DEF Stream
    <2> QED
      BY <1>2, <2>4, <2>5, <2>6, <2>7
  <1> QED
    BY <1>1, <1>2

(* The envelope in the hand is sent.                                       *)
LEMMA DeliverKeeps ==
  ASSUME RelayInv, NEW c \in Conns, Deliver(c), NEW d \in Conns
  PROVE  Stream(d)' = Stream(d)
PROOF
  <1>0. FlowTypes /\ ConnTypes
    BY TypeParts DEF RelayInv
  <1>1. CASE d # c
    <2>1. got'[d] = got[d] /\ channel'[d] = channel[d] /\ InHand(d)' = InHand(d)
      BY <1>0, <1>1 DEF Deliver, Goto, InHand, FlowTypes, ConnTypes
    <2> QED
      BY <2>1, StreamKept
  <1>2. CASE d = c
    <2> DEFINE g == got[c]
               q == channel[c]
               h == hand[c][1]
    <2>1. g \in Seq(Envelope) /\ q \in Seq(Envelope)
      BY <1>0 DEF FlowTypes
    <2>2. pc[c] = "sending" /\ h \in Envelope /\ hand[c] = <<h>>
      BY TaskFacts DEF Deliver
    <2>3. got'[c] = Append(g, h) /\ channel'[c] = q /\ pc'[c] = "forwarding"
      BY <1>0 DEF Deliver, Goto, FlowTypes, ConnTypes
    <2>4. Append(g, h) = g \o <<h>> /\ Append(g, h) \in Seq(Envelope)
      <3> HIDE DEF g, h
      <3>1. Append(g, h) = g \o <<h>>
        BY <2>1, <2>2, AppendIsConcat
      <3>2. Append(g, h) \in Seq(Envelope)
        BY <2>1, <2>2, AppendProperties
      <3> QED
        BY <3>1, <3>2
    <2>5. Stream(c)' = Append(g, h) \o <<>> \o q
      BY <2>3 DEF Stream, InHand
    <2>6. Append(g, h) \o <<>> = Append(g, h)
      BY <2>4, ConcatEmptySeq
    <2>7. Stream(c) = (g \o <<h>>) \o q
      BY <2>2 DEF Stream, InHand
    <2> QED
      BY <1>2, <2>4, <2>5, <2>6, <2>7
  <1> QED
    BY <1>1, <1>2

(* run_forwarding returns: the client keeps what it was sent.              *)
LEMMA LeaveStreams ==
  ASSUME RelayInv, NEW c \in Conns, Leave(c), got' = got
  PROVE  /\ \A d \in Conns : d # c => Stream(d)' = Stream(d)
         /\ Stream(c)' = got[c]
         /\ pc'[c] = "leaving" /\ hand'[c] = <<>>
PROOF
  <1>0. FlowTypes /\ ConnTypes
    BY TypeParts DEF RelayInv
  <1>1. ASSUME NEW d \in Conns, d # c PROVE Stream(d)' = Stream(d)
    <2>1. got'[d] = got[d] /\ channel'[d] = channel[d] /\ InHand(d)' = InHand(d)
      BY <1>0, <1>1 DEF Leave, Goto, InHand, FlowTypes, ConnTypes
    <2> QED
      BY <2>1, StreamKept
  <1>2. /\ got'[c] = got[c] /\ channel'[c] = <<>> /\ pc'[c] = "leaving"
        /\ got[c] \in Seq(Envelope) /\ hand'[c] = <<>>
    BY <1>0 DEF Leave, Goto, FlowTypes, ConnTypes
  <1>3. Stream(c)' = got[c] \o <<>> \o <<>>
    BY <1>2 DEF Stream, InHand
  <1>4. Stream(c)' = got[c]
    BY <1>2, <1>3, ConcatEmptySeq
  <1> QED
    BY <1>1, <1>2, <1>4

(* The task ends: its client is gone.                                      *)
LEMMA EndStreams ==
  ASSUME RelayInv, NEW c \in Conns, End(c)
  PROVE  /\ \A d \in Conns : d # c => Stream(d)' = Stream(d)
         /\ Stream(c)' = <<>>
         /\ pc'[c] = "absent" /\ hand'[c] = <<>>
PROOF
  <1>0. FlowTypes /\ ConnTypes
    BY TypeParts DEF RelayInv
  <1>1. ASSUME NEW d \in Conns, d # c PROVE Stream(d)' = Stream(d)
    <2>1. got'[d] = got[d] /\ channel'[d] = channel[d] /\ InHand(d)' = InHand(d)
      BY <1>0, <1>1 DEF End, Goto, InHand, FlowTypes, ConnTypes
    <2> QED
      BY <2>1, StreamKept
  <1>2. got'[c] = <<>> /\ channel'[c] = <<>> /\ pc'[c] = "absent" /\ hand'[c] = <<>>
    BY <1>0 DEF End, Goto, FlowTypes, ConnTypes
  <1>3. Stream(c)' = <<>> \o <<>> \o <<>>
    BY <1>2 DEF Stream, InHand
  <1>4. Stream(c)' = <<>>
    BY <1>3, ConcatEmptySeq, EmptySeq
  <1> QED
    BY <1>1, <1>2, <1>4

(* forward: the envelope follows what its receiver has.                    *)
LEMMA ForwardStreams ==
  ASSUME RelayInv, NEW c \in Conns, Forward(c), NEW d, d = slot[Peer(seat[c])]
  PROVE  /\ d \in Conns /\ d # c /\ pc[d] \in Receiving /\ Occupies(d)
         /\ seat[c] \in Seats /\ seat[d] = Peer(seat[c]) /\ seat[c] = Peer(seat[d])
         /\ hand[c][1] \in Envelope
         /\ \A b \in Conns : b # d => Stream(b)' = Stream(b)
         /\ Stream(d)' = Append(Stream(d), hand[c][1])
PROOF
  <1>0. FlowTypes /\ ConnTypes /\ CoreTypes /\ SeatInv
    BY TypeParts DEF RelayInv
  <1>1. pc[c] = "reading" /\ Running(c) /\ seat[c] \in Seats /\ hand[c][1] \in Envelope
    BY TaskFacts DEF Forward, Running
  <1>2. /\ Peer(seat[c]) \in Seats /\ Peer(Peer(seat[c])) = seat[c]
        /\ Peer(seat[c]) # seat[c] /\ Peer(seat[c]) # None
    BY <1>1, PeerSeat
  <1>3. d # None /\ pc[d] \in Receiving /\ slot[seat[c]] = c
    BY DEF Forward, CanSend, ValidEndpoint
  <1>4. d \in Conns /\ Running(d)
    BY <1>0, <1>2, <1>3 DEF CoreTypes, Receiving, Running
  <1>5. seat[d] = Peer(seat[c])
    BY <1>0, <1>2, <1>3, <1>4 DEF SeatInv
  <1>6. d # c /\ Occupies(d)
    BY <1>2, <1>5 DEF Occupies
  <1>7. /\ channel' = [channel EXCEPT ![d] = Append(channel[d], hand[c][1])]
        /\ hand' = [hand EXCEPT ![c] = <<>>] /\ got' = got
        /\ pc' = [pc EXCEPT ![c] = "forwarding"]
    BY <1>0, <1>4 DEF Forward, Goto, FlowTypes
  <1>8. ASSUME NEW b \in Conns PROVE InHand(b)' = InHand(b) /\ got'[b] = got[b]
    BY <1>0, <1>1, <1>7 DEF InHand, ConnTypes, FlowTypes
  <1>9. ASSUME NEW b \in Conns, b # d PROVE Stream(b)' = Stream(b)
    <2>1. channel'[b] = channel[b]
      BY <1>0, <1>7, <1>9 DEF FlowTypes
    <2> QED
      BY <1>8, <2>1, StreamKept
  <1>10. Stream(d)' = Append(Stream(d), hand[c][1])
    <2> DEFINE sent == got[d] \o InHand(d)
               q == channel[d]
               e == hand[c][1]
    <2>1. sent \in Seq(Envelope) /\ q \in Seq(Envelope) /\ Stream(d) \in Seq(Envelope)
      BY <1>0, <1>4, StreamTypes
    <2>2. Stream(d) = sent \o q
      BY DEF Stream
    <2>3. channel'[d] = Append(q, e)
      BY <1>0, <1>4, <1>7 DEF FlowTypes
    <2>4. Stream(d)' = sent \o Append(q, e)
      BY <1>4, <1>8, <2>3 DEF Stream
    <2> HIDE DEF sent, q, e
    <2>5. e \in Envelope /\ <<e>> \in Seq(Envelope)
      BY <1>1 DEF e
    <2>6. Append(q, e) = q \o <<e>> /\ Append(Stream(d), e) = Stream(d) \o <<e>>
      BY <2>1, <2>5, AppendIsConcat
    <2>7. (sent \o q) \o <<e>> = sent \o (q \o <<e>>)
      BY <2>1, <2>5, ConcatAssociative
    <2>8. Stream(d)' = Append(Stream(d), e)
      BY <2>2, <2>4, <2>6, <2>7
    <2> QED
      BY <2>8 DEF e
  <1> QED
    BY <1>1, <1>2, <1>3, <1>4, <1>5, <1>6, <1>9, <1>10

(* The steps that leave the seats, the sequences and the envelopes alone.  *)
Greeting == {"hello", "challenged", "refusing"}

Quiet ==
  /\ UNCHANGED <<slot, next, seat, channel, hand, queued, got>>
  /\ \A d \in Conns :
       /\ Running(d)' <=> Running(d)
       /\ pc'[d] = "reading" <=> pc[d] = "reading"
       /\ pc'[d] = "sending" <=> pc[d] = "sending"
       /\ pc'[d] \in Receiving => pc[d] \in Receiving
       /\ pc'[d] \in Greeting => pc[d] \in Greeting

LEMMA QuietCases ==
  ASSUME RelayInv, [Next]_vars
  PROVE  \/ Quiet
         \/ \E c \in Conns, a \in Sources : Accept(c, a)
         \/ \E c \in Conns : \E ch \in challenges : Admit(c, ch)
         \/ \E c \in Conns : HandshakeEnds(c)
         \/ \E c \in Conns : SeeCancelled(c)
         \/ \E c \in Conns : TakeOutgoing(c)
         \/ \E c \in Conns : Deliver(c)
         \/ \E c \in Conns : \E e \in ClientEnvelope(c) : ReadEnvelope(c, e)
         \/ \E c \in Conns : ClientFails(c)
         \/ \E c \in Conns : Forward(c)
         \/ \E c \in Conns : ForwardRefused(c)
         \/ \E c \in Conns : ForwardCloses(c)
         \/ \E c \in Conns : Disconnect(c)
         \/ FinishRevoke
         \/ \E file : Lost(file)
PROOF
  <1>0. ConnTypes
    BY TypeParts DEF RelayInv
  <1>1. CASE UNCHANGED <<slot, next, seat, channel, hand, queued, got, pc>>
    BY <1>1 DEF Quiet, Running
  <1>2. ASSUME NEW c \in Conns,
               pc[c] \in {"hello", "challenged"},
               Goto(c, "challenged") \/ Goto(c, "refusing"),
               UNCHANGED <<slot, next, seat, channel, hand, queued, got>>
        PROVE  Quiet
    BY <1>0, <1>2 DEF Goto, Quiet, Running, Receiving, Greeting, ConnTypes
  <1>3. ASSUME NEW c \in Conns, Accepted(c) PROVE Quiet
    BY <1>0, <1>3 DEF Accepted, Goto, Quiet, Running, Receiving, Greeting, ConnTypes,
         coreVars, seatVars, flowVars
  <1>4. ASSUME NEW c \in Conns, NEW s \in Seats, IssueChallenge(c, s) PROVE Quiet
    BY <1>2, <1>4 DEF IssueChallenge, seatVars, flowVars
  <1>5. ASSUME NEW c \in Conns, NEW s \in Seats, RefuseHello(c, s) PROVE Quiet
    BY <1>2, <1>5 DEF RefuseHello, seatVars, flowVars
  <1>6. ASSUME NEW c \in Conns, NEW ch \in challenges, NEW b \in BOOLEAN,
               RefuseProof(c, ch, b)
        PROVE  Quiet
    BY <1>2, <1>6 DEF RefuseProof, seatVars, flowVars
  <1>7. ASSUME NEW c \in Conns, ReplayedProof(c) PROVE Quiet
    BY <1>2, <1>7 DEF ReplayedProof, seatVars, flowVars
  <1>8. \/ UNCHANGED <<slot, next, seat, channel, hand, queued, got, pc>>
        \/ \E c \in Conns : Accepted(c)
        \/ \E c \in Conns, s \in Seats : IssueChallenge(c, s)
        \/ \E c \in Conns, s \in Seats : RefuseHello(c, s)
        \/ \E c \in Conns : \E ch \in challenges : \E b \in BOOLEAN : RefuseProof(c, ch, b)
        \/ \E c \in Conns : ReplayedProof(c)
        \/ \E c \in Conns, a \in Sources : Accept(c, a)
        \/ \E c \in Conns : \E ch \in challenges : Admit(c, ch)
        \/ \E c \in Conns : HandshakeEnds(c)
        \/ \E c \in Conns : SeeCancelled(c)
        \/ \E c \in Conns : TakeOutgoing(c)
        \/ \E c \in Conns : Deliver(c)
        \/ \E c \in Conns : \E e \in ClientEnvelope(c) : ReadEnvelope(c, e)
        \/ \E c \in Conns : ClientFails(c)
        \/ \E c \in Conns : Forward(c)
        \/ \E c \in Conns : ForwardRefused(c)
        \/ \E c \in Conns : ForwardCloses(c)
        \/ \E c \in Conns : Disconnect(c)
        \/ FinishRevoke
        \/ \E file : Lost(file)
    BY StepCases DEF vars, coreVars, seatVars, flowVars, BeginRegister, BeginRevoke,
         Rename, CommitFails, FinishRegister, ExpireChallenge, WindowEnds, Shutdown,
         ProcessEnds, PowerCut, Start
  <1> QED
    BY <1>1, <1>3, <1>4, <1>5, <1>6, <1>7, <1>8

LEMMA QuietKeeps ==
  ASSUME Quiet, NEW d \in Conns
  PROVE  Stream(d)' = Stream(d)
PROOF
  <1>1. got'[d] = got[d] /\ channel'[d] = channel[d] /\ InHand(d)' = InHand(d)
    BY DEF Quiet, InHand
  <1> QED
    BY <1>1, StreamKept

LEMMA AcceptKeeps ==
  ASSUME RelayInv, NEW c \in Conns, NEW a \in Sources, Accept(c, a), NEW d \in Conns
  PROVE  Stream(d)' = Stream(d)
PROOF
  <1>0. ConnTypes
    BY TypeParts DEF RelayInv
  <1>1. got'[d] = got[d] /\ channel'[d] = channel[d] /\ InHand(d)' = InHand(d)
    BY <1>0 DEF Accept, Goto, InHand, ConnTypes, flowVars
  <1> QED
    BY <1>1, StreamKept

LEMMA AdmitKeeps ==
  ASSUME RelayInv, NEW c \in Conns, NEW ch, Admit(c, ch)
  PROVE  /\ \A d \in Conns : Stream(d)' = Stream(d)
         /\ Stream(c) = <<>>
PROOF
  <1>0. ConnTypes /\ FlowTypes
    BY TypeParts DEF RelayInv
  <1>1. ASSUME NEW d \in Conns PROVE Stream(d)' = Stream(d)
    <2>1. got'[d] = got[d] /\ channel'[d] = channel[d] /\ InHand(d)' = InHand(d)
      BY <1>0 DEF Admit, Goto, InHand, ConnTypes, flowVars
    <2> QED
      BY <2>1, StreamKept
  <1>2. pc[c] = "challenged"
    BY DEF Admit
  <1>3. got[c] = <<>> /\ channel[c] = <<>> /\ InHand(c) = <<>>
    BY <1>2 DEF RelayInv, HandInv, Running, InHand
  <1>4. Stream(c) = <<>> \o <<>> \o <<>>
    BY <1>3 DEF Stream
  <1>5. Stream(c) = <<>>
    BY <1>4, ConcatEmptySeq, EmptySeq
  <1> QED
    BY <1>1, <1>5

LEMMA ReadKeeps ==
  ASSUME RelayInv, NEW c \in Conns, NEW e, ReadEnvelope(c, e), NEW d \in Conns
  PROVE  Stream(d)' = Stream(d)
PROOF
  <1>0. ConnTypes /\ FlowTypes
    BY TypeParts DEF RelayInv
  <1>1. got'[d] = got[d] /\ channel'[d] = channel[d] /\ InHand(d)' = InHand(d)
    BY <1>0 DEF ReadEnvelope, Goto, InHand, ConnTypes, FlowTypes
  <1> QED
    BY <1>1, StreamKept

LEMMA RevokeKeeps ==
  ASSUME FinishRevoke, NEW d \in Conns
  PROVE  Stream(d)' = Stream(d)
PROOF
  BY StreamKept DEF FinishRevoke, InHand

LEMMA LostStreams ==
  ASSUME NEW file, Lost(file), NEW d \in Conns
  PROVE  Stream(d)' = <<>>
PROOF
  <1>1. got'[d] = <<>> /\ channel'[d] = <<>> /\ InHand(d)' = <<>>
    BY DEF Lost, InHand
  <1>2. Stream(d)' = <<>> \o <<>> \o <<>>
    BY <1>1 DEF Stream
  <1> QED
    BY <1>2, ConcatEmptySeq, EmptySeq

(* No step but forward adds to a stream.                                   *)
LEMMA Shrinks ==
  ASSUME RelayInv, [Next]_vars, ~ \E c \in Conns : Forward(c), NEW d \in Conns
  PROVE  /\ Len(Stream(d)') \in Nat /\ Len(Stream(d)') <= Len(Stream(d))
         /\ \A i \in 1 .. Len(Stream(d)') : Stream(d)'[i] = Stream(d)[i]
PROOF
  <1>0. FlowTypes
    BY TypeParts DEF RelayInv
  <1>1. Len(Stream(d)) \in Nat /\ Len(got[d]) \in Nat
    BY <1>0, StreamTypes, LenProperties
  <1>2. CASE Stream(d)' = Stream(d)
    BY <1>1, <1>2
  <1>3. CASE Stream(d)' = got[d]
    BY <1>0, <1>1, <1>3, GotIsPrefix
  <1>4. CASE Stream(d)' = <<>>
    BY <1>1, <1>4
  <1>5. ASSUME NEW c \in Conns, Leave(c), got' = got
        PROVE  Stream(d)' = Stream(d) \/ Stream(d)' = got[d]
    BY <1>5, LeaveStreams
  <1>6. ASSUME NEW c \in Conns, End(c)
        PROVE  Stream(d)' = Stream(d) \/ Stream(d)' = <<>>
    BY <1>6, EndStreams
  <1>7. \/ Stream(d)' = Stream(d)
        \/ \E c \in Conns : Leave(c) /\ got' = got
        \/ \E c \in Conns : End(c)
        \/ Stream(d)' = <<>>
    BY QuietCases, QuietKeeps, AcceptKeeps, AdmitKeeps, ReadKeeps, TakeKeeps,
       DeliverKeeps, RevokeKeeps, LostStreams
       DEF HandshakeEnds, SeeCancelled, ClientFails, ForwardRefused, ForwardCloses, Disconnect
  <1> QED
    BY <1>2, <1>3, <1>4, <1>5, <1>6, <1>7

(* The hand and the places of an endpoint's envelopes.                     *)
HandFits ==
  \A c \in Conns :
    /\ Len(hand[c]) = IF pc[c] \in {"reading", "sending"} THEN 1 ELSE 0
    /\ pc[c] = "reading" => hand[c][1].from = c
    /\ ~Running(c) => got[c] = <<>> /\ channel[c] = <<>>

(* No envelope comes from a connection that greets.                        *)
NoneFromGreeting ==
  \A c \in Conns : pc[c] \in Greeting =>
    \A d \in Conns : \A i \in 1 .. Len(Stream(d)) : Stream(d)[i].from # c

LEMMA HandParts ==
  /\ HandInv <=> HandFits /\ NoneFromGreeting
  /\ HandInv' <=> HandFits' /\ NoneFromGreeting'
PROOF
  BY DEF HandInv, HandFits, NoneFromGreeting, Greeting

LEMMA HandFitsStep ==
  RelayInv /\ [Next]_vars => HandFits'
PROOF
  <1> SUFFICES ASSUME RelayInv, [Next]_vars PROVE HandFits'
    OBVIOUS
  <1>0. FlowTypes /\ ConnTypes /\ HandFits
    BY TypeParts, HandParts DEF RelayInv
  <1> DEFINE Fit(c) ==
        /\ Len(hand[c]) = IF pc[c] \in {"reading", "sending"} THEN 1 ELSE 0
        /\ pc[c] = "reading" => hand[c][1].from = c
        /\ ~Running(c) => got[c] = <<>> /\ channel[c] = <<>>
  <1>1. ASSUME NEW d \in Conns,
               pc'[d] = pc[d], hand'[d] = hand[d], got'[d] = got[d], channel'[d] = channel[d]
        PROVE  Fit(d)'
    BY <1>0, <1>1 DEF HandFits, Running
  <1>2. CASE Quiet
    BY <1>0, <1>2 DEF Quiet, HandFits
  <1>3. ASSUME NEW c \in Conns, NEW a \in Sources, Accept(c, a) PROVE HandFits'
    BY <1>0, <1>3 DEF Accept, Goto, HandFits, Running, ConnTypes, flowVars
  <1>4. ASSUME NEW c \in Conns, NEW ch \in challenges, Admit(c, ch) PROVE HandFits'
    BY <1>0, <1>4 DEF Admit, Goto, HandFits, Running, ConnTypes, flowVars
  <1>5. ASSUME NEW c \in Conns, End(c) PROVE HandFits'
    BY <1>0, <1>5, EmptySeq DEF End, Goto, HandFits, Running, ConnTypes, FlowTypes
  <1>6. ASSUME NEW c \in Conns, Leave(c), got' = got PROVE HandFits'
    BY <1>0, <1>6, EmptySeq DEF Leave, Goto, HandFits, Running, ConnTypes, FlowTypes
  <1>7. ASSUME NEW c \in Conns, TakeOutgoing(c) PROVE HandFits'
    <2>1. \A d \in Conns : d # c => Fit(d)'
      BY <1>0, <1>1, <1>7 DEF TakeOutgoing, Goto, ConnTypes, FlowTypes
    <2>2. hand'[c] = <<Head(channel[c])>> /\ pc'[c] = "sending"
      BY <1>0, <1>7 DEF TakeOutgoing, Goto, ConnTypes, FlowTypes
    <2>3. Len(hand'[c]) = 1
      BY <2>2
    <2>4. Fit(c)'
      BY <2>2, <2>3 DEF Running
    <2> QED
      BY <2>1, <2>4 DEF HandFits
  <1>8. ASSUME NEW c \in Conns, Deliver(c) PROVE HandFits'
    <2>1. \A d \in Conns : d # c => Fit(d)'
      BY <1>0, <1>1, <1>8 DEF Deliver, Goto, ConnTypes, FlowTypes
    <2>2. hand'[c] = <<>> /\ pc'[c] = "forwarding"
      BY <1>0, <1>8 DEF Deliver, Goto, ConnTypes, FlowTypes
    <2>3. Len(hand'[c]) = 0
      BY <2>2
    <2>4. Fit(c)'
      BY <2>2, <2>3 DEF Running
    <2> QED
      BY <2>1, <2>4 DEF HandFits
  <1>9. ASSUME NEW c \in Conns, NEW e \in ClientEnvelope(c), ReadEnvelope(c, e)
        PROVE  HandFits'
    <2>1. \A d \in Conns : d # c => Fit(d)'
      BY <1>0, <1>1, <1>9 DEF ReadEnvelope, Goto, ConnTypes, FlowTypes
    <2>2. hand'[c] = <<e>> /\ pc'[c] = "reading"
      BY <1>0, <1>9 DEF ReadEnvelope, Goto, ConnTypes, FlowTypes
    <2>3. Len(hand'[c]) = 1 /\ hand'[c][1] = e
      BY <2>2
    <2>4. e.from = c
      BY DEF ClientEnvelope
    <2>5. Fit(c)'
      BY <2>2, <2>3, <2>4 DEF Running
    <2> QED
      BY <2>1, <2>5 DEF HandFits
  <1>10. ASSUME NEW c \in Conns, Forward(c) PROVE HandFits'
    <2> PICK d : d = slot[Peer(seat[c])]
      OBVIOUS
    <2>1. d \in Conns /\ d # c /\ pc[d] \in Receiving
      BY <1>10, ForwardStreams
    <2>2. /\ pc' = [pc EXCEPT ![c] = "forwarding"]
          /\ hand' = [hand EXCEPT ![c] = <<>>]
          /\ got' = got
          /\ \A b \in Conns : b # d => channel'[b] = channel[b]
      BY <1>0, <1>10 DEF Forward, Goto, FlowTypes
    <2>3. \A b \in Conns : b # c /\ b # d => Fit(b)'
      BY <1>0, <1>1, <2>2 DEF ConnTypes, FlowTypes
    <2>4. hand'[c] = <<>> /\ pc'[c] = "forwarding"
      BY <1>0, <2>2 DEF ConnTypes, FlowTypes
    <2>5. Len(hand'[c]) = 0
      BY <2>4
    <2>6. Fit(c)'
      BY <2>4, <2>5 DEF Running
    <2>7. pc'[d] = pc[d] /\ hand'[d] = hand[d] /\ Running(d)'
      BY <1>0, <2>1, <2>2 DEF ConnTypes, FlowTypes, Running, Receiving
    <2>8. Fit(d)'
      BY <1>0, <2>1, <2>7 DEF HandFits
    <2> QED
      BY <2>3, <2>6, <2>8 DEF HandFits
  <1>11. ASSUME FinishRevoke PROVE HandFits'
    BY <1>0, <1>11 DEF FinishRevoke, HandFits, Running
  <1>12. ASSUME NEW file, Lost(file) PROVE HandFits'
    BY <1>12, EmptySeq DEF Lost, HandFits
  <1>13. \/ \E c \in Conns : End(c)
         \/ \E c \in Conns : Leave(c) /\ got' = got
         \/ ~ \E c \in Conns : \/ HandshakeEnds(c) \/ Disconnect(c) \/ SeeCancelled(c)
                               \/ ClientFails(c) \/ ForwardRefused(c) \/ ForwardCloses(c)
    BY DEF HandshakeEnds, SeeCancelled, ClientFails, ForwardRefused, ForwardCloses, Disconnect
  <1> QED
    BY <1>2, <1>3, <1>4, <1>5, <1>6, <1>7, <1>8, <1>9, <1>10, <1>11, <1>12, <1>13, QuietCases

LEMMA NoneFromGreetingStep ==
  RelayInv /\ [Next]_vars => NoneFromGreeting'
PROOF
  <1> SUFFICES ASSUME RelayInv, [Next]_vars,
                      NEW c \in Conns, pc'[c] \in Greeting,
                      NEW d \in Conns, NEW i \in 1 .. Len(Stream(d)')
               PROVE  Stream(d)'[i].from # c
    BY DEF NoneFromGreeting
  <1>0. FlowTypes /\ ConnTypes /\ HandFits /\ NoneFromGreeting
    BY TypeParts, HandParts DEF RelayInv
  <1>1. Stream(d) \in Seq(Envelope) /\ Len(Stream(d)) \in Nat
    BY <1>0, StreamTypes, LenProperties
  <1>2. pc[c] \in Greeting \/ \E a \in Sources : Accept(c, a)
    <2>1. CASE Quiet
      BY <2>1 DEF Quiet
    <2>2. ASSUME NEW b \in Conns, NEW a \in Sources, Accept(b, a)
          PROVE  pc[c] \in Greeting \/ Accept(c, a)
      BY <1>0, <2>2 DEF Accept, Goto, ConnTypes
    <2>3. ASSUME NEW b \in Conns, NEW place, place \notin Greeting, Goto(b, place)
          PROVE  pc[c] \in Greeting
      BY <1>0, <2>3 DEF Goto, ConnTypes
    <2>4. /\ "accepting" \notin Greeting /\ "absent" \notin Greeting /\ "leaving" \notin Greeting
          /\ "forwarding" \notin Greeting /\ "sending" \notin Greeting /\ "reading" \notin Greeting
      BY DEF Greeting
    <2>5. ASSUME NEW b \in Conns,
                 \/ \E ch \in challenges : Admit(b, ch)
                 \/ \E e \in ClientEnvelope(b) : ReadEnvelope(b, e)
                 \/ TakeOutgoing(b) \/ Deliver(b) \/ Forward(b)
          PROVE  pc[c] \in Greeting
      BY <2>3, <2>4, <2>5 DEF Admit, ReadEnvelope, TakeOutgoing, Deliver, Forward
    <2>6. ASSUME NEW b \in Conns,
                 \/ HandshakeEnds(b) \/ SeeCancelled(b) \/ ClientFails(b)
                 \/ ForwardRefused(b) \/ ForwardCloses(b) \/ Disconnect(b)
          PROVE  pc[c] \in Greeting
      BY <2>3, <2>4, <2>6 DEF HandshakeEnds, SeeCancelled, ClientFails, ForwardRefused,
           ForwardCloses, Disconnect, End, Leave
    <2>7. FinishRevoke => pc[c] \in Greeting
      BY DEF FinishRevoke
    <2>8. ASSUME NEW file, Lost(file) PROVE FALSE
      BY <2>4, <2>8 DEF Lost
    <2> QED
      BY <2>1, <2>2, <2>5, <2>6, <2>7, <2>8, QuietCases
  <1>3. ASSUME NEW j \in 1 .. Len(Stream(d)) PROVE Stream(d)[j].from # c
    <2>1. CASE pc[c] \in Greeting
      BY <1>0, <2>1 DEF NoneFromGreeting
    <2>2. CASE \E a \in Sources : Accept(c, a)
      <3>1. DOMAIN Stream(d) = 1 .. Len(Stream(d))
        BY <1>1, LenProperties
      <3> QED
        BY <2>2, <3>1 DEF Accept, Unnamed
    <2> QED
      BY <1>2, <2>1, <2>2
  <1>4. CASE ~ \E b \in Conns : Forward(b)
    <2>1. Len(Stream(d)') <= Len(Stream(d)) /\ Stream(d)'[i] = Stream(d)[i]
      BY <1>4, Shrinks
    <2>2. Len(Stream(d)') \in Nat
      BY <1>4, Shrinks
    <2>3. i \in 1 .. Len(Stream(d))
      BY <1>1, <2>1, <2>2
    <2> QED
      BY <1>3, <2>1, <2>3
  <1>5. ASSUME NEW b \in Conns, Forward(b) PROVE Stream(d)'[i].from # c
    <2>1. CASE d # slot[Peer(seat[b])]
      <3>1. Stream(d)' = Stream(d)
        BY <1>5, <2>1, ForwardStreams
      <3> QED
        BY <1>3, <3>1
    <2>2. CASE d = slot[Peer(seat[b])]
      <3> DEFINE e == hand[b][1]
      <3>1. e \in Envelope /\ Stream(d)' = Append(Stream(d), e)
        BY <1>5, <2>2, ForwardStreams
      <3>2. e.from = b /\ b # c
        <4>1. pc[b] = "reading" /\ pc'[b] = "forwarding"
          BY <1>0, <1>5 DEF Forward, Goto, ConnTypes
        <4> QED
          BY <1>0, <4>1 DEF HandFits, Greeting
      <3> HIDE DEF e
      <3>3. /\ Len(Stream(d)') = Len(Stream(d)) + 1
            /\ \A j \in 1 .. Len(Stream(d)) : Stream(d)'[j] = Stream(d)[j]
            /\ Stream(d)'[Len(Stream(d)) + 1] = e
        BY <1>1, <3>1, AppendProperties
      <3>4. i \in 1 .. Len(Stream(d)) \/ i = Len(Stream(d)) + 1
        BY <1>1, <3>3
      <3> QED
        BY <1>3, <3>2, <3>3, <3>4
    <2> QED
      BY <2>1, <2>2
  <1> QED
    BY <1>4, <1>5

(* One receiver's share of StreamInv.                                      *)
Paired(c, p) ==
  /\ Len(Stream(c)) = IF slot[p] = None THEN 0 ELSE next[p]
  /\ \A i \in 1 .. Len(Stream(c)) : Stream(c)[i].from = slot[p]

LEMMA StreamParts ==
  /\ StreamInv <=>
       \A c \in Conns : pc[c] \in Receiving /\ Occupies(c) => Paired(c, Peer(seat[c]))
  /\ StreamInv' <=>
       \A c \in Conns : (pc[c] \in Receiving /\ Occupies(c))' => Paired(c, Peer(seat[c]))'
PROOF
  BY DEF StreamInv, Paired

(* A receiver whose stream, seat and peer's seat stay as they were.        *)
LEMMA PairedKept ==
  ASSUME StreamInv, NEW d \in Conns, pc[d] \in Receiving, Occupies(d),
         Stream(d)' = Stream(d), seat'[d] = seat[d],
         slot'[Peer(seat[d])] = slot[Peer(seat[d])],
         next'[Peer(seat[d])] = next[Peer(seat[d])]
  PROVE  Paired(d, Peer(seat[d]))'
PROOF
  <1>1. Paired(d, Peer(seat[d]))
    BY StreamParts
  <1>2. Peer(seat[d])' = Peer(seat[d])
    BY DEF Peer, PeerRole
  <1> QED
    BY <1>1, <1>2 DEF Paired

(* cancel_and_clear of a route leaves the receivers of other routes alone. *)
LEMMA PairedElsewhere ==
  ASSUME RelayInv, NEW r, ClearRoute(r), next' = next,
         NEW d \in Conns, pc[d] \in Receiving, Occupies(d)', seat'[d] = seat[d],
         Stream(d)' = Stream(d)
  PROVE  Paired(d, Peer(seat[d]))'
PROOF
  <1>0. ConnTypes /\ CoreTypes /\ StreamInv
    BY TypeParts DEF RelayInv
  <1>1. seat[d] \in Seats /\ slot'[seat[d]] = d /\ d # None
    BY <1>0, RelayAssumption DEF Occupies, ConnTypes
  <1>2. \A s \in Seats : slot'[s] = IF s.route = r THEN None ELSE slot[s]
    BY DEF ClearRoute
  <1>3. Peer(seat[d]) \in Seats /\ Peer(seat[d]).route = seat[d].route
    BY <1>1, PeerSeat
  <1>4. seat[d].route # r /\ slot[seat[d]] = d
    BY <1>1, <1>2
  <1>5. slot'[Peer(seat[d])] = slot[Peer(seat[d])]
    BY <1>2, <1>3, <1>4
  <1>6. Occupies(d)
    BY <1>1, <1>4, PeerSeat DEF Occupies
  <1> QED
    BY <1>0, <1>5, <1>6, PairedKept

LEMMA StreamInvStep ==
  RelayInv /\ [Next]_vars => StreamInv'
PROOF
  <1> SUFFICES ASSUME RelayInv, [Next]_vars PROVE StreamInv'
    OBVIOUS
  <1>0. FlowTypes /\ ConnTypes /\ CoreTypes /\ SeatInv /\ StreamInv
    BY TypeParts DEF RelayInv
  <1>1. ASSUME slot' = slot, next' = next,
               \A d \in Conns : pc'[d] \in Receiving =>
                 pc[d] \in Receiving /\ seat'[d] = seat[d] /\ Stream(d)' = Stream(d)
        PROVE  StreamInv'
    <2> SUFFICES ASSUME NEW d \in Conns, pc'[d] \in Receiving, Occupies(d)'
                 PROVE  Paired(d, Peer(seat[d]))'
      BY StreamParts
    <2>1. pc[d] \in Receiving /\ Occupies(d) /\ seat'[d] = seat[d] /\ Stream(d)' = Stream(d)
      BY <1>1 DEF Occupies
    <2> QED
      BY <1>0, <1>1, <2>1, PairedKept
  <1>2. ASSUME NEW r, ClearRoute(r), next' = next,
               \A d \in Conns : pc'[d] \in Receiving =>
                 pc[d] \in Receiving /\ seat'[d] = seat[d] /\ Stream(d)' = Stream(d)
        PROVE  StreamInv'
    <2> SUFFICES ASSUME NEW d \in Conns, pc'[d] \in Receiving, Occupies(d)'
                 PROVE  Paired(d, Peer(seat[d]))'
      BY StreamParts
    <2> QED
      BY <1>2, PairedElsewhere
  <1>3. CASE Quiet
    BY <1>1, <1>3, QuietKeeps DEF Quiet
  <1>4. ASSUME NEW c \in Conns, NEW a \in Sources, Accept(c, a) PROVE StreamInv'
    <2>1. slot' = slot /\ next' = next /\ seat' = seat
      BY <1>4 DEF Accept, coreVars
    <2>2. \A d \in Conns : pc'[d] \in Receiving => pc[d] \in Receiving
      BY <1>0, <1>4 DEF Accept, Goto, Receiving, ConnTypes
    <2> QED
      BY <1>1, <1>4, <2>1, <2>2, AcceptKeeps
  <1>5. ASSUME NEW c \in Conns, NEW ch \in challenges, Admit(c, ch) PROVE StreamInv'
    <2> DEFINE s == ch.seat
               p == Peer(s)
    <2>1. s \in Seats
      BY <1>0 DEF CoreTypes, Challenge
    <2>2. p \in Seats /\ p # s /\ Peer(p) = s /\ p.route = s.route
      BY <2>1, PeerSeat
    <2>3. slot[s] = None /\ slot' = [slot EXCEPT ![s] = c] /\ seat' = [seat EXCEPT ![c] = s]
      BY <1>5 DEF Admit
    <2>4. next' = IF slot[p] = None THEN next
                  ELSE [q \in Seats |-> IF q.route = s.route THEN 0 ELSE next[q]]
      BY <1>5 DEF Admit
    <2>5. (\A d \in Conns : Stream(d)' = Stream(d)) /\ Stream(c) = <<>>
      BY <1>5, AdmitKeeps
    <2>6. \A d \in Conns : d # c /\ pc'[d] \in Receiving => pc[d] \in Receiving
      BY <1>0, <1>5 DEF Admit, Goto, ConnTypes
    <2> HIDE DEF s, p
    <2>7. slot'[s] = c /\ slot'[p] = slot[p] /\ c # None
      BY <1>0, <2>1, <2>2, <2>3, RelayAssumption DEF CoreTypes
    <2>8. slot[p] # None => next'[p] = 0 /\ next'[s] = 0
      BY <2>1, <2>2, <2>4
    <2> SUFFICES ASSUME NEW d \in Conns, pc'[d] \in Receiving, Occupies(d)'
                 PROVE  Paired(d, Peer(seat[d]))'
      BY StreamParts
    <2>9. CASE d = c
      <3>1. seat'[d] = s
        BY <1>0, <2>3, <2>9 DEF ConnTypes
      <3>2. Peer(seat[d])' = p
        BY <3>1 DEF Peer, PeerRole, p
      <3>3. Stream(d)' = <<>> /\ Len(Stream(d)') = 0
        BY <2>5, <2>9, EmptySeq
      <3> QED
        BY <2>7, <2>8, <3>2, <3>3 DEF Paired
    <2>10. CASE d # c
      <3>1. pc[d] \in Receiving /\ seat'[d] = seat[d] /\ Stream(d)' = Stream(d)
        BY <1>0, <2>3, <2>5, <2>6, <2>10 DEF ConnTypes
      <3>2. seat[d] \in Seats /\ slot'[seat[d]] = d /\ d # None
        BY <1>0, <3>1, RelayAssumption DEF Occupies, ConnTypes
      <3>3. seat[d] # s /\ slot[seat[d]] = d
        BY <1>0, <2>1, <2>3, <2>7, <2>10, <3>2 DEF CoreTypes
      <3>4. Occupies(d)
        BY <3>2, <3>3, PeerSeat DEF Occupies
      <3>5. Paired(d, Peer(seat[d]))
        BY <1>0, <3>1, <3>4, StreamParts
      <3>6. Peer(seat[d])' = Peer(seat[d])
        BY <3>1 DEF Peer, PeerRole
      <3>7. CASE seat[d] = p
        <4>1. Peer(seat[d]) = s /\ slot[p] # None
          BY <2>2, <3>2, <3>3, <3>7
        <4>2. Len(Stream(d)) = 0
          BY <2>3, <3>5, <4>1 DEF Paired
        <4>3. Len(Stream(d)') = 0 /\ next'[s] = 0
          BY <2>8, <3>1, <4>1, <4>2
        <4> QED
          BY <2>7, <3>6, <4>1, <4>3 DEF Paired
      <3>8. CASE seat[d] # p
        <4>1. seat[d].route # s.route
          BY <2>1, <3>2, <3>3, <3>8, PeerSeat DEF p
        <4>2. Peer(seat[d]) \in Seats /\ Peer(seat[d]).route # s.route
          BY <3>2, <4>1, PeerSeat
        <4>3. /\ slot'[Peer(seat[d])] = slot[Peer(seat[d])]
              /\ next'[Peer(seat[d])] = next[Peer(seat[d])]
          BY <1>0, <2>1, <2>3, <2>4, <4>2 DEF CoreTypes
        <4> QED
          BY <1>0, <3>1, <3>4, <4>3, PairedKept
      <3> QED
        BY <3>7, <3>8
    <2> QED
      BY <2>9, <2>10
  <1>6. ASSUME NEW c \in Conns, End(c) PROVE
           \A d \in Conns : pc'[d] \in Receiving =>
             pc[d] \in Receiving /\ seat'[d] = seat[d] /\ Stream(d)' = Stream(d)
    <2>1. \A d \in Conns : d # c => Stream(d)' = Stream(d)
      BY <1>6, EndStreams
    <2>2. \A d \in Conns : d # c => pc'[d] = pc[d] /\ seat'[d] = seat[d]
      BY <1>0, <1>6 DEF End, Goto, ConnTypes
    <2>3. pc'[c] \notin Receiving
      BY <1>0, <1>6 DEF End, Goto, ConnTypes, Receiving
    <2> QED
      BY <2>1, <2>2, <2>3
  <1>7. ASSUME NEW c \in Conns, Leave(c), got' = got, seat' = seat PROVE
           \A d \in Conns : pc'[d] \in Receiving =>
             pc[d] \in Receiving /\ seat'[d] = seat[d] /\ Stream(d)' = Stream(d)
    <2>1. \A d \in Conns : d # c => Stream(d)' = Stream(d)
      BY <1>7, LeaveStreams
    <2>2. \A d \in Conns : d # c => pc'[d] = pc[d]
      BY <1>0, <1>7 DEF Leave, Goto, ConnTypes
    <2>3. pc'[c] \notin Receiving
      BY <1>0, <1>7 DEF Leave, Goto, ConnTypes, Receiving
    <2> QED
      BY <1>7, <2>1, <2>2, <2>3
  <1>8. ASSUME NEW c \in Conns, HandshakeEnds(c) PROVE StreamInv'
    <2>1. slot' = slot /\ next' = next /\ End(c)
      BY <1>8 DEF HandshakeEnds, coreVars
    <2> QED
      BY <1>1, <1>6, <2>1
  <1>9. ASSUME NEW c \in Conns, SeeCancelled(c) \/ ClientFails(c) \/ ForwardRefused(c)
        PROVE  StreamInv'
    <2>1. slot' = slot /\ next' = next /\ Leave(c) /\ got' = got /\ seat' = seat
      BY <1>9 DEF SeeCancelled, ClientFails, ForwardRefused, coreVars, seatVars
    <2> QED
      BY <1>1, <1>7, <2>1
  <1>10. ASSUME NEW c \in Conns, ForwardCloses(c) PROVE StreamInv'
    <2>1. /\ ClearRoute(seat[c].route) /\ next' = next
          /\ Leave(c) /\ got' = got /\ seat' = seat
      BY <1>10 DEF ForwardCloses, seatVars
    <2> QED
      BY <1>2, <1>7, <2>1
  <1>11. ASSUME NEW c \in Conns, Disconnect(c) PROVE StreamInv'
    <2>1. /\ next' = next /\ End(c)
          /\ slot' = slot \/ ClearRoute(seat[c].route)
      BY <1>11 DEF Disconnect
    <2> QED
      BY <1>1, <1>2, <1>6, <2>1
  <1>12. ASSUME NEW c \in Conns, TakeOutgoing(c) PROVE StreamInv'
    <2>1. slot' = slot /\ next' = next /\ seat' = seat
      BY <1>12 DEF TakeOutgoing, coreVars, seatVars
    <2>2. \A d \in Conns : pc'[d] \in Receiving => pc[d] \in Receiving
      BY <1>0, <1>12 DEF TakeOutgoing, Goto, Receiving, ConnTypes
    <2> QED
      BY <1>1, <1>12, <2>1, <2>2, TakeKeeps
  <1>13. ASSUME NEW c \in Conns, Deliver(c) PROVE StreamInv'
    <2>1. slot' = slot /\ next' = next /\ seat' = seat
      BY <1>13 DEF Deliver, coreVars, seatVars
    <2>2. \A d \in Conns : pc'[d] \in Receiving => pc[d] \in Receiving
      BY <1>0, <1>13 DEF Deliver, Goto, Receiving, ConnTypes
    <2> QED
      BY <1>1, <1>13, <2>1, <2>2, DeliverKeeps
  <1>14. ASSUME NEW c \in Conns, NEW e \in ClientEnvelope(c), ReadEnvelope(c, e)
         PROVE  StreamInv'
    <2>1. slot' = slot /\ next' = next /\ seat' = seat
      BY <1>14 DEF ReadEnvelope, coreVars, seatVars
    <2>2. \A d \in Conns : pc'[d] \in Receiving => pc[d] \in Receiving
      BY <1>0, <1>14 DEF ReadEnvelope, Goto, Receiving, ConnTypes
    <2> QED
      BY <1>1, <1>14, <2>1, <2>2, ReadKeeps
  <1>15. ASSUME NEW c \in Conns, Forward(c) PROVE StreamInv'
    <2> PICK d : d = slot[Peer(seat[c])]
      OBVIOUS
    <2>1. d \in Conns /\ d # c /\ pc[d] \in Receiving /\ Occupies(d)
      BY <1>15, ForwardStreams
    <2>2. seat[c] \in Seats /\ seat[d] = Peer(seat[c]) /\ seat[c] = Peer(seat[d])
      BY <1>15, ForwardStreams
    <2>3. \A b \in Conns : b # d => Stream(b)' = Stream(b)
      BY <1>15, ForwardStreams
    <2>4. Stream(d)' = Append(Stream(d), hand[c][1]) /\ hand[c][1] \in Envelope
      BY <1>15, ForwardStreams
    <2>5. slot' = slot /\ seat' = seat /\ next' = [next EXCEPT ![seat[c]] = @ + 1]
      BY <1>15 DEF Forward, seatVars
    <2>6. slot[seat[c]] = c /\ c # None /\ next'[seat[c]] = next[seat[c]] + 1
      BY <1>0, <1>15, <2>2, <2>5, RelayAssumption DEF Forward, ValidEndpoint, CoreTypes
    <2>7. \A b \in Conns : pc'[b] \in Receiving => pc[b] \in Receiving
      BY <1>0, <1>15 DEF Forward, Goto, Receiving, ConnTypes
    <2> SUFFICES ASSUME NEW b \in Conns, pc'[b] \in Receiving, Occupies(b)'
                 PROVE  Paired(b, Peer(seat[b]))'
      BY StreamParts
    <2>8. pc[b] \in Receiving /\ Occupies(b) /\ seat[b] \in Seats /\ slot[seat[b]] = b
      BY <1>0, <2>5, <2>7 DEF Occupies, ConnTypes
    <2>9. CASE b = d
      <3>1. Paired(d, seat[c])
        BY <1>0, <2>1, <2>2, StreamParts
      <3>2. Len(Stream(d)) = next[seat[c]] /\ \A i \in 1 .. Len(Stream(d)) : Stream(d)[i].from = c
        BY <2>6, <3>1 DEF Paired
      <3>3. Stream(d) \in Seq(Envelope) /\ Len(Stream(d)) \in Nat
        BY <1>0, <2>1, StreamTypes, LenProperties
      <3>4. hand[c][1].from = c
        BY <1>15 DEF RelayInv, HandInv, Forward
      <3>5. /\ Len(Stream(d)') = Len(Stream(d)) + 1
            /\ \A i \in 1 .. Len(Stream(d)) : Stream(d)'[i] = Stream(d)[i]
            /\ Stream(d)'[Len(Stream(d)) + 1] = hand[c][1]
        <4> DEFINE e == hand[c][1]
        <4>1. e \in Envelope /\ Stream(d)' = Append(Stream(d), e)
          BY <2>4
        <4> HIDE DEF e
        <4>2. /\ Len(Stream(d)') = Len(Stream(d)) + 1
              /\ \A i \in 1 .. Len(Stream(d)) : Stream(d)'[i] = Stream(d)[i]
              /\ Stream(d)'[Len(Stream(d)) + 1] = e
          BY <3>3, <4>1, AppendProperties
        <4> QED
          BY <4>2 DEF e
      <3>6. ASSUME NEW i \in 1 .. Len(Stream(d)') PROVE Stream(d)'[i].from = c
        <4>1. i \in 1 .. Len(Stream(d)) \/ i = Len(Stream(d)) + 1
          BY <3>3, <3>5
        <4> QED
          BY <3>2, <3>4, <3>5, <4>1
      <3>7. Peer(seat[b])' = seat[c]
        BY <2>2, <2>5, <2>9 DEF Peer, PeerRole
      <3>8. Len(Stream(d)') = next'[seat[c]]
        BY <2>6, <3>2, <3>5
      <3> QED
        BY <2>5, <2>6, <2>9, <3>6, <3>7, <3>8 DEF Paired
    <2>10. CASE b # d
      <3>1. Peer(seat[b]) # seat[c]
        <4>1. Peer(seat[b]) = seat[c] => seat[b] = Peer(seat[c])
          BY <2>8, PeerSeat
        <4> QED
          BY <2>8, <2>10, <4>1
      <3>2. Peer(seat[b]) \in Seats
        BY <2>8, PeerSeat
      <3>3. next'[Peer(seat[b])] = next[Peer(seat[b])]
        BY <1>0, <2>5, <3>1, <3>2 DEF CoreTypes
      <3> QED
        BY <1>0, <2>3, <2>5, <2>8, <2>10, <3>3, PairedKept
    <2> QED
      BY <2>9, <2>10
  <1>16. ASSUME FinishRevoke PROVE StreamInv'
    <2>1. ClearRoute(admin.route) /\ next' = next /\ seat' = seat /\ pc' = pc
      BY <1>16 DEF FinishRevoke, seatVars
    <2> QED
      BY <1>2, <1>16, <2>1, RevokeKeeps
  <1>17. ASSUME NEW file, Lost(file) PROVE StreamInv'
    BY <1>17 DEF Lost, StreamInv, Receiving
  <1> QED
    BY <1>3, <1>4, <1>5, <1>8, <1>9, <1>10, <1>11, <1>12, <1>13, <1>14, <1>15, <1>16,
       <1>17, QuietCases

(* A client that has an envelope and the connection it comes from keep     *)
(* their seats, as long as that connection runs.                           *)
LEMMA SeatsStay ==
  ASSUME RelayInv, [Next]_vars, NEW d \in Conns, Stream(d)' # <<>>, Stream(d) # <<>>,
         NEW f \in Conns, Running(f)', pc[f] \notin Greeting
  PROVE  Running(f) /\ seat'[f] = seat[f] /\ seat'[d] = seat[d]
PROOF
  <1>0. ConnTypes
    BY TypeParts DEF RelayInv
  <1>1. CASE NobodyMoves
    BY <1>1 DEF NobodyMoves, SameTasks
  <1>2. ASSUME NEW c \in Conns, NEW a \in Sources, Accept(c, a)
        PROVE  Running(f) /\ seat' = seat
    BY <1>0, <1>2 DEF Accept, Goto, Running, ConnTypes
  <1>3. ASSUME NEW c \in Conns, NEW ch \in challenges, Admit(c, ch)
        PROVE  Running(f) /\ seat'[f] = seat[f] /\ seat'[d] = seat[d]
    <2>1. d # c
      BY <1>3, AdmitKeeps
    <2>2. f # c
      BY <1>3 DEF Admit, Greeting
    <2> QED
      BY <1>0, <1>3, <2>1, <2>2 DEF Admit, Goto, Running, ConnTypes
  <1>4. ASSUME NEW c \in Conns, End(c)
        PROVE  Running(f) /\ seat'[f] = seat[f] /\ seat'[d] = seat[d]
    <2>1. d # c
      BY <1>4, EndStreams
    <2>2. f # c
      BY <1>4, EndStreams DEF Running
    <2> QED
      BY <1>0, <1>4, <2>1, <2>2 DEF End, Goto, Running, ConnTypes
  <1>5. ASSUME NEW c \in Conns, ForwardCloses(c) PROVE Running(f) /\ seat' = seat
    BY <1>0, <1>5 DEF ForwardCloses, Leave, Goto, Running, ConnTypes, seatVars
  <1>6. ASSUME FinishRegister \/ FinishRevoke PROVE Running(f) /\ seat' = seat
    BY <1>6 DEF FinishRegister, FinishRevoke, Running, seatVars
  <1>7. ASSUME NEW file, Lost(file) PROVE FALSE
    BY <1>7, LostStreams
  <1> QED
    BY <1>1, <1>2, <1>3, <1>4, <1>5, <1>6, <1>7, MovesCases DEF HandshakeEnds, Disconnect

LEMMA OnePeerStep ==
  RelayInv /\ [Next]_vars => OnePeerInOrder'
PROOF
  <1> SUFFICES ASSUME RelayInv, [Next]_vars, NEW d \in Conns,
                      NEW i \in 1 .. Len(Stream(d)')
               PROVE  /\ Stream(d)'[i].sequence = i - 1
                      /\ Stream(d)'[i].from = Stream(d)'[1].from
                      /\ Running(Stream(d)[i].from)' =>
                           seat'[Stream(d)'[i].from] = Peer(seat'[d])
    BY DEF OnePeerInOrder, Peer, PeerRole
  <1>0. FlowTypes /\ ConnTypes /\ HandFits /\ NoneFromGreeting /\ OnePeerInOrder
    BY TypeParts, HandParts DEF RelayInv
  <1>1. Stream(d) \in Seq(Envelope) /\ Len(Stream(d)) \in Nat
    BY <1>0, StreamTypes, LenProperties
  <1>2. ASSUME NEW j \in 1 .. Len(Stream(d))
        PROVE  /\ Stream(d)[j].sequence = j - 1
               /\ Stream(d)[j].from = Stream(d)[1].from
               /\ Stream(d)[j].from \in Conns
               /\ pc[Stream(d)[j].from] \notin Greeting
               /\ Running(Stream(d)[j].from) => seat[Stream(d)[j].from] = Peer(seat[d])
    <2>1. Stream(d)[j] \in Envelope
      BY <1>1, ElementOfSeq
    <2>2. Stream(d)[j].from \in Conns
      BY <2>1 DEF Envelope
    <2>3. pc[Stream(d)[j].from] \notin Greeting
      BY <1>0, <2>2 DEF NoneFromGreeting
    <2> QED
      BY <1>0, <2>2, <2>3 DEF OnePeerInOrder
  <1>3. ASSUME NEW f \in Conns, f = Stream(d)'[i].from, f = Stream(d)[1].from,
               1 \in 1 .. Len(Stream(d)), Stream(d)' # <<>>, Stream(d) # <<>>
        PROVE  Running(Stream(d)[i].from)' => seat'[Stream(d)'[i].from] = Peer(seat'[d])
    <2>1. Running(Stream(d)[i].from)' <=> Running(f)'
      BY <1>3 DEF Running
    <2>2. pc[f] \notin Greeting /\ (Running(f) => seat[f] = Peer(seat[d]))
      BY <1>2, <1>3
    <2>3. Running(f)' => Running(f) /\ seat'[f] = seat[f] /\ seat'[d] = seat[d]
      BY <1>3, <2>2, SeatsStay
    <2> QED
      BY <1>3, <2>1, <2>2, <2>3
  <1>4. ASSUME i \in 1 .. Len(Stream(d)), Stream(d)'[i] = Stream(d)[i],
               Stream(d)'[1] = Stream(d)[1], Stream(d)' # <<>>
        PROVE  /\ Stream(d)'[i].sequence = i - 1
               /\ Stream(d)'[i].from = Stream(d)'[1].from
               /\ Running(Stream(d)[i].from)' =>
                    seat'[Stream(d)'[i].from] = Peer(seat'[d])
    <2>1. 1 \in 1 .. Len(Stream(d)) /\ Stream(d) # <<>>
      BY <1>1, <1>4
    <2>2. PICK f \in Conns : f = Stream(d)[i].from
      BY <1>2, <1>4
    <2>3. f = Stream(d)'[i].from /\ f = Stream(d)[1].from
      BY <1>2, <1>4, <2>2
    <2> QED
      BY <1>2, <1>3, <1>4, <2>1, <2>3
  <1>5. CASE ~ \E b \in Conns : Forward(b)
    <2>1. /\ Len(Stream(d)') \in Nat /\ Len(Stream(d)') <= Len(Stream(d))
          /\ \A j \in 1 .. Len(Stream(d)') : Stream(d)'[j] = Stream(d)[j]
      BY <1>5, Shrinks
    <2>2. i \in 1 .. Len(Stream(d)) /\ 1 \in 1 .. Len(Stream(d)')
      BY <1>1, <2>1
    <2>3. Stream(d)' # <<>>
      BY <2>1, <2>2, EmptySeq
    <2> QED
      BY <1>4, <2>1, <2>2, <2>3
  <1>6. ASSUME NEW c \in Conns, Forward(c)
        PROVE  /\ Stream(d)'[i].sequence = i - 1
               /\ Stream(d)'[i].from = Stream(d)'[1].from
               /\ Running(Stream(d)[i].from)' =>
                    seat'[Stream(d)'[i].from] = Peer(seat'[d])
    <2>1. CASE d # slot[Peer(seat[c])]
      <3>1. Stream(d)' = Stream(d)
        BY <1>6, <2>1, ForwardStreams
      <3>2. Stream(d)' # <<>>
        BY <1>1, <3>1, EmptySeq
      <3> QED
        BY <1>4, <3>1, <3>2
    <2>2. CASE d = slot[Peer(seat[c])]
      <3>1. /\ pc[d] \in Receiving /\ Occupies(d)
            /\ seat[c] \in Seats /\ seat[d] = Peer(seat[c]) /\ seat[c] = Peer(seat[d])
        BY <1>6, <2>2, ForwardStreams
      <3>2. PICK e : e = hand[c][1]
        OBVIOUS
      <3>3. e \in Envelope /\ Stream(d)' = Append(Stream(d), e)
        BY <1>6, <2>2, <3>2, ForwardStreams
      <3>4. /\ Len(Stream(d)') = Len(Stream(d)) + 1
            /\ \A j \in 1 .. Len(Stream(d)) : Stream(d)'[j] = Stream(d)[j]
            /\ Stream(d)'[Len(Stream(d)) + 1] = e
            /\ Stream(d)' # <<>>
        BY <1>1, <3>3, AppendProperties
      <3>5. e.from = c /\ e.sequence = next[seat[c]] /\ slot[seat[c]] = c /\ c # None
        BY <1>0, <1>6, <3>2, RelayAssumption DEF Forward, Fits, ValidEndpoint, HandFits
      <3>6. /\ Len(Stream(d)) = next[seat[c]]
            /\ \A j \in 1 .. Len(Stream(d)) : Stream(d)[j].from = c
        <4>1. Paired(d, seat[c])
          BY <3>1, StreamParts DEF RelayInv
        <4> QED
          BY <3>5, <4>1 DEF Paired
      <3>7. CASE i \in 1 .. Len(Stream(d))
        BY <1>1, <1>4, <3>4, <3>7
      <3>8. CASE i = Len(Stream(d)) + 1
        <4>1. Stream(d)'[i] = e /\ Stream(d)'[i].sequence = i - 1
          BY <1>1, <3>4, <3>5, <3>6, <3>8
        <4>2. Stream(d)'[1].from = c
          <5>1. CASE Len(Stream(d)) = 0
            BY <3>4, <3>5, <5>1
          <5>2. CASE Len(Stream(d)) # 0
            <6>1. 1 \in 1 .. Len(Stream(d))
              BY <1>1, <5>2
            <6> QED
              BY <3>4, <3>6, <6>1
          <5> QED
            BY <5>1, <5>2
        <4>3. seat' = seat
          BY <1>6 DEF Forward, seatVars
        <4> QED
          BY <3>1, <3>5, <4>1, <4>2, <4>3
      <3> QED
        BY <1>1, <3>4, <3>7, <3>8
    <2> QED
      BY <2>1, <2>2
  <1> QED
    BY <1>5, <1>6

-----------------------------------------------------------------------------
LEMMA RelayInvInit ==
  Init => RelayInv
PROOF
  <1> SUFFICES ASSUME Init PROVE RelayInv
    OBVIOUS
  <1>1. StoreTypes
    <2>1. Unknown \in Registration /\ Fresh \in Registration
      BY DEF Unknown, Fresh, Registration
    <2>2. path \in [Routes -> Registration]
      BY <2>1 DEF Init
    <2> QED
      BY <2>2 DEF Init, StoreTypes
  <1>2. CoreTypes
    <2>1. 0 \in 0 .. MaxFailures
      BY RelayAssumption
    <2> QED
      BY <2>1 DEF Init, CoreTypes
  <1>3. ConnTypes
    BY DEF Init, ConnTypes, Places
  <1>4. FlowTypes
    BY DEF Init, FlowTypes, Nothing
  <1>5. StoreInv
    <2>1. \A r \in Routes : ~path[r].revoked
      BY DEF Init, Unknown, Fresh
    <2> QED
      BY <2>1 DEF Init, StoreInv
  <1>6. SeatInv /\ EvictedIsCancelled
    BY DEF Init, SeatInv, EvictedIsCancelled, Running
  <1>7. ASSUME NEW c \in Conns PROVE Stream(c) = <<>> /\ Len(Stream(c)) = 0
    <2>1. Stream(c) = <<>> \o <<>> \o <<>>
      BY DEF Init, Stream, InHand
    <2> QED
      BY <2>1, ConcatEmptySeq, EmptySeq
  <1>8. HandFits
    BY EmptySeq DEF Init, HandFits
  <1>9. NoneFromGreeting
    BY DEF Init, NoneFromGreeting, Greeting
  <1>10. StreamInv
    BY DEF Init, StreamInv, Receiving
  <1>11. OnePeerInOrder
    BY <1>7 DEF OnePeerInOrder
  <1> QED
    BY <1>1, <1>2, <1>3, <1>4, <1>5, <1>6, <1>8, <1>9, <1>10, <1>11, TypeParts, HandParts
       DEF RelayInv

LEMMA RelayInvStep ==
  RelayInv /\ [Next]_vars => RelayInv'
PROOF
  BY StoreTypesStep, CoreTypesStep, ConnTypesStep, FlowTypesStep, TypeParts, StoreInvStep,
     SeatInvStep, HandFitsStep, NoneFromGreetingStep, HandParts, StreamInvStep, OnePeerStep
     DEF RelayInv

(* RelayInv holds in every state of the relay: the registrations, seats,   *)
(* tasks, hands and streams fit together at every step of core.rs and      *)
(* server.rs.                                                              *)
THEOREM RelayInvariant == Spec => []RelayInv
PROOF
  BY RelayInvInit, RelayInvStep, PTL DEF Spec

(* A task whose endpoint lost its seat (cancel_and_clear) has a cancelled  *)
(* token: none goes on as an endpoint of a route that does not know it.    *)
THEOREM EvictedCancelled == Spec => []EvictedIsCancelled
PROOF
  <1>1. RelayInv => EvictedIsCancelled
    BY DEF RelayInv
  <1> QED
    BY <1>1, RelayInvariant, PTL

(* A client is sent its one peer's envelopes, each once, in order and      *)
(* without a gap: what forward's checks of seat and sequence, and the      *)
(* reset of the sequences in admit, are for.                               *)
THEOREM PeerStream == Spec => []OnePeerInOrder
PROOF
  <1>1. RelayInv => OnePeerInOrder
    BY DEF RelayInv
  <1> QED
    BY <1>1, RelayInvariant, PTL

(* Once revoke_route returned Ok, no crash, restart or later commit brings *)
(* the route back, nor a power cut where sync_parent's sync is made.       *)
THEOREM RevocationHolds == Spec => []RevokedForGood
PROOF
  <1>1. RelayInv => RevokedForGood
    <2> SUFFICES ASSUME RelayInv, NEW r \in acked
                 PROVE  /\ regs[r].revoked /\ path[r].revoked
                        /\ syncs => \A file \in durable : file[r].revoked
                        /\ \A s \in SeatsOf(r) : slot[s] = None
                        /\ \A ch \in challenges : ch.seat.route # r
                        /\ \A c \in Conns : Running(c) /\ seat[c].route = r => Cancelled(c)
      BY DEF RevokedForGood
    <2>1. /\ regs[r].revoked /\ path[r].revoked
          /\ syncs => \A file \in durable : file[r].revoked
      BY DEF RelayInv, StoreInv
    <2>2. \A s \in Seats : s.route = r => slot[s] = None
      BY <2>1 DEF RelayInv, SeatInv
    <2>3. \A ch \in challenges : ch.seat.route # r
      BY DEF RelayInv, StoreInv
    <2>4. ASSUME NEW c \in Conns, Running(c), seat[c].route = r PROVE Cancelled(c)
      <3>1. seat[c] \in Seats
        BY <2>4, TaskFacts
      <3>2. slot[seat[c]] # c
        BY <2>2, <2>4, <3>1, RelayAssumption
      <3> QED
        BY <2>4, <3>2 DEF RelayInv, EvictedIsCancelled, Occupies
    <2> QED
      BY <2>1, <2>2, <2>3, <2>4 DEF SeatsOf
  <1> QED
    BY <1>1, RelayInvariant, PTL

(* An endpoint is evicted only because one of its route's endpoints ends,  *)
(* its route is revoked or the server ends: the comparison of the          *)
(* connection in disconnect and validate_endpoint keeps the late steps of  *)
(* a connection that was replaced from closing its successor.              *)
THEOREM EvictionHasCause == Spec => EvictedForCause
PROOF
  <1> DEFINE Cause == \A s \in Seats :
        slot[s] # None /\ slot'[s] # slot[s] =>
          \/ server' = "down"
          \/ regs'[s.route].revoked
          \/ \E q \in SeatsOf(s.route) :
               slot[q] # None /\ pc'[slot[q]] \in {"leaving", "absent"}
  <1>1. ASSUME RelayInv, [Next]_vars PROVE Cause \/ UNCHANGED vars
    <2>0. ConnTypes /\ CoreTypes
      BY <1>1, TypeParts DEF RelayInv
    <2>1. CASE slot' = slot
      BY <2>1
    <2>2. ASSUME NEW c \in Conns, NEW ch \in challenges, Admit(c, ch) PROVE Cause
      BY <2>0, <2>2 DEF Admit, CoreTypes
    <2>3. ASSUME NEW c \in Conns, seat[c] \in Seats, slot[seat[c]] = c,
                 ClearRoute(seat[c].route), pc'[c] \in {"leaving", "absent"}
          PROVE  Cause
      <3>1. c # None /\ \A s \in Seats : s.route # seat[c].route => slot'[s] = slot[s]
        BY <2>3, RelayAssumption DEF ClearRoute
      <3> QED
        BY <2>3, <3>1 DEF SeatsOf
    <2>4. ASSUME NEW c \in Conns, ForwardCloses(c) PROVE Cause
      <3>1. seat[c] \in Seats
        BY <1>1, <2>4, TaskFacts DEF ForwardCloses, Running
      <3>2. pc'[c] = "leaving" /\ slot[seat[c]] = c /\ ClearRoute(seat[c].route)
        BY <2>0, <2>4 DEF ForwardCloses, ValidEndpoint, Leave, Goto, ConnTypes
      <3> QED
        BY <2>3, <3>1, <3>2
    <2>5. ASSUME NEW c \in Conns, Disconnect(c), slot' # slot PROVE Cause
      <3>1. seat[c] \in Seats
        BY <1>1, <2>5, TaskFacts DEF Disconnect, Running
      <3>2. pc'[c] = "absent" /\ slot[seat[c]] = c /\ ClearRoute(seat[c].route)
        BY <2>0, <2>5 DEF Disconnect, End, Goto, ConnTypes
      <3> QED
        BY <2>3, <3>1, <3>2
    <2>6. ASSUME FinishRevoke PROVE Cause
      <3>1. admin # Idle /\ regs' = Committed /\ regs'[admin.route].revoked
        BY <1>1, <2>6, CommittedFacts DEF FinishRevoke, Locked
      <3>2. \A s \in Seats : s.route # admin.route => slot'[s] = slot[s]
        BY <2>6 DEF FinishRevoke, ClearRoute
      <3> QED
        BY <3>1, <3>2
    <2>7. ASSUME NEW file, Lost(file) PROVE Cause
      BY <2>7 DEF Lost
    <2> QED
      BY <1>1, <2>1, <2>2, <2>4, <2>5, <2>6, <2>7, MovesCases
         DEF NobodyMoves, Accept, HandshakeEnds, FinishRegister, coreVars
  <1>2. RelayInv /\ [Next]_vars => [Cause]_vars
    BY <1>1
  <1> QED
    BY <1>2, RelayInvariant, PTL DEF Spec, EvictedForCause

-----------------------------------------------------------------------------
(* The sizes of the first i envelopes, added up.                           *)
Sums(s, f) ==
  f = [i \in 0 .. Len(s) |-> IF i = 0 THEN 0 ELSE f[i - 1] + s[i].size]

Adds(s, f) == Sums(s, f) /\ \A i \in 0 .. Len(s) : f[i] \in Nat

LEMMA FirstCounterexample ==
  ASSUME NEW N \in SUBSET Nat, N # {}
  PROVE  \E n \in N : \A m \in N : n <= m
PROOF
  <1> DEFINE R == OpToRel(<, Nat)
  <1>1. IsWellFoundedOn(R, Nat)
    BY NatLessThanWellFounded
  <1>2. \A m, n \in Nat : m < n => <<m, n>> \in R
    BY DEF OpToRel
  <1> HIDE DEF R
  <1>3. PICK n \in N : \A m \in N : ~(<<m, n>> \in R)
    BY <1>1, WFMin
  <1>4. ASSUME NEW m \in N PROVE n <= m
    <2>1. m \in Nat /\ n \in Nat
      OBVIOUS
    <2>2. ~(m < n)
      BY <1>2, <1>3, <2>1
    <2> QED
      BY <2>1, <2>2
  <1> QED
    BY <1>4

LEMMA SumsAt ==
  ASSUME NEW s \in Seq(Envelope), NEW f, Sums(s, f)
  PROVE  /\ f[0] = 0
         /\ \A i \in 1 .. Len(s) : f[i] = f[i - 1] + s[i].size
PROOF
  <1>1. Len(s) \in Nat
    OBVIOUS
  <1> DEFINE g == [i \in 0 .. Len(s) |-> IF i = 0 THEN 0 ELSE f[i - 1] + s[i].size]
  <1>2. f = g
    BY DEF Sums
  <1>3. \A i \in 0 .. Len(s) : g[i] = IF i = 0 THEN 0 ELSE f[i - 1] + s[i].size
    OBVIOUS
  <1> HIDE DEF g
  <1>4. 0 \in 0 .. Len(s) /\ \A i \in 1 .. Len(s) : i \in 0 .. Len(s) /\ i # 0
    BY <1>1
  <1> QED
    BY <1>2, <1>3, <1>4

(* No two ways to add up.                                                  *)
LEMMA SumsAgree ==
  ASSUME NEW s \in Seq(Envelope), NEW f, Sums(s, f), NEW g, Sums(s, g)
  PROVE  f[Len(s)] = g[Len(s)]
PROOF
  <1>1. Len(s) \in Nat
    OBVIOUS
  <1> DEFINE N == {i \in 0 .. Len(s) : f[i] # g[i]}
  <1>2. CASE N = {}
    BY <1>1, <1>2
  <1>3. ASSUME N # {} PROVE FALSE
    <2>1. N \in SUBSET Nat
      BY <1>1
    <2>2. PICK n \in N : \A m \in N : n <= m
      BY <1>3, <2>1, FirstCounterexample
    <2>3. n \in 0 .. Len(s) /\ f[n] # g[n] /\ n \in Nat
      BY <1>1
    <2>4. n # 0
      BY <2>3, SumsAt
    <2>5. n \in 1 .. Len(s) /\ n - 1 \in 0 .. Len(s) /\ ~(n <= n - 1)
      BY <1>1, <2>3, <2>4
    <2>6. f[n - 1] = g[n - 1]
      BY <2>2, <2>5
    <2> QED
      BY <2>3, <2>5, <2>6, SumsAt
  <1> QED
    BY <1>2, <1>3

LEMMA SumsFrom ==
  ASSUME NEW s \in Seq(Envelope), NEW f, f = [i \in 0 .. Len(s) |-> f[i]],
         f[0] = 0, \A i \in 1 .. Len(s) : f[i] = f[i - 1] + s[i].size
  PROVE  Sums(s, f)
PROOF
  <1>1. Len(s) \in Nat
    OBVIOUS
  <1>2. \A i \in 0 .. Len(s) : f[i] = IF i = 0 THEN 0 ELSE f[i - 1] + s[i].size
    <2>1. \A i \in 0 .. Len(s) : i = 0 \/ i \in 1 .. Len(s)
      BY <1>1
    <2> QED
      BY <2>1
  <1> QED
    BY <1>2 DEF Sums

LEMMA BytesIs ==
  ASSUME NEW s \in Seq(Envelope), NEW f, Sums(s, f)
  PROVE  Bytes(s) = f[Len(s)]
PROOF
  <1> DEFINE g == CHOOSE h : Sums(s, h)
  <1>1. Sums(s, g)
    BY Zenon
  <1>2. Bytes(s) = g[Len(s)]
    BY DEF Bytes, Sums
  <1> HIDE DEF g
  <1> QED
    BY <1>1, <1>2, SumsAgree

(* One more envelope at the end.                                           *)
LEMMA AddsAppend ==
  ASSUME NEW s \in Seq(Envelope), NEW e \in Envelope, NEW f, Adds(s, f)
  PROVE  \E g : Adds(Append(s, e), g) /\ g[Len(s) + 1] = f[Len(s)] + e.size
PROOF
  <1> DEFINE n == Len(s)
             t == Append(s, e)
             g == [i \in 0 .. n + 1 |-> IF i = n + 1 THEN f[n] + e.size ELSE f[i]]
  <1>0. e.size \in Nat
    BY RelayAssumption DEF Envelope
  <1>1. n \in Nat
    OBVIOUS
  <1>2. /\ t \in Seq(Envelope) /\ Len(t) = n + 1 /\ t[n + 1] = e
        /\ \A i \in 1 .. n : t[i] = s[i]
    BY AppendProperties
  <1>3. /\ f[0] = 0 /\ \A i \in 1 .. n : f[i] = f[i - 1] + s[i].size
        /\ \A i \in 0 .. n : f[i] \in Nat
    BY SumsAt DEF Adds
  <1> HIDE DEF t, n
  <1>4. g[0] = 0 /\ g[n + 1] = f[n] + e.size /\ \A i \in 0 .. n : g[i] = f[i]
    BY <1>1, <1>3
  <1>5. g = [i \in 0 .. Len(t) |-> g[i]]
    BY <1>2
  <1> HIDE DEF g
  <1>6. ASSUME NEW i \in 1 .. Len(t) PROVE g[i] = g[i - 1] + t[i].size
    <2>1. CASE i = n + 1
      <3>1. i - 1 = n /\ n \in 0 .. n
        BY <1>1, <2>1
      <3> QED
        BY <1>2, <1>4, <2>1, <3>1
    <2>2. CASE i # n + 1
      <3>1. i \in 1 .. n /\ i \in 0 .. n /\ i - 1 \in 0 .. n
        BY <1>1, <1>2, <2>2
      <3> QED
        BY <1>2, <1>3, <1>4, <3>1
    <2> QED
      BY <2>1, <2>2
  <1>7. Sums(t, g)
    BY <1>2, <1>4, <1>5, <1>6, SumsFrom
  <1>8. ASSUME NEW i \in 0 .. Len(t) PROVE g[i] \in Nat
    <2>1. f[n] + e.size \in Nat
      BY <1>0, <1>1, <1>3
    <2>2. i = n + 1 \/ i \in 0 .. n
      BY <1>1, <1>2
    <2> QED
      BY <1>3, <1>4, <2>1, <2>2
  <1> QED
    BY <1>4, <1>7, <1>8 DEF Adds, t, n

LEMMA AddsExist ==
  ASSUME NEW s \in Seq(Envelope)
  PROVE  \E f : Adds(s, f)
PROOF
  <1> DEFINE N == {n \in Nat : \E t \in Seq(Envelope) : Len(t) = n /\ ~ \E f : Adds(t, f)}
  <1>1. ASSUME N # {} PROVE FALSE
    <2>1. PICK n \in N : \A m \in N : n <= m
      BY <1>1, FirstCounterexample
    <2>2. PICK t \in Seq(Envelope) : Len(t) = n /\ ~ \E f : Adds(t, f)
      OBVIOUS
    <2>3. n \in Nat
      OBVIOUS
    <2> HIDE DEF N
    <2>4. CASE n = 0
      <3> DEFINE f == [i \in 0 .. Len(t) |-> 0]
      <3>1. f[0] = 0 /\ f = [i \in 0 .. Len(t) |-> f[i]]
        BY <2>2, <2>4
      <3>2. 1 .. Len(t) = {}
        BY <2>2, <2>4
      <3> HIDE DEF f
      <3>3. Adds(t, f)
        BY <3>1, <3>2, SumsFrom DEF f, Adds
      <3> QED
        BY <2>2, <3>3
    <2>5. CASE n # 0
      <3> DEFINE u == SubSeq(t, 1, n - 1)
                 e == t[n]
      <3>1. t # <<>> /\ n - 1 \in Nat /\ n \in 1 .. Len(t) /\ ~(n <= n - 1)
        BY <2>2, <2>3, <2>5
      <3>2. u \in Seq(Envelope) /\ Len(u) = n - 1 /\ e \in Envelope
        BY <2>2, <3>1, SubSeqProperties, ElementOfSeq
      <3>3. t = Append(u, e)
        BY <2>2, <3>1, <3>2
      <3> HIDE DEF u, e
      <3>4. n - 1 \notin N
        BY <2>1, <3>1
      <3>5. PICK f : Adds(u, f)
        BY <3>1, <3>2, <3>4 DEF N
      <3>6. \E g : Adds(Append(u, e), g)
        BY <3>2, <3>5, AddsAppend
      <3> QED
        BY <2>2, <3>3, <3>6
    <2> QED
      BY <2>4, <2>5
  <1>2. Len(s) \in Nat /\ Len(s) \notin N
    BY <1>1
  <1> QED
    BY <1>2

(* Nothing waits.                                                          *)
LEMMA BytesEmpty ==
  Bytes(<<>>) = 0
PROOF
  <1>1. <<>> \in Seq(Envelope) /\ Len(<<>>) = 0
    OBVIOUS
  <1>2. PICK f : Adds(<<>>, f)
    BY <1>1, AddsExist
  <1>3. Bytes(<<>>) = f[Len(<<>>)]
    BY <1>1, <1>2, BytesIs DEF Adds
  <1>4. f[0] = 0
    BY <1>1, <1>2, SumsAt DEF Adds
  <1> QED
    BY <1>1, <1>3, <1>4

LEMMA BytesAppend ==
  ASSUME NEW s \in Seq(Envelope), NEW e \in Envelope
  PROVE  Bytes(Append(s, e)) = Bytes(s) + e.size
PROOF
  <1> DEFINE t == Append(s, e)
  <1>1. t \in Seq(Envelope) /\ Len(t) = Len(s) + 1
    BY AppendProperties
  <1>2. PICK f : Adds(s, f)
    BY AddsExist
  <1>3. PICK g : Adds(t, g) /\ g[Len(s) + 1] = f[Len(s)] + e.size
    BY <1>2, AddsAppend
  <1> HIDE DEF t
  <1>4. Bytes(s) = f[Len(s)] /\ Bytes(t) = g[Len(t)]
    BY <1>1, <1>2, <1>3, BytesIs DEF Adds
  <1>5. Bytes(t) = Bytes(s) + e.size
    BY <1>1, <1>3, <1>4
  <1> QED
    BY <1>5 DEF t

(* One envelope before the others.                                         *)
LEMMA BytesHead ==
  ASSUME NEW s \in Seq(Envelope), NEW e \in Envelope
  PROVE  Bytes(<<e>> \o s) = e.size + Bytes(s)
PROOF
  <1> DEFINE n == Len(s)
             t == <<e>> \o s
  <1>0. e.size \in Nat
    BY RelayAssumption DEF Envelope
  <1>1. PICK f : Adds(s, f)
    BY AddsExist
  <1> DEFINE g == [i \in 0 .. n + 1 |-> IF i = 0 THEN 0 ELSE e.size + f[i - 1]]
  <1>2. n \in Nat
    OBVIOUS
  <1>3. /\ t \in Seq(Envelope) /\ Len(t) = n + 1 /\ t[1] = e
        /\ \A i \in 2 .. n + 1 : t[i] = s[i - 1]
    OBVIOUS
  <1>4. /\ f[0] = 0 /\ \A i \in 1 .. n : f[i] = f[i - 1] + s[i].size
        /\ \A i \in 0 .. n : f[i] \in Nat
    BY <1>1, SumsAt DEF Adds
  <1>5. \A i \in 1 .. n : s[i].size \in Nat
    <2>1. \A i \in 1 .. n : s[i] \in Envelope
      BY ElementOfSeq
    <2> QED
      BY <2>1, RelayAssumption DEF Envelope
  <1> HIDE DEF t, n
  <1>6. g[0] = 0 /\ \A i \in 1 .. n + 1 : g[i] = e.size + f[i - 1]
    BY <1>2
  <1>7. g = [i \in 0 .. Len(t) |-> g[i]]
    BY <1>3
  <1> HIDE DEF g
  <1>8. ASSUME NEW i \in 1 .. Len(t) PROVE g[i] = g[i - 1] + t[i].size
    <2>1. CASE i = 1
      <3>1. g[i] = e.size + f[0] /\ g[i - 1] = 0
        BY <1>2, <1>6, <2>1
      <3> QED
        BY <1>0, <1>3, <1>4, <2>1, <3>1
    <2>2. CASE i # 1
      <3> DEFINE k == i - 1
      <3>1. /\ i \in 2 .. n + 1 /\ i \in 1 .. n + 1 /\ k \in 1 .. n + 1 /\ k \in 1 .. n
            /\ k - 1 \in 0 .. n
        BY <1>2, <1>3, <2>2
      <3>2. g[i] = e.size + f[k] /\ g[k] = e.size + f[k - 1] /\ t[i] = s[k]
        BY <1>3, <1>6, <3>1
      <3> HIDE DEF k
      <3>3. f[k] = f[k - 1] + s[k].size /\ f[k - 1] \in Nat /\ s[k].size \in Nat
        BY <1>4, <1>5, <3>1
      <3>4. g[i] = g[k] + t[i].size
        BY <1>0, <3>2, <3>3
      <3> QED
        BY <3>4 DEF k
    <2> QED
      BY <2>1, <2>2
  <1>9. Sums(t, g)
    BY <1>3, <1>6, <1>7, <1>8, SumsFrom
  <1>10. Bytes(t) = g[n + 1] /\ Bytes(s) = f[n]
    BY <1>1, <1>3, <1>9, BytesIs DEF Adds, n
  <1>11. g[n + 1] = e.size + f[n]
    <2>1. n + 1 \in 1 .. n + 1 /\ (n + 1) - 1 = n
      BY <1>2
    <2> QED
      BY <1>6, <2>1
  <1> QED
    BY <1>10, <1>11 DEF t

LEMMA BytesNat ==
  ASSUME NEW s \in Seq(Envelope)
  PROVE  Bytes(s) \in Nat
PROOF
  <1>1. PICK f : Adds(s, f)
    BY AddsExist
  <1>2. Len(s) \in 0 .. Len(s)
    BY LenProperties
  <1> QED
    BY <1>1, <1>2, BytesIs DEF Adds

(* What waits for a client, and its endpoint's counters.                   *)
Waiting(c) == InHand(c) \o channel[c]

Accounted(c) ==
  /\ queued[c].messages = Len(Waiting(c))
  /\ queued[c].bytes = Bytes(Waiting(c))
  /\ queued[c].messages <= QueueMessages
  /\ queued[c].bytes <= QueueBytes

(* Only who has a seat counts.                                             *)
Counted == \A c \in Conns : queued[c] # Nothing => \E s \in Seats : slot[s] = c

LEMMA QueueParts ==
  /\ QueueInv <=>
       /\ \A c \in Conns : pc[c] \in Receiving /\ Occupies(c) => Accounted(c)
       /\ Counted
  /\ QueueInv' <=>
       /\ \A c \in Conns : pc'[c] \in Receiving /\ Occupies(c)' => Accounted(c)'
       /\ Counted'
PROOF
  BY DEF QueueInv, QueueAccounted, Accounted, Waiting, Counted

(* cancel_and_clear takes the counters away with the seats.                *)
LEMMA ClearedQueues ==
  ASSUME RelayInv, NEW r, ClearRoute(r)
  PROVE  /\ Counted => Counted'
         /\ \A d \in Conns : \A s \in Seats :
              slot'[s] = d => slot[s] = d /\ queued'[d] = queued[d]
PROOF
  <1>0. CoreTypes /\ SeatInv
    BY TypeParts DEF RelayInv
  <1>1. /\ \A s \in Seats : slot'[s] = IF s.route = r THEN None ELSE slot[s]
        /\ \A d \in Conns : queued'[d] = IF d \in Occupants(r) THEN Nothing ELSE queued[d]
        /\ None \notin Conns
    BY RelayAssumption DEF ClearRoute
  <1>2. \A d : d \in Occupants(r) <=> d # None /\ \E s \in Seats : s.route = r /\ slot[s] = d
    BY DEF Occupants, SeatsOf
  <1>3. ASSUME NEW d \in Conns, NEW s \in Seats, slot'[s] = d
        PROVE  slot[s] = d /\ queued'[d] = queued[d]
    <2>1. s.route # r /\ slot[s] = d /\ d # None
      BY <1>1, <1>3
    <2>2. \A q \in Seats : slot[q] = d => q = s
      BY <1>0, <2>1 DEF SeatInv
    <2>3. d \notin Occupants(r)
      BY <1>2, <2>1, <2>2
    <2> QED
      BY <1>1, <2>1, <2>3
  <1>4. ASSUME Counted, NEW d \in Conns, queued'[d] # Nothing
        PROVE  \E s \in Seats : slot'[s] = d
    <2>1. d \notin Occupants(r) /\ queued[d] # Nothing /\ d # None
      BY <1>1, <1>4
    <2>2. PICK s \in Seats : slot[s] = d
      BY <1>4, <2>1 DEF Counted
    <2>3. s.route # r
      BY <1>2, <2>1, <2>2
    <2> QED
      BY <1>1, <2>2, <2>3
  <1> QED
    BY <1>3, <1>4 DEF Counted

LEMMA CountedStep ==
  RelayInv /\ QueueInv /\ [Next]_vars => Counted'
PROOF
  <1> SUFFICES ASSUME RelayInv, QueueInv, [Next]_vars PROVE Counted'
    OBVIOUS
  <1>0. CoreTypes /\ ConnTypes /\ FlowTypes /\ Counted
    BY TypeParts, QueueParts DEF RelayInv
  <1>1. ASSUME queued' = queued, slot' = slot PROVE Counted'
    BY <1>0, <1>1 DEF Counted
  <1>2. ASSUME NEW c \in Conns, NEW ch \in challenges, Admit(c, ch) PROVE Counted'
    <2>1. /\ queued' = queued /\ slot[ch.seat] = None
          /\ \A s \in Seats : s # ch.seat => slot'[s] = slot[s]
      BY <1>0, <1>2 DEF Admit, flowVars, CoreTypes
    <2> QED
      BY <1>0, <2>1, RelayAssumption DEF Counted
  <1>3. ASSUME NEW c \in Conns, Deliver(c) PROVE Counted'
    <2>1. seat[c] \in Seats
      BY <1>3, TaskFacts DEF Deliver, Running
    <2>2. slot' = slot /\ \A d \in Conns : queued'[d] = queued[d] \/ (d = c /\ slot[seat[c]] = c)
      BY <1>0, <1>3 DEF Deliver, coreVars, FlowTypes
    <2> QED
      BY <1>0, <2>1, <2>2 DEF Counted
  <1>4. ASSUME NEW c \in Conns, Forward(c) PROVE Counted'
    <2>1. Peer(seat[c]) \in Seats
      BY <1>4, TaskFacts, PeerSeat DEF Forward, Running
    <2>2. /\ slot' = slot
          /\ \A d \in Conns : queued'[d] = queued[d] \/ d = slot[Peer(seat[c])]
      BY <1>0, <1>4 DEF Forward, FlowTypes
    <2> QED
      BY <1>0, <2>1, <2>2 DEF Counted
  <1>5. ASSUME NEW r, ClearRoute(r) PROVE Counted'
    BY <1>0, <1>5, ClearedQueues
  <1>6. ASSUME NEW c \in Conns, Disconnect(c) PROVE Counted'
    BY <1>1, <1>5, <1>6 DEF Disconnect
  <1>7. ASSUME NEW file, Lost(file) PROVE Counted'
    BY <1>7 DEF Lost, Counted
  <1>8. \/ queued' = queued /\ slot' = slot
        \/ \E c \in Conns : \E ch \in challenges : Admit(c, ch)
        \/ \E c \in Conns : Deliver(c)
        \/ \E c \in Conns : Forward(c)
        \/ \E r : ClearRoute(r)
        \/ \E c \in Conns : Disconnect(c)
        \/ \E file : Lost(file)
    BY QuietCases DEF Quiet, Accept, HandshakeEnds, SeeCancelled, TakeOutgoing, ReadEnvelope,
       ClientFails, ForwardRefused, ForwardCloses, FinishRevoke, coreVars, flowVars
  <1> QED
    BY <1>1, <1>2, <1>3, <1>4, <1>5, <1>6, <1>7, <1>8

(* The queue of an endpoint that nothing touches stays accounted for.      *)
LEMMA AccountedKept ==
  ASSUME NEW d \in Conns, Accounted(d), queued'[d] = queued[d], Waiting(d)' = Waiting(d)
  PROVE  Accounted(d)'
PROOF
  BY DEF Accounted

LEMMA WaitingTypes ==
  ASSUME FlowTypes, NEW c \in Conns
  PROVE  /\ InHand(c) \in Seq(Envelope) /\ channel[c] \in Seq(Envelope)
         /\ Waiting(c) \in Seq(Envelope)
PROOF
  <1>1. InHand(c) \in Seq(Envelope) /\ channel[c] \in Seq(Envelope)
    BY StreamTypes
  <1> QED
    BY <1>1, ConcatProperties DEF Waiting

(* A connection that is admitted has nothing in its queue.                 *)
LEMMA AdmitAccounted ==
  ASSUME RelayInv, Counted, NEW c \in Conns, NEW ch \in challenges, Admit(c, ch)
  PROVE  Accounted(c)'
PROOF
  <1>0. ConnTypes /\ SeatInv /\ HandFits
    BY TypeParts, HandParts DEF RelayInv
  <1>1. pc[c] = "challenged" /\ pc'[c] = "accepting" /\ channel' = channel /\ queued' = queued
    BY <1>0 DEF Admit, Goto, ConnTypes, flowVars
  <1>2. ASSUME NEW s \in Seats PROVE slot[s] # c
    <2>1. c # None /\ ~Running(c) /\ pc[c] # "absent"
      BY <1>1, RelayAssumption DEF Running
    <2> QED
      BY <1>0, <2>1 DEF SeatInv
  <1>3. queued'[c] = Nothing
    BY <1>1, <1>2 DEF Counted
  <1>4. channel'[c] = <<>> /\ InHand(c)' = <<>>
    BY <1>0, <1>1 DEF HandFits, Running, InHand
  <1>5. Waiting(c)' = <<>> \o <<>>
    BY <1>4 DEF Waiting
  <1>6. Waiting(c)' = <<>>
    BY <1>5, ConcatEmptySeq, EmptySeq
  <1>7. Len(<<>>) = 0 /\ 0 <= QueueMessages /\ 0 <= QueueBytes
    BY RelayAssumption
  <1>8. queued'[c].messages = 0 /\ queued'[c].bytes = 0
    BY <1>3 DEF Nothing
  <1>9. Accounted(c)' <=>
          /\ queued'[c].messages = Len(Waiting(c)')
          /\ queued'[c].bytes = Bytes(Waiting(c)')
          /\ queued'[c].messages <= QueueMessages
          /\ queued'[c].bytes <= QueueBytes
    BY DEF Accounted, Bytes
  <1> QED
    BY <1>6, <1>7, <1>8, <1>9, BytesEmpty

(* The head of the channel moves into the hand and still counts.           *)
LEMMA TakeWaiting ==
  ASSUME RelayInv, NEW c \in Conns, TakeOutgoing(c)
  PROVE  Waiting(c)' = Waiting(c)
PROOF
  <1>0. FlowTypes /\ ConnTypes
    BY TypeParts DEF RelayInv
  <1> DEFINE q == channel[c]
  <1>1. q \in Seq(Envelope) /\ q # <<>> /\ InHand(c) = <<>>
    BY <1>0 DEF TakeOutgoing, InHand, FlowTypes
  <1>2. channel'[c] = Tail(q) /\ InHand(c)' = <<Head(q)>>
    BY <1>0 DEF TakeOutgoing, Goto, InHand, FlowTypes, ConnTypes
  <1>3. q = <<Head(q)>> \o Tail(q)
    <2> HIDE DEF q
    <2>1. SubSeq(q, 1, Len(q)) = <<q[1]>> \o SubSeq(q, 2, Len(q))
      BY <1>1, LenProperties, EmptySeq, SubSeqRecursiveFirst
    <2>2. SubSeq(q, 1, Len(q)) = q /\ SubSeq(q, 2, Len(q)) = Tail(q)
      BY <1>1, SubSeqFull, TailIsSubSeq
    <2>3. Head(q) = q[1]
      BY <1>1
    <2> QED
      BY <2>1, <2>2, <2>3
  <1>4. Waiting(c)' = <<Head(q)>> \o Tail(q)
    BY <1>2 DEF Waiting
  <1>5. Waiting(c) = q
    BY <1>1, ConcatEmptySeq DEF Waiting
  <1> QED
    BY <1>3, <1>4, <1>5

(* delivered takes off the counters what the client was sent.              *)
LEMMA DeliverAccounted ==
  ASSUME RelayInv, NEW c \in Conns, Deliver(c), Occupies(c), Accounted(c)
  PROVE  Accounted(c)'
PROOF
  <1>0. FlowTypes /\ ConnTypes
    BY TypeParts DEF RelayInv
  <1> DEFINE q == channel[c]
             h == hand[c][1]
             m == queued[c].messages
             b == queued[c].bytes
  <1>1. q \in Seq(Envelope) /\ Len(q) \in Nat
    BY <1>0 DEF FlowTypes
  <1>2. pc[c] = "sending" /\ h \in Envelope /\ hand[c] = <<h>>
    BY TaskFacts DEF Deliver
  <1>3. Waiting(c) = <<h>> \o q
    BY <1>2 DEF Waiting, InHand
  <1>4. Waiting(c)' = <<>> \o q
    BY <1>0 DEF Deliver, Goto, Waiting, InHand, ConnTypes
  <1>5. Waiting(c)' = q
    BY <1>1, <1>4, ConcatEmptySeq
  <1>6. queued'[c] = [messages |-> Less(m, 1), bytes |-> Less(b, h.size)]
    BY <1>0 DEF Deliver, Occupies, FlowTypes
  <1>7. /\ m = Len(<<h>> \o q) /\ b = Bytes(<<h>> \o q)
        /\ m <= QueueMessages /\ b <= QueueBytes
    BY <1>3 DEF Accounted
  <1> HIDE DEF q, h, m, b
  <1>8. Len(<<h>> \o q) = 1 + Len(q)
    BY <1>1, <1>2
  <1>9. b = h.size + Bytes(q) /\ Bytes(q) \in Nat /\ h.size \in Nat
    BY <1>1, <1>2, <1>7, BytesHead, BytesNat, RelayAssumption DEF Envelope
  <1>10. Less(m, 1) = Len(q) /\ Less(m, 1) <= QueueMessages
    BY <1>1, <1>7, <1>8, RelayAssumption DEF Less
  <1>11. Less(b, h.size) = Bytes(q) /\ Less(b, h.size) <= QueueBytes
    <2>1. QueueBytes \in Nat /\ b <= QueueBytes
      BY <1>7, RelayAssumption
    <2>2. ASSUME NEW x \in Nat, NEW y \in Nat, y + x <= QueueBytes
          PROVE  Less(y + x, y) = x /\ x <= QueueBytes
      BY <2>1, <2>2 DEF Less
    <2> QED
      BY <1>9, <2>1, <2>2
  <1>12. Accounted(c)' <=>
           /\ queued'[c].messages = Len(Waiting(c)')
           /\ queued'[c].bytes = Bytes(Waiting(c)')
           /\ queued'[c].messages <= QueueMessages
           /\ queued'[c].bytes <= QueueBytes
    BY DEF Accounted, Bytes
  <1> QED
    BY <1>5, <1>6, <1>10, <1>11, <1>12

(* forward counts the envelope, which the limits allow.                    *)
LEMMA ForwardAccounted ==
  ASSUME RelayInv, NEW c \in Conns, Forward(c), NEW d, d = slot[Peer(seat[c])], Accounted(d)
  PROVE  Accounted(d)'
PROOF
  <1>0. FlowTypes /\ ConnTypes
    BY TypeParts DEF RelayInv
  <1> DEFINE e == hand[c][1]
             h == InHand(d)
             q == channel[d]
             w == Waiting(d)
             m == queued[d].messages
             b == queued[d].bytes
  <1>1. d \in Conns /\ d # c /\ e \in Envelope
    BY ForwardStreams
  <1>2. /\ channel'[d] = Append(q, e) /\ InHand(d)' = h
        /\ queued'[d] = [messages |-> m + 1, bytes |-> b + e.size]
        /\ ~QueueFull(d, e)
    BY <1>0, <1>1 DEF Forward, Goto, InHand, FlowTypes, ConnTypes
  <1>3. h \in Seq(Envelope) /\ q \in Seq(Envelope) /\ w \in Seq(Envelope) /\ w = h \o q
    BY <1>0, <1>1, WaitingTypes DEF Waiting
  <1>4. m \in Nat /\ b \in Nat /\ e.size \in Nat
    BY <1>0, <1>1, RelayAssumption DEF FlowTypes, Envelope
  <1>5. m < QueueMessages /\ b + e.size <= QueueBytes
    <2>1. QueueMessages \in Nat /\ QueueBytes \in Nat
      BY RelayAssumption
    <2>2. ~(m >= QueueMessages) /\ ~(b + e.size > QueueBytes)
      BY <1>2 DEF QueueFull
    <2> HIDE DEF m, b, e
    <2> QED
      BY <1>4, <2>1, <2>2
  <1>6. m = Len(w) /\ b = Bytes(w)
    BY DEF Accounted
  <1>7. Waiting(d)' = h \o Append(q, e)
    BY <1>2 DEF Waiting
  <1> HIDE DEF e, h, q, w, m, b
  <1>8. h \o Append(q, e) = Append(w, e)
    <2>1. <<e>> \in Seq(Envelope)
      BY <1>1
    <2>2. Append(q, e) = q \o <<e>> /\ Append(w, e) = w \o <<e>>
      BY <1>1, <1>3, AppendIsConcat
    <2>3. (h \o q) \o <<e>> = h \o (q \o <<e>>)
      BY <1>3, <2>1, ConcatAssociative
    <2> QED
      BY <1>3, <2>2, <2>3
  <1>9. Len(Append(w, e)) = m + 1
    BY <1>1, <1>3, <1>6, AppendProperties
  <1>10. Bytes(Append(w, e)) = b + e.size
    BY <1>1, <1>3, <1>6, BytesAppend
  <1>11. m + 1 <= QueueMessages
    BY <1>4, <1>5, RelayAssumption
  <1>12. Accounted(d)' <=>
           /\ queued'[d].messages = Len(Waiting(d)')
           /\ queued'[d].bytes = Bytes(Waiting(d)')
           /\ queued'[d].messages <= QueueMessages
           /\ queued'[d].bytes <= QueueBytes
    BY DEF Accounted, Bytes
  <1> QED
    BY <1>2, <1>5, <1>7, <1>8, <1>9, <1>10, <1>11, <1>12

LEMMA AccountedStep ==
  RelayInv /\ QueueInv /\ [Next]_vars =>
    \A d \in Conns : pc'[d] \in Receiving /\ Occupies(d)' => Accounted(d)'
PROOF
  <1> SUFFICES ASSUME RelayInv, QueueInv, [Next]_vars,
                      NEW d \in Conns, pc'[d] \in Receiving, Occupies(d)'
               PROVE  Accounted(d)'
    OBVIOUS
  <1>0. CoreTypes /\ ConnTypes /\ FlowTypes /\ Counted
    BY TypeParts, QueueParts DEF RelayInv
  <1>1. pc[d] \in Receiving /\ Occupies(d) => Accounted(d)
    BY QueueParts
  <1>2. ASSUME pc[d] \in Receiving, Occupies(d), queued'[d] = queued[d],
               InHand(d)' = InHand(d), channel'[d] = channel[d]
        PROVE  Accounted(d)'
    BY <1>1, <1>2, AccountedKept DEF Waiting
  <1>3. CASE Quiet
    <2>1. Occupies(d) /\ pc[d] \in Receiving /\ queued'[d] = queued[d]
          /\ InHand(d)' = InHand(d) /\ channel'[d] = channel[d]
      BY <1>3 DEF Quiet, Occupies, InHand
    <2> QED
      BY <1>2, <2>1
  <1>4. ASSUME NEW c \in Conns, NEW a \in Sources, Accept(c, a) PROVE Accounted(d)'
    <2>1. d # c
      BY <1>0, <1>4 DEF Accept, Goto, Receiving, ConnTypes
    <2> QED
      BY <1>0, <1>2, <1>4, <2>1 DEF Accept, Goto, Occupies, InHand, ConnTypes, coreVars, flowVars
  <1>5. ASSUME NEW c \in Conns, NEW ch \in challenges, Admit(c, ch) PROVE Accounted(d)'
    <2>1. CASE d = c
      BY <1>0, <1>5, <2>1, AdmitAccounted
    <2>2. CASE d # c
      <3>1. /\ pc'[d] = pc[d] /\ seat'[d] = seat[d] /\ queued' = queued
            /\ InHand(d)' = InHand(d) /\ channel'[d] = channel[d]
        BY <1>0, <1>5, <2>2 DEF Admit, Goto, InHand, ConnTypes, flowVars
      <3>2. seat[d] \in Seats /\ slot'[seat[d]] = d
        BY <1>0, <3>1 DEF Occupies, ConnTypes
      <3>3. slot[seat[d]] = d
        BY <1>0, <1>5, <2>2, <3>2 DEF Admit, CoreTypes
      <3>4. Occupies(d)
        BY <3>1, <3>3 DEF Occupies
      <3> QED
        BY <1>2, <3>1, <3>4
    <2> QED
      BY <2>1, <2>2
  <1>6. ASSUME NEW c \in Conns, End(c) \/ (Leave(c) /\ seat' = seat)
        PROVE  /\ d # c /\ pc[d] \in Receiving /\ seat'[d] = seat[d]
               /\ InHand(d)' = InHand(d) /\ channel'[d] = channel[d]
    <2>1. d # c
      BY <1>0, <1>6 DEF End, Leave, Goto, Receiving, ConnTypes
    <2> QED
      BY <1>0, <1>6, <2>1 DEF End, Leave, Goto, InHand, ConnTypes, FlowTypes
  <1>7. ASSUME seat'[d] = seat[d], (slot' = slot /\ queued' = queued) \/ \E r : ClearRoute(r)
        PROVE  Occupies(d) /\ queued'[d] = queued[d]
    <2>1. seat[d] # None /\ seat[d] \in Seats /\ slot'[seat[d]] = d
      BY <1>0, <1>7 DEF Occupies, ConnTypes
    <2>2. slot[seat[d]] = d /\ queued'[d] = queued[d]
      BY <1>7, <2>1, ClearedQueues
    <2> QED
      BY <2>1, <2>2 DEF Occupies
  <1>8. ASSUME NEW c \in Conns, End(c) \/ (Leave(c) /\ seat' = seat),
               (slot' = slot /\ queued' = queued) \/ \E r : ClearRoute(r)
        PROVE  Accounted(d)'
    BY <1>2, <1>6, <1>7, <1>8
  <1>9. ASSUME NEW c \in Conns, TakeOutgoing(c) PROVE Accounted(d)'
    <2>1. Occupies(d) /\ pc[d] \in Receiving /\ queued'[d] = queued[d]
      BY <1>0, <1>9 DEF TakeOutgoing, Goto, Occupies, Receiving, ConnTypes, coreVars, seatVars
    <2>2. CASE d = c
      BY <1>1, <1>9, <2>1, <2>2, TakeWaiting, AccountedKept
    <2>3. CASE d # c
      BY <1>0, <1>2, <1>9, <2>1, <2>3 DEF TakeOutgoing, Goto, InHand, ConnTypes, FlowTypes
    <2> QED
      BY <2>2, <2>3
  <1>10. ASSUME NEW c \in Conns, Deliver(c) PROVE Accounted(d)'
    <2>1. Occupies(d) /\ pc[d] \in Receiving
      BY <1>0, <1>10 DEF Deliver, Goto, Occupies, Receiving, ConnTypes, coreVars, seatVars
    <2>2. CASE d = c
      BY <1>1, <1>10, <2>1, <2>2, DeliverAccounted
    <2>3. CASE d # c
      <3>1. queued'[d] = queued[d] /\ InHand(d)' = InHand(d) /\ channel'[d] = channel[d]
        BY <1>0, <1>10, <2>3 DEF Deliver, Goto, InHand, ConnTypes, FlowTypes
      <3> QED
        BY <1>2, <2>1, <3>1
    <2> QED
      BY <2>2, <2>3
  <1>11. ASSUME NEW c \in Conns, NEW e \in ClientEnvelope(c), ReadEnvelope(c, e)
         PROVE  Accounted(d)'
    <2>1. Occupies(d) /\ pc[d] \in Receiving
      BY <1>0, <1>11 DEF ReadEnvelope, Goto, Occupies, Receiving, ConnTypes, coreVars, seatVars
    <2>2. queued'[d] = queued[d] /\ InHand(d)' = InHand(d) /\ channel'[d] = channel[d]
      BY <1>0, <1>11 DEF ReadEnvelope, Goto, InHand, ConnTypes, FlowTypes
    <2> QED
      BY <1>2, <2>1, <2>2
  <1>12. ASSUME NEW c \in Conns, Forward(c) PROVE Accounted(d)'
    <2>1. Occupies(d) /\ pc[d] \in Receiving
      BY <1>0, <1>12 DEF Forward, Goto, Occupies, Receiving, ConnTypes, seatVars
    <2>2. CASE d = slot[Peer(seat[c])]
      BY <1>1, <1>12, <2>1, <2>2, ForwardAccounted
    <2>3. CASE d # slot[Peer(seat[c])]
      <3>1. queued'[d] = queued[d] /\ InHand(d)' = InHand(d) /\ channel'[d] = channel[d]
        BY <1>0, <1>12, <2>3 DEF Forward, Goto, InHand, ConnTypes, FlowTypes
      <3> QED
        BY <1>2, <2>1, <3>1
    <2> QED
      BY <2>2, <2>3
  <1>13. ASSUME FinishRevoke PROVE Accounted(d)'
    <2>1. /\ seat'[d] = seat[d] /\ pc[d] \in Receiving /\ ClearRoute(admin.route)
          /\ InHand(d)' = InHand(d) /\ channel'[d] = channel[d]
      BY <1>13 DEF FinishRevoke, InHand, seatVars
    <2> QED
      BY <1>2, <1>7, <2>1
  <1>14. ASSUME NEW file, Lost(file) PROVE FALSE
    BY <1>14 DEF Lost, Receiving
  <1>15. ASSUME NEW c \in Conns,
                HandshakeEnds(c) \/ SeeCancelled(c) \/ ClientFails(c) \/ ForwardRefused(c)
                \/ ForwardCloses(c) \/ Disconnect(c)
         PROVE  Accounted(d)'
    <2>1. /\ End(c) \/ (Leave(c) /\ seat' = seat)
          /\ (slot' = slot /\ queued' = queued) \/ \E r : ClearRoute(r)
      BY <1>15 DEF HandshakeEnds, SeeCancelled, ClientFails, ForwardRefused, ForwardCloses,
         Disconnect, coreVars, seatVars
    <2> QED
      BY <1>8, <2>1
  <1> QED
    BY <1>3, <1>4, <1>5, <1>9, <1>10, <1>11, <1>12, <1>13, <1>14, <1>15, QuietCases

(* QueueInv holds in every state: the counters of an endpoint are those of *)
(* the envelopes that wait for its client, and end with its seat.          *)
THEOREM QueueInvariant == Spec => []QueueInv
PROOF
  <1>1. Init => QueueInv
    <2> SUFFICES ASSUME Init PROVE QueueInv
      OBVIOUS
    <2>1. \A c \in Conns : pc[c] \notin Receiving
      BY DEF Init, Receiving
    <2>2. Counted
      BY DEF Init, Counted
    <2> QED
      BY <2>1, <2>2, QueueParts
  <1>2. RelayInv /\ QueueInv /\ [Next]_vars => QueueInv'
    BY CountedStep, AccountedStep, QueueParts
  <1> QED
    BY <1>1, <1>2, RelayInvariant, PTL DEF Spec

(* queued_messages and queued_encoded_bytes, which forward checks its      *)
(* limits against, are exactly what waits for the client, whatever order   *)
(* forward, delivered, disconnect and revoke_route come in, and stay       *)
(* within the quota.                                                       *)
THEOREM QueueExact == Spec => []QueueAccounted
PROOF
  <1>1. QueueInv => QueueAccounted
    BY DEF QueueInv
  <1> QED
    BY <1>1, QueueInvariant, PTL

==============================================================================
