--------------------------- MODULE TmuxHostsProofs ---------------------------
(***************************************************************************)
(* Nobody's Host is taken away and watermarks are fenced, for any finite   *)
(* number of phones, any number of Hosts and any number of late releases.  *)
(***************************************************************************)
EXTENDS TmuxHosts, FiniteSetTheorems, TLAPS

(* Every step keeps the types.                                             *)
LEMMA TypeStep ==
  TypeOK /\ [Next]_vars => TypeOK'
PROOF
  <1> SUFFICES ASSUME TypeOK, [Next]_vars
               PROVE  TypeOK'
    OBVIOUS
  <1> USE BoundsAssumption, PhonesAssumption
  <1>0. Current \in Nat
    BY DEF TypeOK, Current
  <1>1. CASE UNCHANGED vars
    BY <1>1 DEF TypeOK, vars, generationVars, phoneVars
  <1>2. ASSUME NEW p \in Phones, Connect(p) PROVE TypeOK'
    BY <1>2 DEF TypeOK, Connect, Goto, generationVars, phoneVars
  <1>3. ASSUME NEW p \in Phones, Authorize(p) PROVE TypeOK'
    <2>1. PICK c \in Presented(p) :
            /\ claim' = [claim EXCEPT ![p] = IF c.gen = Current THEN c ELSE Nothing]
            /\ Goto(p, IF c.gen = Current THEN "authorized" ELSE "off")
      BY <1>3 DEF Authorize
    <2>2. memory[p] \in Claims
      BY DEF TypeOK
    <2>3. [gen |-> Current, from |-> NoHost] \in Claims /\ Nothing \in Claims
      BY <1>0 DEF Claims, Nothing
    <2>4. c \in Claims
      BY <2>2, <2>3 DEF Presented
    <2>5. claim' \in [Phones -> Claims]
      BY <2>1, <2>3, <2>4 DEF TypeOK
    <2> QED
      BY <1>3, <2>1, <2>5 DEF TypeOK, Authorize, Goto, generationVars
  <1>4. ASSUME NEW p \in Phones, Join(p) PROVE TypeOK'
    BY <1>0, <1>4 DEF TypeOK, Join, Goto, generationVars
  <1>5. ASSUME NEW p \in Phones, SessionGone(p) PROVE TypeOK'
    BY <1>5 DEF TypeOK, SessionGone, Forget, Goto, Nothing, Claims, NoHost, generationVars
  <1>6. ASSUME NEW p \in Phones, BeginStart(p) PROVE TypeOK'
    BY <1>6 DEF TypeOK, BeginStart, Goto, phoneVars
  <1>7. ASSUME NEW p \in Phones, StartHost(p) PROVE TypeOK'
    BY <1>0, <1>7 DEF TypeOK, StartHost, Goto, Hosts
  <1>8. ASSUME NEW p \in Phones, StartFails(p) PROVE TypeOK'
    BY <1>8 DEF TypeOK, StartFails, Forget, Goto, Nothing, Claims, NoHost, generationVars
  <1>9. ASSUME NEW p \in Phones, Attach(p) PROVE TypeOK'
    <2>1. claim[p] \in Claims /\ held[p] \in Hosts \cup {NoHost}
      BY DEF TypeOK
    <2>2. [claim[p] EXCEPT !.from = Resumed(p)] \in Claims
      BY <2>1 DEF Claims, Resumed
    <2>3. [gen |-> claim[p].gen, from |-> held[p]] \in Claims
      BY <2>1 DEF Claims
    <2>4. claim' \in [Phones -> Claims] /\ memory' \in [Phones -> Claims]
      BY <1>9, <2>2, <2>3 DEF TypeOK, Attach, Attached
    <2> QED
      BY <1>9, <2>4 DEF TypeOK, Attach, Attached, Goto, generationVars
  <1>10. ASSUME NEW p \in Phones, ReplayFails(p) PROVE TypeOK'
    BY <1>10 DEF TypeOK, ReplayFails, Forget, Goto, Nothing, Claims, NoHost, generationVars
  <1>11. ASSUME NEW p \in Phones, AttachFails(p) PROVE TypeOK'
    BY <1>11 DEF TypeOK, AttachFails, Goto, generationVars, phoneVars
  <1>12. ASSUME NEW p \in Phones, Disconnect(p) PROVE TypeOK'
    BY <1>12 DEF TypeOK, Disconnect, Forget, Goto, Nothing, Claims, NoHost, generationVars
  <1>13. ASSUME NEW p \in Phones, Detach(p) PROVE TypeOK'
    BY <1>13 DEF TypeOK, Detach, Goto, generationVars, phoneVars
  <1>14. ASSUME NEW p \in Phones, ForegroundRelease(p) PROVE TypeOK'
    BY <1>14 DEF TypeOK, ForegroundRelease, ReleaseNow, Forget, Goto, Nothing, Claims, NoHost
  <1>15. CASE BackgroundRelease
    BY <1>15 DEF TypeOK, BackgroundRelease, ReleaseNow, NoHost, phoneVars
  <1>16. CASE HostExits
    BY <1>16 DEF TypeOK, HostExits, NoHost, generationVars, phoneVars
  <1>17. CASE Restart
    <2>1. Nothing \in Claims
      BY DEF Nothing, Claims, NoHost
    <2>2. host' \in Hosts \cup {NoHost} /\ started' \in 0 .. MaxHosts /\ firstHost' \in 1 .. MaxHosts + 1
      BY <1>17 DEF TypeOK, Restart
    <2> QED
      BY <1>17, <2>1, <2>2 DEF TypeOK, Restart
  <1> QED
    BY <1>1, <1>2, <1>3, <1>4, <1>5, <1>6, <1>7, <1>8, <1>9, <1>10, <1>11, <1>12, <1>13,
       <1>14, <1>15, <1>16, <1>17 DEF Next, PhoneStep, PollRefused

(* A release keeps what the mutex protects.                                *)
LEMMA Released ==
  ASSUME TypeOK, LockInv, ReleaseNow, UNCHANGED <<lock, started, firstHost>>
  PROVE  /\ lock' # NoPhone => host' = NoHost
         /\ host' = NoHost <=> users' = 0
         /\ live' <=> host' # NoHost
         /\ host' # NoHost => host' = started' /\ firstHost' <= host'
         /\ firstHost' <= started' + 1
         /\ lastStarted' = started' + 1 - firstHost'
PROOF
  <1>1. CASE users > 1
    BY <1>1 DEF TypeOK, LockInv, ReleaseNow
  <1>2. CASE ~(users > 1)
    BY <1>2 DEF TypeOK, LockInv, ReleaseNow
  <1> QED
    BY <1>1, <1>2

(* The mutex and the numbering of the Hosts are kept.                      *)
LEMMA LockStep ==
  TypeOK /\ LockInv /\ [Next]_vars => LockInv'
PROOF
  <1> SUFFICES ASSUME TypeOK, LockInv, [Next]_vars
               PROVE  LockInv'
    OBVIOUS
  <1> USE BoundsAssumption, PhonesAssumption DEF TypeOK, LockInv, NoHost, Hosts, Current
  <1>1. CASE UNCHANGED vars
    BY <1>1 DEF vars, generationVars, phoneVars
  <1>2. ASSUME NEW p \in Phones, Connect(p) PROVE LockInv'
    BY <1>2 DEF Connect, Goto, generationVars, phoneVars
  <1>3. ASSUME NEW p \in Phones, Authorize(p) PROVE LockInv'
    BY <1>3 DEF Authorize, Goto, generationVars
  <1>4. ASSUME NEW p \in Phones, Join(p) PROVE LockInv'
    BY <1>4 DEF Join, Goto, generationVars
  <1>5. ASSUME NEW p \in Phones, SessionGone(p) PROVE LockInv'
    BY <1>5 DEF SessionGone, Forget, Goto, generationVars
  <1>6. ASSUME NEW p \in Phones, BeginStart(p) PROVE LockInv'
    BY <1>6 DEF BeginStart, Goto, phoneVars
  <1>7. ASSUME NEW p \in Phones, StartHost(p) PROVE LockInv'
    BY <1>7 DEF StartHost, Goto
  <1>8. ASSUME NEW p \in Phones, StartFails(p) PROVE LockInv'
    BY <1>8 DEF StartFails, Forget, Goto, generationVars
  <1>9. ASSUME NEW p \in Phones, Attach(p) PROVE LockInv'
    BY <1>9 DEF Attach, Attached, Goto, generationVars
  <1>10. ASSUME NEW p \in Phones, ReplayFails(p) PROVE LockInv'
    BY <1>10 DEF ReplayFails, Forget, Goto, generationVars
  <1>11. ASSUME NEW p \in Phones, AttachFails(p) PROVE LockInv'
    BY <1>11 DEF AttachFails, Goto, generationVars, phoneVars
  <1>12. ASSUME NEW p \in Phones, Disconnect(p) PROVE LockInv'
    BY <1>12 DEF Disconnect, Forget, Goto, generationVars
  <1>13. ASSUME NEW p \in Phones, Detach(p) PROVE LockInv'
    BY <1>13 DEF Detach, Goto, generationVars, phoneVars
  <1>14. ASSUME NEW p \in Phones, ForegroundRelease(p) PROVE LockInv'
    <2>1. ReleaseNow /\ UNCHANGED <<lock, started, firstHost>>
      BY <1>14 DEF ForegroundRelease
    <2>2. \A q \in Phones : pc'[q] = "starting" <=> pc[q] = "starting"
      BY <1>14 DEF ForegroundRelease, Goto
    <2> QED
      BY <2>1, <2>2, Released
  <1>15. CASE BackgroundRelease
    <2>1. ReleaseNow /\ UNCHANGED <<lock, started, firstHost>>
      BY <1>15 DEF BackgroundRelease
    <2>2. \A q \in Phones : pc'[q] = "starting" <=> pc[q] = "starting"
      BY <1>15 DEF BackgroundRelease
    <2> QED
      BY <2>1, <2>2, Released
  <1>16. CASE HostExits
    BY <1>16 DEF HostExits, generationVars, phoneVars
  <1>17. CASE Restart
    BY <1>17 DEF Restart
  <1> QED
    BY <1>1, <1>2, <1>3, <1>4, <1>5, <1>6, <1>7, <1>8, <1>9,
       <1>10, <1>11, <1>12, <1>13, <1>14, <1>15, <1>16, <1>17
       DEF Next, PhoneStep, PollRefused

(* A step that leaves a phone alone, and does not restart the listener,    *)
(* leaves its claims true.                                                 *)
LEMMA StillFenced ==
  ASSUME TypeOK, NEW q \in Phones, PhoneFenced(q), firstHost' = firstHost,
         started' \in Nat, started <= started',
         memory'[q] = memory[q], claim'[q] = claim[q], held'[q] = held[q],
         granted'[q] = granted[q],
         pc'[q] \in HoldingPoints => pc[q] \in HoldingPoints,
         pc'[q] = "attached" => pc[q] = "attached"
  PROVE  PhoneFenced(q)'
PROOF
  <1>1. /\ memory[q].from \in Nat /\ claim[q].from \in Nat /\ held[q] \in Nat
        /\ started \in Nat /\ firstHost \in Nat
    BY DEF TypeOK, Claims, Hosts, NoHost
  <1>2. Fenced(memory[q])' /\ Fenced(claim[q])'
    BY <1>1 DEF PhoneFenced, Fenced
  <1> QED
    BY <1>1, <1>2 DEF PhoneFenced

(* A connection that is over claims nothing.                               *)
LEMMA ForgottenFenced ==
  ASSUME TypeOK, NEW p \in Phones, PhoneFenced(p), firstHost' = firstHost, started' = started,
         memory' = memory, Forget(p), NEW to \in {"off", "idle"}, Goto(p, to)
  PROVE  PhoneFenced(p)'
PROOF
  <1>1. claim'[p] = Nothing /\ pc'[p] = to /\ memory'[p] = memory[p]
    BY DEF TypeOK, Forget, Goto
  <1>2. started \in Nat /\ firstHost \in Nat \ {0}
    BY DEF TypeOK
  <1>3. Fenced(claim[p])'
    BY <1>1, <1>2 DEF Fenced, Nothing, NoHost
  <1>4. Fenced(memory[p])'
    BY <1>1 DEF PhoneFenced, Fenced
  <1> QED
    BY <1>1, <1>3, <1>4 DEF PhoneFenced, HoldingPoints

(* What is remembered, presented and granted stays true of the Hosts.      *)
LEMMA FenceStep ==
  TypeOK /\ LockInv /\ FenceInv /\ [Next]_vars => FenceInv'
PROOF
  <1> SUFFICES ASSUME TypeOK, LockInv, FenceInv, [Next]_vars
               PROVE  FenceInv'
    OBVIOUS
  <1> USE BoundsAssumption, PhonesAssumption DEF FenceInv
  <1>1. CASE UNCHANGED vars
    <2>1. ASSUME NEW q \in Phones PROVE PhoneFenced(q)'
      BY <1>1, <2>1, StillFenced DEF TypeOK, HoldingPoints, vars, generationVars, phoneVars
    <2> QED
      BY <2>1
  <1>2. ASSUME NEW p \in Phones, Connect(p) PROVE FenceInv'
    <2>1. ASSUME NEW q \in Phones PROVE PhoneFenced(q)'
      BY <1>2, <2>1, StillFenced DEF TypeOK, HoldingPoints, Connect, Goto, generationVars, phoneVars
    <2> QED
      BY <2>1
  <1>3. ASSUME NEW p \in Phones, Authorize(p) PROVE FenceInv'
    <2>1. ASSUME NEW q \in Phones, q # p PROVE PhoneFenced(q)'
      BY <1>3, <2>1, StillFenced DEF TypeOK, Authorize, Goto, generationVars
    <2>2. PICK c \in Presented(p) :
            /\ claim' = [claim EXCEPT ![p] = IF c.gen = Current THEN c ELSE Nothing]
            /\ Goto(p, IF c.gen = Current THEN "authorized" ELSE "off")
      BY <1>3 DEF Authorize
    <2>3. started \in Nat /\ firstHost \in Nat \ {0}
      BY DEF TypeOK
    <2>4. Fenced(c) /\ Fenced(Nothing)
      BY <2>3 DEF PhoneFenced, Presented, Fenced, Nothing, NoHost
    <2>5. claim'[p] \in {c, Nothing} /\ pc'[p] \in {"authorized", "off"} /\ memory'[p] = memory[p]
          /\ started' = started /\ firstHost' = firstHost
      BY <1>3, <2>2 DEF TypeOK, Authorize, Goto
    <2>6. Fenced(claim[p])' /\ Fenced(memory[p])'
      BY <2>4, <2>5 DEF PhoneFenced, Fenced
    <2>7. PhoneFenced(p)'
      BY <2>5, <2>6 DEF PhoneFenced, HoldingPoints
    <2> QED
      BY <2>1, <2>7
  <1>4. ASSUME NEW p \in Phones, Join(p) PROVE FenceInv'
    <2>1. ASSUME NEW q \in Phones, q # p PROVE PhoneFenced(q)'
      BY <1>4, <2>1, StillFenced DEF TypeOK, Join, Goto, generationVars
    <2>2. /\ held'[p] = started /\ started >= firstHost /\ granted'[p] = lastStarted
          /\ pc'[p] = "acquired" /\ claim'[p] = claim[p] /\ memory'[p] = memory[p]
          /\ started' = started /\ firstHost' = firstHost
      BY <1>4 DEF TypeOK, LockInv, Join, Goto, Current
    <2>3. Fenced(claim[p])' /\ Fenced(memory[p])'
      BY <2>2 DEF PhoneFenced, Fenced
    <2>4. PhoneFenced(p)'
      BY <2>2, <2>3 DEF PhoneFenced, TypeOK, LockInv
    <2> QED
      BY <2>1, <2>4
  <1>5. ASSUME NEW p \in Phones, SessionGone(p) PROVE FenceInv'
    <2>1. ASSUME NEW q \in Phones, q # p PROVE PhoneFenced(q)'
      BY <1>5, <2>1, StillFenced DEF TypeOK, SessionGone, Forget, Goto, generationVars
    <2>2. PhoneFenced(p)'
      BY <1>5, ForgottenFenced DEF SessionGone, generationVars
    <2> QED
      BY <2>1, <2>2
  <1>6. ASSUME NEW p \in Phones, BeginStart(p) PROVE FenceInv'
    <2>1. ASSUME NEW q \in Phones PROVE PhoneFenced(q)'
      BY <1>6, <2>1, StillFenced DEF TypeOK, HoldingPoints, BeginStart, Goto, phoneVars
    <2> QED
      BY <2>1
  <1>7. ASSUME NEW p \in Phones, StartHost(p) PROVE FenceInv'
    <2>1. ASSUME NEW q \in Phones, q # p PROVE PhoneFenced(q)'
      BY <1>7, <2>1, StillFenced DEF TypeOK, StartHost, Goto
    <2>2. /\ held'[p] = started + 1 /\ started' = started + 1 /\ firstHost' = firstHost
          /\ pc'[p] = "acquired" /\ claim'[p] = claim[p] /\ memory'[p] = memory[p]
          /\ firstHost <= started + 1 /\ granted'[p] = Current
      BY <1>7 DEF TypeOK, LockInv, StartHost, Goto
    <2>3. Current = started + 2 - firstHost
      BY <1>7, PhonesAssumption DEF TypeOK, LockInv, StartHost, Current
    <2>4. /\ memory[p].from \in Nat /\ claim[p].from \in Nat
          /\ started \in Nat /\ firstHost \in Nat
      BY DEF TypeOK, Claims, Hosts, NoHost
    <2>5. Fenced(claim[p])' /\ Fenced(memory[p])'
      BY <2>2, <2>4 DEF PhoneFenced, Fenced
    <2>6. PhoneFenced(p)'
      BY <2>2, <2>3, <2>4, <2>5 DEF PhoneFenced
    <2> QED
      BY <2>1, <2>6
  <1>8. ASSUME NEW p \in Phones, StartFails(p) PROVE FenceInv'
    <2>1. ASSUME NEW q \in Phones, q # p PROVE PhoneFenced(q)'
      BY <1>8, <2>1, StillFenced DEF TypeOK, StartFails, Forget, Goto, generationVars
    <2>2. PhoneFenced(p)'
      BY <1>8, ForgottenFenced DEF StartFails, generationVars
    <2> QED
      BY <2>1, <2>2
  <1>9. ASSUME NEW p \in Phones, Attach(p) PROVE FenceInv'
    <2>1. ASSUME NEW q \in Phones, q # p PROVE PhoneFenced(q)'
      BY <1>9, <2>1, StillFenced DEF TypeOK, Attach, Attached, Goto, generationVars
    <2>2. /\ claim'[p] = [claim[p] EXCEPT !.from = Resumed(p)]
          /\ memory'[p] = [gen |-> claim[p].gen, from |-> held[p]]
          /\ pc'[p] = "attached" /\ held'[p] = held[p] /\ granted'[p] = granted[p]
          /\ granted[p] = claim[p].gen /\ pc[p] = "acquired"
          /\ started' = started /\ firstHost' = firstHost
      BY <1>9 DEF TypeOK, Attach, Attached, Goto
    <2>3. claim[p] \in Claims /\ started \in Nat /\ firstHost \in Nat \ {0} /\ held[p] \in Nat
      BY DEF TypeOK, Hosts, NoHost
    <2>4. claim'[p].gen = claim[p].gen /\ claim'[p].from = Resumed(p)
      BY <2>2, <2>3 DEF Claims
    <2>5. Fenced(claim[p])'
      BY <2>2, <2>3, <2>4 DEF PhoneFenced, Fenced, Resumed, NoHost
    <2>6. Fenced(memory[p])'
      BY <2>2, <2>3 DEF PhoneFenced, Fenced, HoldingPoints
    <2>7. PhoneFenced(p)'
      BY <2>2, <2>4, <2>5, <2>6 DEF PhoneFenced, HoldingPoints
    <2> QED
      BY <2>1, <2>7
  <1>10. ASSUME NEW p \in Phones, ReplayFails(p) PROVE FenceInv'
    <2>1. ASSUME NEW q \in Phones, q # p PROVE PhoneFenced(q)'
      BY <1>10, <2>1, StillFenced DEF TypeOK, ReplayFails, Forget, Goto, generationVars
    <2>2. PhoneFenced(p)'
      BY <1>10, ForgottenFenced DEF ReplayFails, generationVars
    <2> QED
      BY <2>1, <2>2
  <1>11. ASSUME NEW p \in Phones, AttachFails(p) PROVE FenceInv'
    <2>1. ASSUME NEW q \in Phones PROVE PhoneFenced(q)'
      BY <1>11, <2>1, StillFenced DEF TypeOK, HoldingPoints, AttachFails, Goto, generationVars, phoneVars
    <2> QED
      BY <2>1
  <1>12. ASSUME NEW p \in Phones, Disconnect(p) PROVE FenceInv'
    <2>1. ASSUME NEW q \in Phones, q # p PROVE PhoneFenced(q)'
      BY <1>12, <2>1, StillFenced DEF TypeOK, Disconnect, Forget, Goto, generationVars
    <2>2. PhoneFenced(p)'
      BY <1>12, ForgottenFenced DEF Disconnect, generationVars
    <2> QED
      BY <2>1, <2>2
  <1>13. ASSUME NEW p \in Phones, Detach(p) PROVE FenceInv'
    <2>1. ASSUME NEW q \in Phones PROVE PhoneFenced(q)'
      BY <1>13, <2>1, StillFenced DEF TypeOK, HoldingPoints, Detach, Goto, generationVars, phoneVars
    <2> QED
      BY <2>1
  <1>14. ASSUME NEW p \in Phones, ForegroundRelease(p) PROVE FenceInv'
    <2>1. ASSUME NEW q \in Phones, q # p PROVE PhoneFenced(q)'
      BY <1>14, <2>1, StillFenced DEF TypeOK, ForegroundRelease, ReleaseNow, Forget, Goto
    <2>2. PhoneFenced(p)'
      BY <1>14, ForgottenFenced DEF ForegroundRelease, ReleaseNow
    <2> QED
      BY <2>1, <2>2
  <1>15. CASE BackgroundRelease
    <2>1. ASSUME NEW q \in Phones PROVE PhoneFenced(q)'
      BY <1>15, <2>1, StillFenced DEF TypeOK, HoldingPoints, BackgroundRelease, ReleaseNow, phoneVars
    <2> QED
      BY <2>1
  <1>16. CASE HostExits
    <2>1. ASSUME NEW q \in Phones PROVE PhoneFenced(q)'
      BY <1>16, <2>1, StillFenced DEF TypeOK, HoldingPoints, HostExits, generationVars, phoneVars
    <2> QED
      BY <2>1
  <1>17. CASE Restart
    <2>1. ASSUME NEW q \in Phones PROVE PhoneFenced(q)'
      <3>1. /\ claim'[q] = Nothing /\ memory'[q] = memory[q] /\ pc'[q] = "off"
            /\ started' = started /\ firstHost' = started + 1
        BY <1>17 DEF Restart
      <3>2. memory[q].from \in Nat /\ memory[q].from <= started /\ started \in Nat
        BY DEF TypeOK, Claims, Hosts, NoHost, PhoneFenced, Fenced
      <3>3. Fenced(claim[q])' /\ Fenced(memory[q])'
        BY <3>1, <3>2 DEF Fenced, Nothing, NoHost
      <3> QED
        BY <3>1, <3>3 DEF PhoneFenced, HoldingPoints
    <2> QED
      BY <2>1
  <1> QED
    BY <1>1, <1>2, <1>3, <1>4, <1>5, <1>6, <1>7, <1>8, <1>9,
       <1>10, <1>11, <1>12, <1>13, <1>14, <1>15, <1>16, <1>17
       DEF Next, PhoneStep, PollRefused

(* A phone that moves joins or leaves the connections that hold a Host.    *)
LEMMA HoldingMoves ==
  ASSUME TypeOK, NEW p \in Phones, NEW to, Goto(p, to)
  PROVE  Holding' = IF to \in HoldingPoints THEN Holding \cup {p} ELSE Holding \ {p}
PROOF
  <1>1. pc'[p] = to /\ \A q \in Phones : q # p => pc'[q] = pc[q]
    BY DEF TypeOK, Goto
  <1> QED
    BY <1>1 DEF Holding

(* The connections that hold a Host can be counted.                        *)
LEMMA HoldingCounted ==
  /\ IsFiniteSet(Holding) /\ Cardinality(Holding) \in Nat
  /\ \A p \in Phones :
       /\ Cardinality(Holding \cup {p}) =
            IF p \in Holding THEN Cardinality(Holding) ELSE Cardinality(Holding) + 1
       /\ Cardinality(Holding \ {p}) =
            IF p \in Holding THEN Cardinality(Holding) - 1 ELSE Cardinality(Holding)
  /\ Cardinality(Holding) = 0 <=> Holding = {}
PROOF
  <1>1. IsFiniteSet(Holding)
    BY PhonesAssumption, FS_Subset DEF Holding
  <1> QED
    BY <1>1, FS_CardinalityType, FS_AddElement, FS_RemoveElement, FS_EmptySet

(* The users counted are those there are.                                  *)
LEMMA CountStep ==
  TypeOK /\ LockInv /\ CountInv /\ [Next]_vars => CountInv'
PROOF
  <1> SUFFICES ASSUME TypeOK, LockInv, CountInv, [Next]_vars
               PROVE  CountInv'
    OBVIOUS
  <1> USE BoundsAssumption, PhonesAssumption DEF CountInv
  <1>1. CASE UNCHANGED vars
    BY <1>1 DEF Holding, vars, generationVars, phoneVars
  <1>2. ASSUME NEW p \in Phones, Connect(p) PROVE CountInv'
    <2>1. Holding' = Holding
      BY <1>2, HoldingMoves DEF TypeOK, Holding, HoldingPoints, Connect, Goto, generationVars, phoneVars
    <2> QED
      BY <1>2, <2>1, HoldingCounted DEF TypeOK, Holding, Connect, Goto, generationVars, phoneVars
  <1>3. ASSUME NEW p \in Phones, Authorize(p) PROVE CountInv'
    <2>1. Holding' = Holding
      BY <1>3, HoldingMoves DEF TypeOK, Holding, HoldingPoints, Authorize, Goto, generationVars
    <2> QED
      BY <1>3, <2>1, HoldingCounted DEF TypeOK, Holding, Authorize, Goto, generationVars
  <1>4. ASSUME NEW p \in Phones, Join(p) PROVE CountInv'
    <2>1. Holding' = Holding \cup {p} /\ p \notin Holding
      BY <1>4, HoldingMoves DEF TypeOK, Holding, HoldingPoints, Join, Goto, generationVars
    <2> QED
      BY <1>4, <2>1, HoldingCounted DEF TypeOK, Holding, Join, Goto, generationVars
  <1>5. ASSUME NEW p \in Phones, SessionGone(p) PROVE CountInv'
    <2>1. Holding' = Holding /\ p \notin Holding
      BY <1>5, HoldingMoves DEF TypeOK, Holding, HoldingPoints, SessionGone, Forget, Goto, generationVars
    <2> QED
      BY <1>5, <2>1, HoldingCounted DEF TypeOK, Holding, SessionGone, Forget, Goto, generationVars
  <1>6. ASSUME NEW p \in Phones, BeginStart(p) PROVE CountInv'
    <2>1. Holding' = Holding
      BY <1>6, HoldingMoves DEF TypeOK, Holding, HoldingPoints, BeginStart, Goto, phoneVars
    <2>2. held' = held /\ ended' = ended /\ pending' = pending /\ users' = 0 /\ host' = NoHost
      BY <1>6 DEF BeginStart, phoneVars
    <2>3. ended = {} => host = NoHost /\ users = 0
      BY <1>6 DEF BeginStart, LockInv
    <2> QED
      BY <2>1, <2>2, <2>3
  <1>7. ASSUME NEW p \in Phones, StartHost(p) PROVE CountInv'
    <2>1. Holding' = Holding \cup {p} /\ p \notin Holding
      BY <1>7, HoldingMoves DEF TypeOK, Holding, HoldingPoints, StartHost, Goto
    <2>2. users = 0 /\ users' = 1 /\ ended' = ended /\ pending' = pending
      BY <1>7, PhonesAssumption DEF LockInv, StartHost
    <2>3. ended = {} => Holding = {} /\ pending = 0
      BY <2>2, HoldingCounted DEF TypeOK
    <2>4. held'[p] = host'
      BY <1>7 DEF TypeOK, StartHost
    <2> QED
      BY <2>1, <2>2, <2>3, <2>4, HoldingCounted
  <1>8. ASSUME NEW p \in Phones, StartFails(p) PROVE CountInv'
    <2>1. Holding' = Holding /\ p \notin Holding
      BY <1>8, HoldingMoves DEF TypeOK, Holding, HoldingPoints, StartFails, Forget, Goto, generationVars
    <2> QED
      BY <1>8, <2>1, HoldingCounted DEF TypeOK, Holding, StartFails, Forget, Goto, generationVars
  <1>9. ASSUME NEW p \in Phones, Attach(p) PROVE CountInv'
    <2>1. Holding' = Holding
      BY <1>9, HoldingMoves DEF TypeOK, Holding, HoldingPoints, Attach, Attached, Goto, generationVars
    <2> QED
      BY <1>9, <2>1, HoldingCounted DEF TypeOK, Holding, Attach, Attached, Goto, generationVars
  <1>10. ASSUME NEW p \in Phones, ReplayFails(p) PROVE CountInv'
    <2>1. Holding' = Holding \ {p} /\ p \in Holding
      BY <1>10, HoldingMoves DEF TypeOK, Holding, HoldingPoints, ReplayFails, Forget, Goto, generationVars
    <2> QED
      BY <1>10, <2>1, HoldingCounted DEF TypeOK, Holding, ReplayFails, Forget, Goto, generationVars
  <1>11. ASSUME NEW p \in Phones, AttachFails(p) PROVE CountInv'
    <2>1. Holding' = Holding
      BY <1>11, HoldingMoves DEF TypeOK, Holding, HoldingPoints, AttachFails, Goto, generationVars, phoneVars
    <2> QED
      BY <1>11, <2>1, HoldingCounted DEF TypeOK, Holding, AttachFails, Goto, generationVars, phoneVars
  <1>12. ASSUME NEW p \in Phones, Disconnect(p) PROVE CountInv'
    <2>1. CASE pc[p] = "attached"
      <3>1. Holding' = Holding \ {p} /\ p \in Holding
        BY <1>12, <2>1, HoldingMoves DEF Holding, HoldingPoints, Disconnect
      <3> QED
        BY <1>12, <2>1, <3>1, HoldingCounted DEF TypeOK, Holding, Disconnect, Forget
    <2>2. CASE pc[p] = "idle"
      <3>1. Holding' = Holding
        BY <1>12, <2>2, HoldingMoves DEF Holding, HoldingPoints, Disconnect
      <3> QED
        BY <1>12, <2>2, <3>1, HoldingCounted DEF TypeOK, Holding, HoldingPoints, Disconnect, Forget
    <2> QED
      BY <1>12, <2>1, <2>2 DEF Disconnect
  <1>13. ASSUME NEW p \in Phones, Detach(p) PROVE CountInv'
    <2>1. Holding' = Holding
      BY <1>13, HoldingMoves DEF TypeOK, Holding, HoldingPoints, Detach, Goto, generationVars, phoneVars
    <2> QED
      BY <1>13, <2>1, HoldingCounted DEF TypeOK, Holding, Detach, Goto, generationVars, phoneVars
  <1>14. ASSUME NEW p \in Phones, ForegroundRelease(p) PROVE CountInv'
    <2>1. Holding' = Holding \ {p} /\ p \in Holding
      BY <1>14, HoldingMoves DEF Holding, HoldingPoints, ForegroundRelease
    <2>2. /\ ended' = ended /\ pending' = pending
          /\ users > 1 => users' = users - 1 /\ host' = host
          /\ ~(users > 1) => users' = 0
          /\ \A q \in Holding' : held'[q] = held[q]
      BY <1>14, <2>1 DEF TypeOK, Holding, ForegroundRelease, ReleaseNow, Forget
    <2>3. Cardinality(Holding') = Cardinality(Holding) - 1 /\ Cardinality(Holding) \in Nat \ {0}
      BY <2>1, HoldingCounted DEF Holding
    <2>4. CASE users > 1
      BY <2>1, <2>2, <2>3, <2>4 DEF TypeOK
    <2>5. CASE ~(users > 1)
      <3>1. ended = {} => Cardinality(Holding) = 1 /\ pending = 0
        BY <2>3, <2>5 DEF TypeOK
      <3>2. ended = {} => Cardinality(Holding') = 0
        BY <2>3, <3>1
      <3>3. ended = {} => Holding' = {}
        BY <3>2, <2>1, HoldingCounted, FS_EmptySet, FS_RemoveElement
      <3> QED
        BY <2>2, <2>5, <3>1, <3>2, <3>3
    <2> QED
      BY <2>4, <2>5
  <1>15. CASE BackgroundRelease
    <2>1. Holding' = Holding
      BY <1>15 DEF Holding, BackgroundRelease
    <2>2. /\ ended' = ended /\ pending' = pending - 1 /\ pending > 0 /\ held' = held
          /\ users > 1 => users' = users - 1 /\ host' = host
          /\ ~(users > 1) => users' = 0
      BY <1>15 DEF BackgroundRelease, ReleaseNow, phoneVars
    <2>3. CASE users > 1
      BY <2>1, <2>2, <2>3, HoldingCounted DEF TypeOK
    <2>4. CASE ~(users > 1)
      <3>1. ended = {} => Cardinality(Holding) = 0 /\ pending = 1
        BY <2>2, <2>4, HoldingCounted DEF TypeOK
      <3> QED
        BY <2>1, <2>2, <2>4, <3>1, HoldingCounted
    <2> QED
      BY <2>3, <2>4
  <1>16. CASE HostExits
    BY <1>16 DEF HostExits
  <1>17. CASE Restart
    <2>1. Holding' = {}
      BY <1>17 DEF Restart, Holding, HoldingPoints
    <2> QED
      BY <1>17, <2>1, FS_EmptySet DEF Restart
  <1> QED
    BY <1>1, <1>2, <1>3, <1>4, <1>5, <1>6, <1>7, <1>8, <1>9,
       <1>10, <1>11, <1>12, <1>13, <1>14, <1>15, <1>16, <1>17
       DEF Next, PhoneStep, PollRefused

(* Init establishes the invariant.                                         *)
LEMMA TmuxStart == Init => TmuxInv
PROOF
  <1> SUFFICES ASSUME Init PROVE TmuxInv
    OBVIOUS
  <1> USE BoundsAssumption, PhonesAssumption
  <1>1. Nothing \in Claims /\ Fenced(Nothing)
    BY DEF Init, Nothing, Claims, NoHost, Fenced
  <1>2. started \in 0 .. MaxHosts /\ firstHost \in 1 .. MaxHosts + 1
    BY DEF Init
  <1>3. TypeOK
    BY <1>1, <1>2 DEF Init, TypeOK, NoHost
  <1>4. LockInv
    BY DEF Init, LockInv, NoHost
  <1>5. FenceInv
    BY <1>1 DEF Init, FenceInv, PhoneFenced, HoldingPoints
  <1>6. Holding = {}
    BY DEF Init, Holding, HoldingPoints
  <1>7. CountInv
    BY <1>6, FS_EmptySet DEF Init, CountInv
  <1> QED
    BY <1>3, <1>4, <1>5, <1>7 DEF TmuxInv

(* The invariant of the shared Hosts: the mutex, the numbering of the      *)
(* generations, what the phones claim and, while no tmux client has exited *)
(* by itself, the count of the users (TmuxSessionSource).                  *)
THEOREM TmuxInvariant == Spec => []TmuxInv
PROOF
  <1>1. TmuxInv /\ [Next]_vars => TmuxInv'
    BY TypeStep, LockStep, FenceStep, CountStep DEF TmuxInv
  <1> QED
    BY TmuxStart, <1>1, PTL DEF Spec

(* Nobody's Host is taken away: while no tmux client exits by itself, a    *)
(* phone that is attached or about to be is at the Host of the session,    *)
(* whatever the releases of the others do.                                 *)
THEOREM HostKept == Spec => []KeptForUsers
PROOF
  <1>1. TmuxInv => KeptForUsers
    BY DEF TmuxInv, CountInv, KeptForUsers, Holding, HoldingPoints
  <1> QED
    BY TmuxInvariant, <1>1, PTL

(* The generations fence the watermarks of this listener's life: a phone   *)
(* resumes only at the Host its watermark counts, though its Attach was    *)
(* authorized before it got the mutex.                                     *)
THEOREM WatermarksFenced == Spec => []FencedWithinListener
PROOF
  <1>1. TmuxInv => FencedWithinListener
    <2> SUFFICES ASSUME TmuxInv, NEW p \in Phones, pc[p] = "attached", claim[p].from >= firstHost
                 PROVE  claim[p].from = held[p]
      BY DEF FencedWithinListener
    <2>1. PhoneFenced(p) /\ TypeOK
      BY DEF TmuxInv, FenceInv
    <2>2. claim[p].from \in Nat /\ held[p] \in Nat /\ firstHost \in Nat
      BY <2>1 DEF TypeOK, Claims, Hosts, NoHost
    <2> QED
      BY <2>1, <2>2 DEF PhoneFenced, Fenced, HoldingPoints
  <1> QED
    BY TmuxInvariant, <1>1, PTL
=============================================================================
