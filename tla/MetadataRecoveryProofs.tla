------------------------ MODULE MetadataRecoveryProofs ------------------------
(***************************************************************************)
(* A restore overwrites only what it has backed up, and publishes only the *)
(* newest last-good copies, for any number of windows, files, commits,     *)
(* crashes and power cuts.                                                 *)
(***************************************************************************)
EXTENDS MetadataRecovery, NaturalsInduction, WellFoundedInduction, TLAPS

(* A number of entries left to do has a first one.                         *)
LEMMA HasFirst ==
  ASSUME NEW S \in SUBSET Nat, S # {}
  PROVE  \E i \in S : \A j \in S : i <= j
PROOF
  <1>1. IsWellFoundedOn(OpToRel(<, Nat), Nat)
    BY NatLessThanWellFounded
  <1>2. PICK i \in S : \A j \in S : ~(<<j, i>> \in OpToRel(<, Nat))
    BY <1>1, WFMin
  <1>3. \A j \in S : ~(j < i)
    BY <1>2 DEF OpToRel
  <1> QED
    BY <1>3

(* The places of the kinds, and how far a window is with them.             *)
LEMMA PlacesAreNumbers ==
  /\ DOMAIN Kinds \subseteq Nat
  /\ TypeOK => \A a \in Apps : app[a].done \in Nat
PROOF
  <1>1. Len(Kinds) \in Nat /\ DOMAIN Kinds = 1..Len(Kinds)
    BY RecoveryAssumption
  <1>2. ASSUME TypeOK, NEW a \in Apps PROVE app[a].done \in Nat
    <2>1. app[a] \in Desktop
      BY <1>2 DEF TypeOK
    <2> QED
      BY <1>1, <2>1 DEF Desktop
  <1> QED
    BY <1>1, <1>2

LEMMA LaterEntry ==
  ASSUME TypeOK, NEW a \in Apps, NEW n \in Remaining(a), NEW i \in DOMAIN Kinds, i > n
  PROVE  i > app[a].done /\ i # n
PROOF
  <1>1. app[a].done \in Nat /\ i \in Nat /\ n \in Nat /\ n > app[a].done
    BY PlacesAreNumbers DEF Remaining
  <1> QED
    BY <1>1

(* NextEntry is the first of the entries a window has not come to.         *)
LEMMA NextEntryIsFirst ==
  ASSUME TypeOK, NEW a \in Apps, Remaining(a) # {}
  PROVE  /\ NextEntry(a) \in Remaining(a)
         /\ \A j \in Remaining(a) : NextEntry(a) <= j
PROOF
  <1>1. Remaining(a) \subseteq Nat
    BY RecoveryAssumption DEF Remaining
  <1> QED
    BY <1>1, HasFirst DEF NextEntry

(* A window moves on and keeps its locals.                                 *)
LEMMA MovedTo ==
  ASSUME TypeOK, NEW a \in Apps, NEW x \in Points, app' = [app EXCEPT ![a].pc = x]
  PROVE  /\ app' \in [Apps -> Desktop]
         /\ \A b \in Apps : b # a => app'[b] = app[b]
         /\ app'[a].pc = x /\ app'[a].plan = app[a].plan /\ app'[a].files = app[a].files
         /\ app'[a].current = app[a].current /\ app'[a].good = app[a].good
         /\ app'[a].done = app[a].done
PROOF
  <1>1. app[a] \in Desktop
    BY DEF TypeOK
  <1>2. app' = [app EXCEPT ![a] = [app[a] EXCEPT !.pc = x]]
    BY DEF TypeOK
  <1>3. /\ [app[a] EXCEPT !.pc = x] \in Desktop
        /\ [app[a] EXCEPT !.pc = x].pc = x
        /\ [app[a] EXCEPT !.pc = x].plan = app[a].plan
        /\ [app[a] EXCEPT !.pc = x].files = app[a].files
        /\ [app[a] EXCEPT !.pc = x].current = app[a].current
        /\ [app[a] EXCEPT !.pc = x].good = app[a].good
        /\ [app[a] EXCEPT !.pc = x].done = app[a].done
    BY <1>1 DEF Desktop
  <1> QED
    BY <1>2, <1>3 DEF TypeOK

(* A window moves on and starts over with its entries.                     *)
LEMMA RestartedAt ==
  ASSUME TypeOK, NEW a \in Apps, NEW x \in Points,
         app' = [app EXCEPT ![a].pc = x, ![a].done = 0]
  PROVE  /\ app' \in [Apps -> Desktop]
         /\ \A b \in Apps : b # a => app'[b] = app[b]
         /\ app'[a].pc = x /\ app'[a].plan = app[a].plan /\ app'[a].files = app[a].files
         /\ app'[a].current = app[a].current /\ app'[a].good = app[a].good
         /\ app'[a].done = 0
PROOF
  <1>1. app[a] \in Desktop /\ Len(Kinds) \in Nat
    BY RecoveryAssumption DEF TypeOK
  <1> DEFINE moved == [app[a] EXCEPT !.pc = x]
             next  == [moved EXCEPT !.done = 0]
  <1>2. app' = [app EXCEPT ![a] = next]
    BY DEF TypeOK
  <1>3. /\ moved \in Desktop
        /\ moved.pc = x /\ moved.plan = app[a].plan /\ moved.files = app[a].files
        /\ moved.current = app[a].current /\ moved.good = app[a].good
    BY <1>1 DEF Desktop
  <1> HIDE DEF moved
  <1>4. /\ next \in Desktop
        /\ next.pc = x /\ next.plan = app[a].plan /\ next.files = app[a].files
        /\ next.current = app[a].current /\ next.good = app[a].good /\ next.done = 0
    BY <1>1, <1>3 DEF Desktop
  <1> HIDE DEF next
  <1> QED
    BY <1>2, <1>4 DEF TypeOK

(* A window comes to its next entry.                                       *)
LEMMA EntryDone ==
  ASSUME TypeOK, NEW a \in Apps, Remaining(a) # {},
         app' = [app EXCEPT ![a].done = NextEntry(a)]
  PROVE  /\ app' \in [Apps -> Desktop]
         /\ \A b \in Apps : b # a => app'[b] = app[b]
         /\ app'[a].pc = app[a].pc /\ app'[a].plan = app[a].plan /\ app'[a].files = app[a].files
         /\ app'[a].current = app[a].current /\ app'[a].good = app[a].good
         /\ app'[a].done = NextEntry(a)
PROOF
  <1>1. app[a] \in Desktop
    BY DEF TypeOK
  <1> DEFINE next == [app[a] EXCEPT !.done = NextEntry(a)]
  <1>2. app' = [app EXCEPT ![a] = next]
    BY DEF TypeOK
  <1>3. NextEntry(a) \in 0..Len(Kinds)
    BY NextEntryIsFirst, RecoveryAssumption DEF Remaining
  <1>4. /\ next \in Desktop
        /\ next.pc = app[a].pc /\ next.plan = app[a].plan /\ next.files = app[a].files
        /\ next.current = app[a].current /\ next.good = app[a].good
        /\ next.done = NextEntry(a)
    BY <1>1, <1>3 DEF Desktop
  <1> HIDE DEF next
  <1> QED
    BY <1>2, <1>4 DEF TypeOK

(* A window that rests is in none of the operations.                       *)
LEMMA RestingIs ==
  ASSUME NEW x \in Points
  PROVE  /\ Resting(x) \in Desktop
         /\ Resting(x).pc = x /\ Resting(x).files = {} /\ Resting(x).done = 0
PROOF
  <1>1. Len(Kinds) \in Nat /\ MaxPlans \in Nat /\ NoFiles \in Bytes /\ NoFiles \in Copies
    BY RecoveryAssumption DEF NoFiles, Bytes, Copies
  <1> QED
    BY <1>1 DEF Resting, Desktop

(* What a window that starts takes from the journal it finds.              *)
LEMMA ReadJournalIs ==
  ASSUME TypeOK
  PROVE  /\ Recovering \in Desktop
         /\ Recovering.pc = "recovering" /\ Recovering.plan = journal.plan
         /\ Recovering.files = journal.entries /\ Recovering.good = journal.good
         /\ Recovering.done = 0
PROOF
  <1>1. Len(Kinds) \in Nat /\ MaxPlans \in Nat /\ NoFiles \in Bytes /\ NoFiles \in Copies
    BY RecoveryAssumption DEF NoFiles, Bytes, Copies
  <1>2. /\ journal.plan \in 0..MaxPlans /\ journal.entries \in SUBSET Files
        /\ journal.good \in Copies /\ 0 \in 0..Len(Kinds)
    BY <1>1 DEF TypeOK, Journals
  <1> QED
    BY <1>1, <1>2 DEF Recovering, Desktop, Points, Journaled

(* rebuild_indexes remembers the files it has read.                        *)
LEMMA IndexPlanned ==
  ASSUME TypeOK, NEW a \in Apps, PlanIndex(a)
  PROVE  /\ app' \in [Apps -> Desktop]
         /\ \A b \in Apps : b # a => app'[b] = app[b]
         /\ app'[a].pc = "index planned" /\ app'[a].plan = app[a].plan
         /\ app'[a].files = app[a].files /\ app'[a].current = primary
         /\ app'[a].good = app[a].good /\ app'[a].done = app[a].done
PROOF
  <1>1. app[a] \in Desktop /\ primary \in Bytes
    BY DEF TypeOK
  <1> DEFINE moved == [app[a] EXCEPT !.pc = "index planned"]
             next  == [moved EXCEPT !.current = primary]
  <1>2. app' = [app EXCEPT ![a] = next]
    BY DEF TypeOK, PlanIndex
  <1>3. /\ moved \in Desktop
        /\ moved.pc = "index planned" /\ moved.plan = app[a].plan /\ moved.files = app[a].files
        /\ moved.good = app[a].good /\ moved.done = app[a].done
    BY <1>1 DEF Desktop, Points, Journaled
  <1> HIDE DEF moved
  <1>4. /\ next \in Desktop
        /\ next.pc = moved.pc /\ next.plan = moved.plan /\ next.files = moved.files
        /\ next.current = primary /\ next.good = moved.good /\ next.done = moved.done
    BY <1>1, <1>3 DEF Desktop
  <1> HIDE DEF next
  <1> QED
    BY <1>2, <1>3, <1>4 DEF TypeOK

(* Every step keeps the types.                                             *)
LEMMA TypeStep ==
  TypeOK /\ LockInv /\ [Next]_vars => TypeOK'
PROOF
  <1> SUFFICES ASSUME TypeOK, LockInv, [Next]_vars
               PROVE  TypeOK'
    OBVIOUS
  <1> USE RecoveryAssumption
  <1>0. NoJournal \in Journals
    BY DEF NoJournal, NoFiles, Journals, Copies
  <1>1. CASE UNCHANGED vars
    BY <1>1 DEF TypeOK, vars
  <1>2. ASSUME NEW f \in Files, Commit(f) PROVE TypeOK'
    <2>1. primary[f] + 1 \in Nat
      BY <1>2 DEF TypeOK, Commit, Readable, Bytes
    <2>2. primary' \in Bytes
      BY <1>2, <2>1 DEF TypeOK, Commit, Bytes
    <2>3. lastGood' \in Copies
      BY <1>2, <2>1 DEF TypeOK, Commit, Copies
    <2> QED
      BY <1>2, <2>2, <2>3 DEF TypeOK, Commit
  <1>3. ASSUME NEW f \in Files, Break(f) PROVE TypeOK'
    BY <1>3 DEF TypeOK, Break, Bytes
  <1>4. ASSUME NEW f \in Recreated, Create(f) PROVE TypeOK'
    <2>1. f \in Files /\ Empty \in Nat
      BY DEF Empty
    <2>2. primary' \in Bytes
      BY <1>4, <2>1 DEF TypeOK, Create, Bytes
    <2>3. lastGood' \in Copies
      BY <1>4, <2>1 DEF TypeOK, Create, Copies
    <2> QED
      BY <1>4, <2>2, <2>3 DEF TypeOK, Create
  <1>5. CASE DirectorySynced
    BY <1>5 DEF TypeOK, DirectorySynced
  <1>6. CASE PowerCut
    BY <1>6, RestingIs DEF TypeOK, PowerCut, Points
  <1>7. ASSUME NEW a \in Apps, Crash(a) PROVE TypeOK'
    BY <1>7, RestingIs DEF TypeOK, Crash, Points
  <1>8. ASSUME NEW a \in Apps, Start(a) PROVE TypeOK'
    <2>1. Recovering \in Desktop
      BY ReadJournalIs
    <2>2. Resting("idle") \in Desktop
      BY RestingIs DEF Points
    <2>3. app' \in [Apps -> Desktop]
      BY <1>8, <2>1, <2>2 DEF TypeOK, Start
    <2> QED
      BY <1>8, <2>3 DEF TypeOK, Start
  <1>9. ASSUME NEW a \in Apps, BeginRecovery(a) PROVE TypeOK'
    BY <1>9 DEF TypeOK, BeginRecovery
  <1>10. ASSUME NEW a \in Apps, Plan(a) PROVE TypeOK'
    <2>1. [pc |-> "planned", plan |-> plans + 1, files |-> Unreadable, current |-> primary,
           good |-> lastGood, done |-> 0] \in Desktop
      <3>1. plans + 1 \in 0..MaxPlans /\ 0 \in 0..Len(Kinds) /\ Unreadable \in SUBSET Files
        BY <1>10 DEF Plan, TypeOK, Unreadable
      <3> QED
        BY <3>1 DEF TypeOK, Desktop, Points
    <2>2. app' \in [Apps -> Desktop]
      BY <1>10, <2>1 DEF TypeOK, Plan
    <2> QED
      BY <1>10, <2>2 DEF TypeOK, Plan
  <1>11. ASSUME NEW a \in Apps, BackUp(a) PROVE TypeOK'
    <2>1. app' \in [Apps -> Desktop]
      BY <1>11, MovedTo DEF BackUp, Points
    <2>2. [f \in Files |-> IF f \in app[a].files THEN app[a].current[f]
                           ELSE backups[app[a].plan][f]] \in Bytes
      <3>1. app[a].plan \in 1..MaxPlans /\ app[a].current \in Bytes
        BY <1>11 DEF TypeOK, LockInv, BackUp, At, Desktop
      <3> QED
        BY <3>1 DEF TypeOK, Bytes
    <2>3. backups' \in [1..MaxPlans -> Bytes]
      BY <1>11, <2>2 DEF TypeOK, BackUp
    <2> QED
      BY <1>11, <2>1, <2>3 DEF TypeOK, BackUp
  <1>12. ASSUME NEW a \in Apps, Refuse(a) PROVE TypeOK'
    BY <1>12, RestingIs DEF TypeOK, Refuse, Points
  <1>13. ASSUME NEW a \in Apps PROVE JournalOf(a) \in Journals
    BY DEF TypeOK, JournalOf, Journals, Desktop
  <1>14. ASSUME NEW a \in Apps, WriteJournal(a) PROVE TypeOK'
    <2>1. app' \in [Apps -> Desktop]
      BY <1>14, MovedTo DEF WriteJournal, Points, Journaled
    <2> QED
      BY <1>13, <1>14, <2>1 DEF TypeOK, WriteJournal
  <1>15. ASSUME NEW a \in Apps, Publish(a) PROVE TypeOK'
    <2>1. app' \in [Apps -> Desktop]
      BY <1>15, EntryDone DEF Publish
    <2>2. app[a].good \in Copies /\ Kinds[NextEntry(a)] \in Files
      BY <1>15, NextEntryIsFirst DEF TypeOK, Desktop, Publish, Remaining
    <2>3. primary' \in Bytes
      <3>1. app[a].good[Kinds[NextEntry(a)]] \in Int
        BY <2>2 DEF Copies
      <3>2. ASSUME NEW f \in Files, NEW n \in Int PROVE [primary EXCEPT ![f] = n] \in Bytes
        BY DEF TypeOK, Bytes
      <3> QED
        BY <1>15, <2>2, <3>1, <3>2 DEF Publish
    <2> QED
      BY <1>13, <1>15, <2>1, <2>3 DEF TypeOK, Publish
  <1>16. ASSUME NEW a \in Apps, PublishFails(a) PROVE TypeOK'
    <2>1. app' \in [Apps -> Desktop]
      BY <1>16, RestartedAt DEF PublishFails, Points, Journaled
    <2> QED
      BY <1>16, <2>1 DEF TypeOK, PublishFails
  <1>17. ASSUME NEW a \in Apps, Verified(a) PROVE TypeOK'
    <2>1. app' \in [Apps -> Desktop]
      BY <1>17, RestartedAt DEF Verified, Points, Journaled
    <2> QED
      BY <1>17, <2>1 DEF TypeOK, Verified
  <1>18. ASSUME NEW a \in Apps, PlanIndex(a) PROVE TypeOK'
    <2>1. app' \in [Apps -> Desktop]
      BY <1>18, IndexPlanned
    <2> QED
      BY <1>18, <2>1 DEF TypeOK, PlanIndex
  <1>19. ASSUME NEW a \in Apps, RepairIndex(a) PROVE TypeOK'
    <2>1. app' \in [Apps -> Desktop]
      BY <1>19, MovedTo DEF RepairIndex, Points, Journaled
    <2> QED
      BY <1>19, <2>1 DEF TypeOK, RepairIndex
  <1>20. ASSUME NEW a \in Apps, IndexFails(a) PROVE TypeOK'
    <2>1. app' \in [Apps -> Desktop]
      BY <1>20, MovedTo DEF IndexFails, Points, Journaled
    <2> QED
      BY <1>20, <2>1 DEF TypeOK, IndexFails
  <1>21. ASSUME NEW a \in Apps, Complete(a) PROVE TypeOK'
    BY <1>0, <1>21, RestingIs DEF TypeOK, Complete, Points
  <1>22. ASSUME NEW a \in Apps, RollBack(a) PROVE TypeOK'
    <2>1. app' \in [Apps -> Desktop]
      BY <1>22, EntryDone DEF RollBack
    <2>2. app[a].plan \in 1..MaxPlans /\ Kinds[NextEntry(a)] \in Files
      BY <1>22, NextEntryIsFirst DEF LockInv, Journaled, RollBack, Rolling, At, Remaining, TypeOK,
         Desktop
    <2>3. primary' \in Bytes
      BY <1>22, <2>2 DEF TypeOK, RollBack, Bytes
    <2> QED
      BY <1>22, <2>1, <2>3 DEF TypeOK, RollBack
  <1>23. ASSUME NEW a \in Apps, RolledBack(a) PROVE TypeOK'
    BY <1>0, <1>23, RestingIs DEF TypeOK, RolledBack, Points
  <1>24. ASSUME NEW a \in Apps, RollBackFails(a) PROVE TypeOK'
    BY <1>24, RestingIs DEF TypeOK, RollBackFails, Points
  <1> QED
    BY <1>1, <1>2, <1>3, <1>4, <1>5, <1>6, <1>7, <1>8, <1>9, <1>10, <1>11, <1>12, <1>14, <1>15,
       <1>16, <1>17, <1>18, <1>19, <1>20, <1>21, <1>22, <1>23, <1>24 DEF Next, AppNext

(* A step of one window leaves the others where they are.                  *)
LEMMA OwnStep ==
  ASSUME TypeOK, NEW a \in Apps, AppNext(a)
  PROVE  \A b \in Apps : b # a => app'[b] = app[b]
PROOF
  <1>1. CASE BackUp(a) \/ WriteJournal(a) \/ RepairIndex(a) \/ IndexFails(a)
    BY <1>1, MovedTo DEF BackUp, WriteJournal, RepairIndex, IndexFails, Points, Journaled
  <1>2. CASE PublishFails(a) \/ Verified(a)
    BY <1>2, RestartedAt DEF PublishFails, Verified, Points, Journaled
  <1>3. CASE Publish(a) \/ RollBack(a)
    BY <1>3, EntryDone DEF Publish, RollBack
  <1>4. CASE Crash(a) \/ Start(a) \/ BeginRecovery(a) \/ Plan(a) \/ Refuse(a)
    BY <1>4 DEF TypeOK, Crash, Start, BeginRecovery, Plan, Refuse
  <1>5. CASE Complete(a) \/ RolledBack(a) \/ RollBackFails(a)
    BY <1>5 DEF TypeOK, Complete, RolledBack, RollBackFails
  <1>6. CASE PlanIndex(a)
    BY <1>6, IndexPlanned
  <1> QED
    BY <1>1, <1>2, <1>3, <1>4, <1>5, <1>6 DEF AppNext

(* A step is the window's own, or the power fails, or it stays.            *)
LEMMA Local ==
  ASSUME TypeOK, [Next]_vars, NEW b \in Apps
  PROVE  AppNext(b) \/ app'[b] = Resting("down") \/ app'[b] = app[b]
PROOF
  <1>1. CASE PowerCut
    BY <1>1 DEF PowerCut
  <1>2. ASSUME NEW a \in Apps, AppNext(a), a # b PROVE app'[b] = app[b]
    BY <1>2, OwnStep
  <1> QED
    BY <1>1, <1>2 DEF Next, vars, Commit, Break, Create, DirectorySynced

(* While a window has the lock, nobody else changes files or backups, or   *)
(* takes the lock from it.                                                 *)
LEMMA Exclusive ==
  ASSUME TypeOK, LockInv, [Next]_vars, NEW b \in Apps, lock = b
  PROVE  \/ AppNext(b)
         \/ app'[b] = Resting("down")
         \/ app'[b] = app[b] /\ UNCHANGED <<lock, primary, backups, lastGood>>
PROOF
  <1>1. lock # Free
    BY RecoveryAssumption
  <1>2. CASE PowerCut
    BY <1>2 DEF PowerCut
  <1>3. ASSUME NEW a \in Apps, AppNext(a), a # b
        PROVE  UNCHANGED <<lock, primary, backups, lastGood>>
    <2>1. CASE Crash(a) \/ Start(a) \/ BeginRecovery(a) \/ Plan(a) \/ BackUp(a) \/ Refuse(a)
      BY <1>1, <1>3, <2>1 DEF Crash, Start, BeginRecovery, Plan, BackUp, Refuse
    <2>2. CASE WriteJournal(a) \/ Publish(a) \/ PublishFails(a) \/ Verified(a)
      BY <1>3, <2>2 DEF LockInv, At, WriteJournal, Publish, PublishFails, Verified
    <2>3. CASE PlanIndex(a) \/ RepairIndex(a) \/ IndexFails(a) \/ Complete(a)
      BY <1>1, <2>3 DEF PlanIndex, RepairIndex, IndexFails, Complete
    <2>4. CASE RollBack(a) \/ RolledBack(a) \/ RollBackFails(a)
      BY <1>3, <2>4 DEF RollBack, RolledBack, RollBackFails, Rolling
    <2> QED
      BY <1>3, <2>1, <2>2, <2>3, <2>4 DEF AppNext
  <1>4. ASSUME NEW a \in Apps, AppNext(a), a # b PROVE app'[b] = app[b]
    BY <1>4, OwnStep
  <1> QED
    BY <1>1, <1>2, <1>3, <1>4 DEF Next, vars, Commit, Break, Create, DirectorySynced

(* Where each of its own steps takes a window.                             *)
LEMMA Arrivals ==
  ASSUME TypeOK, NEW a \in Apps, AppNext(a)
  PROVE  \/ app'[a].pc \in {"down", "idle"} /\ app'[a].files = {}
         \/ app'[a] = app[a] /\ BeginRecovery(a)
         \/ app'[a].pc = "recovering" /\ Start(a)
         \/ app'[a].pc = "planned" /\ Plan(a)
         \/ app'[a].pc = "backed up" /\ BackUp(a)
         \/ app'[a].pc = "publishing" /\ (WriteJournal(a) \/ Publish(a))
         \/ app'[a].pc = "rolling" /\ (PublishFails(a) \/ IndexFails(a))
         \/ app'[a].pc = "indexing" /\ Verified(a)
         \/ app'[a].pc = "index planned" /\ PlanIndex(a)
         \/ app'[a].pc = "indexed" /\ RepairIndex(a)
         \/ app'[a].pc \in {"rolling", "recovering"} /\ RollBack(a)
PROOF
  <1>1. CASE BackUp(a) \/ WriteJournal(a) \/ RepairIndex(a) \/ IndexFails(a)
    BY <1>1, MovedTo DEF BackUp, WriteJournal, RepairIndex, IndexFails, Points, Journaled
  <1>2. CASE PublishFails(a) \/ Verified(a)
    BY <1>2, RestartedAt DEF PublishFails, Verified, Points, Journaled
  <1>3. CASE Publish(a) \/ RollBack(a)
    BY <1>3, EntryDone DEF Publish, RollBack, Rolling, At
  <1>4. CASE Crash(a) \/ Refuse(a) \/ Complete(a) \/ RolledBack(a) \/ RollBackFails(a)
    <2>1. app'[a] = Resting("down") \/ app'[a] = Resting("idle")
      BY <1>4 DEF TypeOK, Crash, Refuse, Complete, RolledBack, RollBackFails
    <2> QED
      BY <2>1, RestingIs DEF Points
  <1>5. CASE BeginRecovery(a)
    BY <1>5 DEF BeginRecovery
  <1>6. CASE Plan(a)
    BY <1>6 DEF TypeOK, Plan
  <1>7. CASE Start(a)
    <2>1. CASE journal = NoJournal
      BY <1>7, <2>1, RestingIs DEF TypeOK, Start, Points
    <2>2. CASE journal # NoJournal
      BY <1>7, <2>2, ReadJournalIs DEF TypeOK, Start
    <2> QED
      BY <2>1, <2>2
  <1>8. CASE PlanIndex(a)
    BY <1>8, IndexPlanned
  <1> QED
    BY <1>1, <1>2, <1>3, <1>4, <1>5, <1>6, <1>7, <1>8 DEF AppNext

(* A window writes under the lock, and its plan has a number.              *)
LEMMA LockStep ==
  RecoveryInv /\ [Next]_vars => LockInv'
PROOF
  <1> SUFFICES ASSUME RecoveryInv, [Next]_vars, NEW b \in Apps
               PROVE  /\ app'[b].pc \in {"backed up", "publishing", "rolling"} => lock' = b
                      /\ app'[b].pc \in {"planned", "backed up"} \cup Journaled =>
                           app'[b].plan \in 1..MaxPlans
    BY DEF LockInv
  <1> USE RecoveryAssumption
  <1>1. TypeOK /\ LockInv
    BY DEF RecoveryInv
  <1>2. CASE app'[b] = Resting("down")
    BY <1>2 DEF Resting, Journaled
  <1>3. CASE app'[b] = app[b] /\ lock = b /\ ~AppNext(b)
    <2>1. app'[b] = Resting("down") \/ lock' = lock
      BY <1>1, <1>3, Exclusive
    <2> QED
      BY <1>1, <1>2, <1>3, <2>1 DEF LockInv
  <1>4. CASE app'[b] = app[b] /\ lock # b
    BY <1>1, <1>4 DEF LockInv
  <1>5. CASE AppNext(b)
    <2>1. CASE app'[b].pc \in {"down", "idle"}
      BY <2>1 DEF Journaled
    <2>2. CASE BeginRecovery(b)
      BY <1>1, <2>2 DEF LockInv, BeginRecovery, At
    <2>3. CASE app'[b].pc = "recovering" /\ Start(b)
      <3>1. journal # NoJournal /\ app'[b] = Recovering
        <4>1. app'[b] = IF journal = NoJournal THEN Resting("idle") ELSE Recovering
          BY <1>1, <2>3 DEF TypeOK, Start
        <4> QED
          BY <2>3, <4>1 DEF Resting
      <3> QED
        BY <1>1, <2>3, <3>1, ReadJournalIs DEF RecoveryInv, BrokenInv
    <2>4. CASE app'[b].pc = "planned" /\ Plan(b)
      BY <1>1, <2>4 DEF TypeOK, Plan
    <2>5. CASE BackUp(b)
      BY <1>1, <2>5, MovedTo DEF LockInv, BackUp, At, Points
    <2>6. CASE WriteJournal(b)
      BY <1>1, <2>6, MovedTo DEF LockInv, WriteJournal, At, Points, Journaled
    <2>7. CASE Publish(b)
      BY <1>1, <2>7, EntryDone DEF LockInv, Publish, At, Journaled
    <2>8. CASE PublishFails(b)
      BY <1>1, <2>8, RestartedAt DEF LockInv, PublishFails, At, Points, Journaled
    <2>9. CASE IndexFails(b)
      BY <1>1, <2>9, MovedTo DEF LockInv, IndexFails, At, Points, Journaled
    <2>10. CASE Verified(b)
      <3>1. app'[b].pc = "indexing" /\ app'[b].plan = app[b].plan
        BY <1>1, <2>10, RestartedAt DEF Verified, Points, Journaled
      <3> QED
        BY <1>1, <2>10, <3>1 DEF LockInv, Verified, At, Journaled
    <2>11. CASE PlanIndex(b)
      BY <1>1, <2>11, IndexPlanned DEF LockInv, PlanIndex, At, Journaled
    <2>12. CASE RepairIndex(b)
      <3>1. app'[b].pc = "indexed" /\ app'[b].plan = app[b].plan
        BY <1>1, <2>12, MovedTo DEF RepairIndex, Points, Journaled
      <3> QED
        BY <1>1, <2>12, <3>1 DEF LockInv, RepairIndex, At, Journaled
    <2>13. CASE RollBack(b)
      BY <1>1, <2>13, EntryDone DEF LockInv, RollBack, Rolling, At, Journaled
    <2> QED
      BY <1>1, <1>5, <2>1, <2>2, <2>3, <2>4, <2>5, <2>6, <2>7, <2>8, <2>9, <2>10, <2>11, <2>12,
         <2>13, Arrivals
  <1> QED
    BY <1>1, <1>2, <1>3, <1>4, <1>5, Local

(* What is still to be published stays as it was backed up.                *)
LEMMA BackupStep ==
  RecoveryInv /\ [Next]_vars => BackupInv'
PROOF
  <1> SUFFICES ASSUME RecoveryInv, [Next]_vars, NEW b \in Apps,
                      app'[b].pc \in {"backed up", "publishing"},
                      NEW i \in DOMAIN Kinds, i > app'[b].done, Kinds[i] \in app'[b].files
               PROVE  primary'[Kinds[i]] = backups'[app'[b].plan][Kinds[i]]
    BY DEF BackupInv, Remaining
  <1>1. TypeOK /\ LockInv /\ BackupInv
    BY DEF RecoveryInv
  <1>2. i \in DOMAIN Kinds /\ i > app'[b].done /\ Kinds[i] \in app'[b].files /\ Kinds[i] \in Files
    BY DEF Files
  <1>3. CASE ~AppNext(b)
    <2>0. app'[b] # Resting("down")
      <3>1. Resting("down").pc = "down"
        BY DEF Resting
      <3> QED
        BY <3>1
    <2>1. app'[b] = app[b]
      BY <1>1, <1>3, <2>0, Local
    <2>2. lock = b
      BY <1>1, <2>1 DEF LockInv
    <2>3. UNCHANGED <<primary, backups>>
      BY <1>1, <1>3, <2>0, <2>2, Exclusive
    <2> QED
      BY <1>1, <1>2, <2>1, <2>3 DEF BackupInv, Remaining
  <1>4. CASE AppNext(b)
    <2>1. BackUp(b) \/ WriteJournal(b) \/ Publish(b)
      <3>1. app'[b] = app[b] /\ BeginRecovery(b) => app'[b].pc = "recovering"
        BY DEF BeginRecovery, At
      <3> QED
        BY <1>1, <1>4, <3>1, Arrivals
    <2>2. CASE BackUp(b)
      <3>1. app'[b].plan = app[b].plan /\ app'[b].files = app[b].files
        BY <1>1, <2>2, MovedTo DEF BackUp, Points
      <3>2. app[b].plan \in 1..MaxPlans
        BY <1>1, <2>2 DEF BackUp, LockInv, At
      <3>3. backups'[app[b].plan][Kinds[i]] = app[b].current[Kinds[i]]
        BY <1>1, <1>2, <2>2, <3>1, <3>2 DEF TypeOK, BackUp
      <3> QED
        BY <1>2, <2>2, <3>1, <3>3 DEF BackUp, RecheckPlan
    <2>3. CASE WriteJournal(b)
      <3>1. app'[b].plan = app[b].plan /\ app'[b].files = app[b].files /\ app'[b].done = app[b].done
        BY <1>1, <2>3, MovedTo DEF WriteJournal, Points, Journaled
      <3>2. i \in Remaining(b)
        BY <1>2, <3>1 DEF Remaining
      <3> QED
        BY <1>1, <2>3, <3>1, <3>2 DEF WriteJournal, BackupInv, At
    <2>4. CASE Publish(b)
      <3>1. /\ app'[b].plan = app[b].plan /\ app'[b].files = app[b].files
            /\ app'[b].done = NextEntry(b)
        BY <1>1, <2>4, EntryDone DEF Publish
      <3>2. NextEntry(b) \in Remaining(b)
        BY <1>1, <2>4, NextEntryIsFirst DEF Publish
      <3>3. i \in Remaining(b) /\ i # NextEntry(b)
        <4>1. i > app[b].done /\ i # NextEntry(b)
          BY <1>1, <1>2, <3>1, <3>2, LaterEntry
        <4> QED
          BY <1>2, <3>1, <4>1 DEF Remaining
      <3>4. Kinds[i] # Kinds[NextEntry(b)]
        BY <3>2, <3>3, RecoveryAssumption DEF Remaining
      <3>5. primary'[Kinds[i]] = primary[Kinds[i]] /\ backups' = backups
        BY <1>1, <1>2, <2>4, <3>4 DEF TypeOK, Bytes, Publish
      <3> QED
        BY <1>1, <2>4, <3>1, <3>3, <3>5 DEF Publish, BackupInv, At
    <2> QED
      BY <2>1, <2>2, <2>3, <2>4
  <1> QED
    BY <1>3, <1>4

(* Only a backup that is made changes the backups; the count of breaks     *)
(* never goes back.                                                        *)
LEMMA OnlyBackUp ==
  ASSUME TypeOK, [Next]_vars
  PROVE  /\ backups' = backups \/ \E a \in Apps : BackUp(a)
         /\ breaks' \in {breaks, breaks + 1}
PROOF
  <1>1. ASSUME NEW a \in Apps, AppNext(a)
        PROVE  /\ backups' = backups \/ BackUp(a)
               /\ breaks' = breaks
    BY <1>1 DEF AppNext, Crash, Start, BeginRecovery, Plan, BackUp, Refuse, WriteJournal, Publish,
       PublishFails, Verified, PlanIndex, RepairIndex, IndexFails, Complete, RollBack, RolledBack,
       RollBackFails
  <1> QED
    BY <1>1 DEF Next, vars, Commit, Break, Create, DirectorySynced, PowerCut

(* Backups hold broken bytes of the past, and what was backed up as broken *)
(* stays so.                                                               *)
LEMMA BackupsBroken ==
  ASSUME RecoveryInv, [Next]_vars, NEW p \in 1..MaxPlans, NEW f \in Files
  PROVE  /\ backups'[p][f] >= -breaks'
         /\ backups[p][f] <= 0 => backups'[p][f] <= 0
PROOF
  <1>1. TypeOK /\ LockInv /\ BrokenInv
    BY DEF RecoveryInv
  <1>2. breaks \in Nat /\ breaks' \in {breaks, breaks + 1} /\ backups[p][f] \in Int
    BY <1>1, OnlyBackUp DEF TypeOK, Bytes
  <1>3. backups[p][f] >= -breaks
    BY <1>1 DEF BrokenInv
  <1>4. CASE backups' = backups
    BY <1>2, <1>3, <1>4
  <1>5. ASSUME NEW a \in Apps, BackUp(a)
        PROVE  backups'[p][f] = backups[p][f] \/ backups'[p][f] \in (-breaks)..0
    <2>1. CASE p # app[a].plan
      BY <1>1, <1>5, <2>1 DEF BackUp, TypeOK
    <2>2. CASE p = app[a].plan /\ f \notin app[a].files
      BY <1>1, <1>5, <2>2 DEF BackUp, TypeOK, Bytes
    <2>3. CASE p = app[a].plan /\ f \in app[a].files
      <3>1. backups'[p][f] = app[a].current[f]
        BY <1>1, <1>5, <2>3 DEF BackUp, TypeOK, Bytes
      <3> QED
        BY <1>1, <1>5, <2>3, <3>1 DEF BackUp, BrokenInv
    <2> QED
      BY <2>1, <2>2, <2>3
  <1>6. ASSUME NEW a \in Apps, BackUp(a)
        PROVE  /\ backups'[p][f] >= -breaks'
               /\ backups[p][f] <= 0 => backups'[p][f] <= 0
    BY <1>2, <1>3, <1>5, <1>6
  <1> QED
    BY <1>1, <1>4, <1>6, OnlyBackUp

(* No file has broken bytes that have yet to be made.                      *)
LEMMA PrimaryBroken ==
  ASSUME RecoveryInv, [Next]_vars, NEW f \in Files
  PROVE  primary'[f] >= -breaks'
PROOF
  <1>1. TypeOK /\ LockInv /\ BrokenInv
    BY DEF RecoveryInv
  <1>2. breaks \in Nat /\ breaks' \in {breaks, breaks + 1} /\ primary[f] \in Int
    BY <1>1, OnlyBackUp DEF TypeOK, Bytes
  <1>3. primary[f] >= -breaks
    BY <1>1 DEF BrokenInv
  <1>4. CASE primary'[f] = primary[f]
    BY <1>2, <1>3, <1>4
  <1>5. CASE primary'[f] \in Nat
    BY <1>2, <1>5
  <1>6. ASSUME NEW g \in Files, Commit(g) PROVE primary'[f] = primary[f] \/ primary'[f] \in Nat
    BY <1>1, <1>6 DEF TypeOK, Bytes, Commit, Readable
  <1>7. ASSUME NEW g \in Recreated, Create(g) PROVE primary'[f] = primary[f] \/ primary'[f] \in Nat
    <2>1. g \in Files /\ Empty \in Nat
      BY RecoveryAssumption DEF Empty
    <2> QED
      BY <1>1, <1>7, <2>1 DEF TypeOK, Bytes, Create
  <1>8. ASSUME NEW g \in Files, Break(g) PROVE primary'[f] >= -breaks'
    <2>1. CASE f = g
      BY <1>1, <1>2, <1>8, <2>1 DEF TypeOK, Bytes, Break
    <2>2. CASE f # g
      BY <1>1, <1>4, <1>8, <2>2 DEF TypeOK, Bytes, Break
    <2> QED
      BY <2>1, <2>2
  <1>9. ASSUME NEW a \in Apps, Publish(a) PROVE primary'[f] = primary[f] \/ primary'[f] \in Nat
    <2>1. app[a].good \in Copies
      BY <1>1 DEF TypeOK, Desktop
    <2> QED
      BY <1>1, <1>9, <2>1 DEF TypeOK, Bytes, Copies, Publish
  <1>10. ASSUME NEW a \in Apps, RollBack(a) PROVE primary'[f] >= -breaks'
    <2>1. app[a].plan \in 1..MaxPlans
      BY <1>1, <1>10 DEF LockInv, Journaled, RollBack, Rolling, At
    <2>2. primary'[f] = primary[f] \/ primary'[f] = backups[app[a].plan][f]
      BY <1>1, <1>10 DEF TypeOK, Bytes, RollBack
    <2>3. backups[app[a].plan][f] \in Int /\ backups[app[a].plan][f] >= -breaks
      BY <1>1, <2>1 DEF BrokenInv, TypeOK, Bytes
    <2> QED
      BY <1>2, <1>4, <2>2, <2>3
  <1>11. ASSUME NEW a \in Apps, AppNext(a), ~Publish(a), ~RollBack(a) PROVE primary' = primary
    BY <1>11 DEF AppNext, Crash, Start, BeginRecovery, Plan, BackUp, Refuse, WriteJournal,
       PublishFails, Verified, PlanIndex, RepairIndex, IndexFails, Complete, RolledBack,
       RollBackFails
  <1>12. CASE UNCHANGED primary
    BY <1>4, <1>12
  <1> QED
    BY <1>4, <1>5, <1>6, <1>7, <1>8, <1>9, <1>10, <1>11, <1>12
       DEF Next, vars, DirectorySynced, PowerCut

(* A journal in the directory or on the disk was there before, or a        *)
(* window has just written it.                                             *)
LEMMA JournalSources ==
  ASSUME TypeOK, [Next]_vars, NEW j \in {journal', onDisk'}
  PROVE  \/ j \in {journal, onDisk, NoJournal}
         \/ \E a \in Apps : app[a].pc \in {"backed up", "publishing"} /\ j = JournalOf(a)
PROOF
  <1>1. ASSUME NEW a \in Apps, AppNext(a)
        PROVE  \/ j \in {journal, onDisk, NoJournal}
               \/ app[a].pc \in {"backed up", "publishing"} /\ j = JournalOf(a)
    <2>1. CASE WriteJournal(a) \/ Publish(a)
      BY <2>1 DEF WriteJournal, Publish, At
    <2>2. CASE ~WriteJournal(a) /\ ~Publish(a)
      BY <1>1, <2>2 DEF AppNext, Crash, Start, BeginRecovery, Plan, BackUp, Refuse,
         PublishFails, Verified, PlanIndex, RepairIndex, IndexFails, Complete, RollBack, RolledBack,
         RollBackFails
    <2> QED
      BY <2>1, <2>2
  <1> QED
    BY <1>1 DEF Next, vars, Commit, Break, Create, DirectorySynced, PowerCut

(* A window that goes on with the files of its plan.                       *)
LEMMA SamePlan ==
  ASSUME TypeOK, NEW a \in Apps, AppNext(a), ~Start(a), ~Plan(a)
  PROVE  \/ app'[a].pc \in {"down", "idle"} /\ app'[a].files = {}
         \/ app'[a].plan = app[a].plan /\ app'[a].files = app[a].files /\ app'[a].good = app[a].good
PROOF
  <1>1. CASE BackUp(a) \/ WriteJournal(a) \/ RepairIndex(a) \/ IndexFails(a)
    BY <1>1, MovedTo DEF BackUp, WriteJournal, RepairIndex, IndexFails, Points, Journaled
  <1>2. CASE PublishFails(a) \/ Verified(a)
    BY <1>2, RestartedAt DEF PublishFails, Verified, Points, Journaled
  <1>3. CASE Publish(a) \/ RollBack(a)
    BY <1>3, EntryDone DEF Publish, RollBack
  <1>4. CASE Crash(a) \/ Refuse(a) \/ Complete(a) \/ RolledBack(a) \/ RollBackFails(a)
    <2>1. app'[a] = Resting("down") \/ app'[a] = Resting("idle")
      BY <1>4 DEF TypeOK, Crash, Refuse, Complete, RolledBack, RollBackFails
    <2>2. "down" \in Points /\ "idle" \in Points
      BY DEF Points
    <2>3. ASSUME NEW x \in {"down", "idle"}, app'[a] = Resting(x)
          PROVE  app'[a].pc \in {"down", "idle"} /\ app'[a].files = {}
      BY <2>2, <2>3, RestingIs
    <2> QED
      BY <2>1, <2>3
  <1>5. CASE BeginRecovery(a)
    BY <1>5 DEF BeginRecovery
  <1>6. CASE PlanIndex(a)
    BY <1>6, IndexPlanned
  <1> QED
    BY <1>1, <1>2, <1>3, <1>4, <1>5, <1>6 DEF AppNext

(* What a window has planned or backed up could not be read.               *)
LEMMA DesktopBroken ==
  ASSUME RecoveryInv, [Next]_vars, NEW b \in Apps, NEW f \in app'[b].files
  PROVE  /\ app'[b].pc \in {"planned", "backed up"} => app'[b].current[f] \in (-breaks')..0
         /\ app'[b].pc \in {"backed up"} \cup Journaled => backups'[app'[b].plan][f] <= 0
PROOF
  <1>1. TypeOK /\ LockInv /\ BrokenInv
    BY DEF RecoveryInv
  <1>2. TypeOK' /\ LockInv'
    BY <1>1, TypeStep, LockStep
  <1>3. /\ breaks \in Nat /\ breaks' \in {breaks, breaks + 1}
        /\ f \in Files
    BY <1>1, <1>2, OnlyBackUp DEF TypeOK, Desktop
  <1>4. \A v \in (-breaks)..0 : v \in (-breaks')..0
    BY <1>3
  <1>5. CASE app'[b] = Resting("down")
    BY <1>5, RestingIs DEF Points
  <1>6. CASE app'[b] = app[b]
    <2>1. app[b].pc \in {"planned", "backed up"} => app'[b].current[f] \in (-breaks')..0
      BY <1>1, <1>4, <1>6 DEF BrokenInv, At
    <2>2. app[b].pc \in {"backed up"} \cup Journaled => app[b].plan \in 1..MaxPlans
      BY <1>1 DEF LockInv
    <2>3. app[b].pc \in {"backed up"} \cup Journaled => backups[app[b].plan][f] <= 0
      BY <1>1, <1>6 DEF BrokenInv
    <2> QED
      BY <1>3, <1>6, <2>1, <2>2, <2>3, BackupsBroken
  <1>7. CASE Plan(b)
    <2>1. /\ app'[b].pc = "planned" /\ app'[b].current = primary /\ app'[b].files = Unreadable
          /\ breaks' = breaks
      BY <1>1, <1>7 DEF TypeOK, Plan
    <2>2. primary[f] \in Int /\ primary[f] <= 0 /\ primary[f] >= -breaks
      <3>1. f \in Files /\ ~(primary[f] > 0)
        BY <2>1 DEF Unreadable, Readable
      <3>2. primary[f] \in Int
        BY <1>1, <3>1 DEF TypeOK, Bytes
      <3>3. primary[f] >= -breaks
        BY <1>1, <3>1 DEF BrokenInv
      <3> QED
        BY <3>1, <3>2, <3>3
    <2> QED
      BY <1>3, <2>1, <2>2 DEF Journaled
  <1>8. CASE Start(b)
    <2>1. journal # NoJournal /\ app'[b] = Recovering
      <3>1. app'[b] = IF journal = NoJournal THEN Resting("idle") ELSE Recovering
        BY <1>1, <1>8 DEF TypeOK, Start
      <3>2. Resting("idle").files = {}
        BY RestingIs DEF Points
      <3> QED
        BY <3>1, <3>2
    <2>2. /\ app'[b].pc = "recovering" /\ app'[b].plan = journal.plan
          /\ app'[b].files = journal.entries
      BY <1>1, <2>1, ReadJournalIs
    <2>3. journal.plan \in 1..MaxPlans /\ backups[journal.plan][f] <= 0
      BY <1>1, <2>1, <2>2 DEF BrokenInv
    <2> QED
      BY <1>3, <2>2, <2>3, BackupsBroken
  <1>9. CASE BackUp(b)
    <2>1. /\ app'[b].pc = "backed up" /\ app'[b].plan = app[b].plan /\ app'[b].files = app[b].files
          /\ app'[b].current = app[b].current
      BY <1>1, <1>9, MovedTo DEF BackUp, Points
    <2>2. app[b].plan \in 1..MaxPlans
      BY <1>1, <1>9 DEF BackUp, LockInv, At
    <2>3. backups'[app[b].plan][f] = app[b].current[f]
      BY <1>1, <1>3, <1>9, <2>1, <2>2 DEF TypeOK, BackUp
    <2>4. app[b].current[f] \in (-breaks)..0
      BY <1>1, <1>9, <2>1 DEF BackUp, BrokenInv
    <2>5. app[b].current[f] \in (-breaks')..0 /\ app[b].current[f] <= 0
      BY <1>3, <1>4, <2>4
    <2> QED
      BY <2>1, <2>3, <2>5
  <1>10. CASE AppNext(b) /\ ~Plan(b) /\ ~Start(b) /\ ~BackUp(b)
    <2>1. app'[b].plan = app[b].plan /\ app'[b].files = app[b].files
      BY <1>1, <1>10, SamePlan
    <2>2. /\ app'[b].pc \notin {"planned", "backed up"} \/ app'[b] = app[b]
          /\ app'[b].pc \in Journaled => app[b].pc \in {"backed up"} \cup Journaled
      BY <1>1, <1>10, Arrivals DEF Journaled, BeginRecovery, WriteJournal, Publish, PublishFails,
         IndexFails, Verified, PlanIndex, RepairIndex, RollBack, Rolling, At
    <2>3. app'[b].pc \in Journaled =>
            app[b].plan \in 1..MaxPlans /\ backups[app[b].plan][f] <= 0
      BY <1>1, <2>1, <2>2 DEF LockInv, BrokenInv
    <2> QED
      BY <1>3, <1>6, <2>1, <2>2, <2>3, BackupsBroken
  <1> QED
    BY <1>1, <1>5, <1>6, <1>7, <1>8, <1>9, <1>10, Local

(* Only files that could not be read are planned and backed up.            *)
LEMMA BrokenStep ==
  RecoveryInv /\ [Next]_vars => BrokenInv'
PROOF
  <1> SUFFICES ASSUME RecoveryInv, [Next]_vars PROVE BrokenInv'
    OBVIOUS
  <1>1. TypeOK /\ LockInv /\ BrokenInv /\ TypeOK'
    BY TypeStep DEF RecoveryInv
  <1>2. ASSUME NEW j \in {journal', onDisk'}, j # NoJournal
        PROVE  j.plan \in 1..MaxPlans /\ \A f \in j.entries : backups'[j.plan][f] <= 0
    <2>1. /\ j.plan \in 1..MaxPlans
          /\ \A f \in j.entries : f \in Files /\ backups[j.plan][f] <= 0
      <3>1. CASE j \in {journal, onDisk, NoJournal}
        BY <1>1, <1>2, <3>1 DEF BrokenInv, TypeOK, Journals
      <3>2. ASSUME NEW a \in Apps, app[a].pc \in {"backed up", "publishing"}, j = JournalOf(a)
            PROVE  /\ j.plan \in 1..MaxPlans
                   /\ \A f \in j.entries : f \in Files /\ backups[j.plan][f] <= 0
        <4>1. j.plan = app[a].plan /\ j.entries = app[a].files
          BY <3>2 DEF JournalOf
        <4>2. app[a] \in Desktop
          BY <1>1 DEF TypeOK
        <4>3. app[a].files \subseteq Files
          BY <4>2 DEF Desktop
        <4> QED
          BY <1>1, <3>2, <4>1, <4>3 DEF BrokenInv, LockInv, Journaled
      <3> QED
        BY <1>1, <1>2, <3>1, <3>2, JournalSources
    <2> QED
      BY <2>1, BackupsBroken
  <1>3. \A f \in Files : primary'[f] >= -breaks'
    BY PrimaryBroken
  <1>4. \A p \in 1..MaxPlans : \A f \in Files : backups'[p][f] >= -breaks'
    BY BackupsBroken
  <1>5. ASSUME NEW a \in Apps
        PROVE  /\ app'[a].pc \in {"planned", "backed up"} =>
                    \A f \in app'[a].files : app'[a].current[f] \in (-breaks')..0
               /\ app'[a].pc \in {"backed up"} \cup Journaled =>
                    \A f \in app'[a].files : backups'[app'[a].plan][f] <= 0
    BY DesktopBroken
  <1> QED
    BY <1>2, <1>3, <1>4, <1>5 DEF BrokenInv, At

(* While a restore writes, the last-good copies stay those it has checked. *)
LEMMA NewestStep ==
  RecoveryInv /\ [Next]_vars => NewestInv'
PROOF
  <1> SUFFICES ASSUME RecoveryInv, [Next]_vars, NEW b \in Apps,
                      app'[b].pc \in {"backed up", "publishing"}, NEW f \in app'[b].files
               PROVE  app'[b].good[f] = lastGood'[f]
    BY DEF NewestInv
  <1>1. TypeOK /\ LockInv /\ NewestInv
    BY DEF RecoveryInv
  <1>2. CASE ~AppNext(b)
    <2>1. app'[b] # Resting("down")
      <3>1. Resting("down").pc = "down"
        BY DEF Resting
      <3> QED
        BY <3>1
    <2>2. app'[b] = app[b]
      BY <1>1, <1>2, <2>1, Local
    <2>3. lock = b
      BY <1>1, <2>2 DEF LockInv
    <2>4. UNCHANGED lastGood
      BY <1>1, <1>2, <2>1, <2>3, Exclusive
    <2> QED
      BY <1>1, <2>2, <2>4 DEF NewestInv
  <1>3. CASE AppNext(b)
    <2>1. BackUp(b) \/ WriteJournal(b) \/ Publish(b)
      <3>1. app'[b] = app[b] /\ BeginRecovery(b) => app'[b].pc = "recovering"
        BY DEF BeginRecovery, At
      <3> QED
        BY <1>1, <1>3, <3>1, Arrivals
    <2>2. CASE BackUp(b)
      <3>1. app'[b].good = app[b].good /\ app'[b].files = app[b].files
        BY <1>1, <2>2, MovedTo DEF BackUp, Points
      <3> QED
        BY <2>2, <3>1 DEF BackUp, RecheckPlan
    <2>3. CASE WriteJournal(b)
      <3>1. app'[b].good = app[b].good /\ app'[b].files = app[b].files
        BY <1>1, <2>3, MovedTo DEF WriteJournal, Points, Journaled
      <3> QED
        BY <1>1, <2>3, <3>1 DEF WriteJournal, NewestInv, At
    <2>4. CASE Publish(b)
      <3>1. app'[b].good = app[b].good /\ app'[b].files = app[b].files
        BY <1>1, <2>4, EntryDone DEF Publish
      <3> QED
        BY <1>1, <2>4, <3>1 DEF Publish, NewestInv, At
    <2> QED
      BY <2>1, <2>2, <2>3, <2>4
  <1> QED
    BY <1>2, <1>3

LEMMA RecoveryInit ==
  Init => RecoveryInv
PROOF
  <1> SUFFICES ASSUME Init PROVE RecoveryInv
    OBVIOUS
  <1> USE RecoveryAssumption
  <1>1. NoFiles \in Bytes /\ NoFiles \in Copies /\ NoJournal \in Journals
    BY DEF NoFiles, NoJournal, Bytes, Copies, Journals
  <1>2. ASSUME NEW a \in Apps
        PROVE  app[a] \in Desktop /\ app[a].pc = "down" /\ app[a].files = {}
    BY RestingIs DEF Init, Points
  <1>3. TypeOK
    <2>1. primary \in Bytes
      BY DEF Init, Bytes
    <2>2. lastGood \in Copies
      BY DEF Init, Copies
    <2>3. backups \in [1..MaxPlans -> Bytes]
      BY <1>1 DEF Init
    <2>4. app \in [Apps -> Desktop]
      BY <1>2 DEF Init
    <2> QED
      BY <1>1, <2>1, <2>2, <2>3, <2>4 DEF TypeOK, Init
  <1>4. LockInv
    BY <1>2 DEF LockInv, Journaled
  <1>5. BackupInv
    BY <1>2 DEF BackupInv
  <1>6. BrokenInv
    <2>1. \A f \in Files : primary[f] >= -breaks
      BY DEF Init
    <2>2. \A p \in 1..MaxPlans : \A f \in Files : backups[p][f] >= -breaks
      BY DEF Init, NoFiles
    <2>3. journal = NoJournal /\ onDisk = NoJournal
      BY DEF Init
    <2> QED
      BY <1>2, <2>1, <2>2, <2>3 DEF BrokenInv, At, Journaled
  <1>7. NewestInv
    BY <1>2 DEF NewestInv
  <1> QED
    BY <1>3, <1>4, <1>5, <1>6, <1>7 DEF RecoveryInv

(* The invariant of recovery.rs for any number of windows: a window writes *)
(* only under the metadata lock, what a restore has still to publish is in *)
(* its backup as it is, only broken bytes are backed up, and what it will  *)
(* publish is still the last-good copy of the file.                        *)
THEOREM RecoveryInvariant == Spec => []RecoveryInv
PROOF
  <1>1. RecoveryInv /\ [Next]_vars => RecoveryInv'
    BY TypeStep, LockStep, BackupStep, BrokenStep, NewestStep DEF RecoveryInv
  <1> QED
    BY <1>1, RecoveryInit, PTL DEF Spec

(* While a window publishes, only its next entry changes, and only by it.  *)
LEMMA OnlyPublishes ==
  ASSUME RecoveryInv, [Next]_vars, NEW a \in Apps, At(a, "publishing"), NEW f \in Files,
         primary'[f] # primary[f]
  PROVE  /\ NextEntry(a) \in Remaining(a) /\ f = Kinds[NextEntry(a)]
         /\ primary'[f] = app[a].good[f]
PROOF
  <1>1. TypeOK /\ LockInv
    BY DEF RecoveryInv
  <1>2. lock = a /\ lock # Free
    BY <1>1, RecoveryAssumption DEF LockInv, At
  <1>3. Publish(a)
    <2>1. ASSUME NEW b \in Apps, AppNext(b) PROVE Publish(b) /\ a = b
      <3>1. Publish(b) \/ RollBack(b)
        BY <2>1 DEF AppNext, Crash, Start, BeginRecovery, Plan, BackUp, Refuse, WriteJournal,
           PublishFails, Verified, PlanIndex, RepairIndex, IndexFails, Complete, RolledBack,
           RollBackFails
      <3>2. lock = b
        BY <1>1, <3>1 DEF LockInv, At, Publish, RollBack, Rolling
      <3> QED
        BY <1>2, <3>1, <3>2 DEF RollBack, Rolling, At
    <2> QED
      BY <1>2, <2>1 DEF Next, vars, Commit, Break, Create, DirectorySynced, PowerCut
  <1>4. NextEntry(a) \in Remaining(a) /\ f = Kinds[NextEntry(a)]
    BY <1>1, <1>3, NextEntryIsFirst DEF Publish, TypeOK, Bytes
  <1> QED
    BY <1>1, <1>3, <1>4 DEF Publish, TypeOK, Bytes

(* Whatever is committed, created or broken, restored, crashed or cut off  *)
(* beside it, a restore overwrites only bytes that its backup holds.       *)
THEOREM BackedUpFirst == Spec => OverwritesOnlyBackedUp
PROOF
  <1>1. ASSUME RecoveryInv, [Next]_vars, NEW a \in Apps, At(a, "publishing"), NEW f \in Files,
               primary'[f] # primary[f]
        PROVE  backups[app[a].plan][f] = primary[f]
    <2>1. NextEntry(a) \in Remaining(a) /\ f = Kinds[NextEntry(a)]
      BY <1>1, OnlyPublishes
    <2> QED
      BY <1>1, <2>1 DEF RecoveryInv, BackupInv, At
  <1>2. RecoveryInv /\ [Next]_vars =>
          [\A a \in Apps : At(a, "publishing") =>
             \A f \in Files : primary'[f] # primary[f] => backups[app[a].plan][f] = primary[f]]_vars
    BY <1>1
  <1> QED
    BY <1>2, RecoveryInvariant, PTL DEF Spec, OverwritesOnlyBackedUp

(* Whatever other windows restored, rolled back and let others commit to   *)
(* between its plan and its lock, a restore publishes the newest last-good *)
(* copy of each file.                                                      *)
THEOREM NewestRestored == Spec => RestoresNewest
PROOF
  <1>1. ASSUME RecoveryInv, [Next]_vars, NEW a \in Apps, At(a, "publishing"), NEW f \in Files,
               primary'[f] # primary[f]
        PROVE  primary'[f] = lastGood[f]
    <2>1. /\ NextEntry(a) \in Remaining(a) /\ f = Kinds[NextEntry(a)]
          /\ primary'[f] = app[a].good[f]
      BY <1>1, OnlyPublishes
    <2>2. f \in app[a].files
      BY <2>1 DEF Remaining
    <2> QED
      BY <1>1, <2>1, <2>2 DEF RecoveryInv, NewestInv, At
  <1>2. RecoveryInv /\ [Next]_vars =>
          [\A a \in Apps : At(a, "publishing") =>
             \A f \in Files : primary'[f] # primary[f] => primary'[f] = lastGood[f]]_vars
    BY <1>1
  <1> QED
    BY <1>2, RecoveryInvariant, PTL DEF Spec, RestoresNewest
=============================================================================
