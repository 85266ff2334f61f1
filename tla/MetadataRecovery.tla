--------------------------- MODULE MetadataRecovery ---------------------------
(***************************************************************************)
(* Restoring broken metadata: MetadataRecoveryService of multiplex-store,  *)
(* used by every window of every desktop process while the CLI, the TUI    *)
(* and the desktops commit to the same files through the repositories      *)
(* (sessions.rs, library.rs, presets.rs).                                  *)
(*                                                                         *)
(* A restore replaces every metadata file that cannot be read by its       *)
(* last-good copy.  It keeps the broken bytes in a backup, writes a        *)
(* journal, publishes file after file, verifies, gives up the lock,        *)
(* rebuilds the derived index and removes the journal.  It runs in the     *)
(* background of its window.  A window that opens and finds a journal puts *)
(* the backups back, whoever wrote it; nothing keeps two windows apart but *)
(* the metadata lock, which each of them opens and locks for itself.       *)
(*                                                                         *)
(* The bytes of a file are a number: n > 0 is a readable document of       *)
(* revision n, 0 is no file, and n < 0 are broken bytes, never the same    *)
(* twice.  Metadata files and backups are replaced with the atomic writer  *)
(* and taken to be on the disk then; the journal is too, but its rename    *)
(* may lag where the directory cannot be synced, and its removal is a      *)
(* plain remove_file.  Changes of a directory reach the disk in order.     *)
(***************************************************************************)
EXTENDS Integers, Sequences

CONSTANTS Apps,           \* windows (MultiplexApp) of the desktop processes
          Kinds,          \* MetadataFileKind::ALL, a sequence
          Recreated,      \* kinds whose repository creates a missing file
          Indexed,        \* kinds whose bytes repair compares
          MaxRevision,    \* bound: the last revision that is committed
          MaxPlans,       \* bound: restores that are planned
          MaxBreaks,      \* bound: times a file is broken
          Free            \* nobody holds the metadata lock

Files == {Kinds[i] : i \in DOMAIN Kinds}

ASSUME RecoveryAssumption ==
  /\ Kinds \in Seq(Files)
  /\ \A i, j \in DOMAIN Kinds : Kinds[i] = Kinds[j] => i = j
  /\ Recreated \subseteq Files
  /\ Indexed \subseteq Files
  /\ MaxRevision \in Nat /\ MaxPlans \in Nat /\ MaxBreaks \in Nat
  /\ Free \notin Apps

VARIABLES
  primary,    \* the bytes of each metadata file
  lastGood,   \* the revision of each last-good copy
  backups,    \* what the directory of each plan keeps of each file
  journal,    \* the active recovery journal, or NoJournal
  onDisk,     \* the journal that would be left by a power cut
  lock,       \* who holds the metadata lock
  app,        \* where each window is, and its locals
  plans,      \* how many plans were made
  breaks      \* how many times bytes were broken

vars == <<primary, lastGood, backups, journal, onDisk, lock, app, plans, breaks>>

-----------------------------------------------------------------------------
(* validate_kind accepts the bytes. *)
Readable(bytes) == bytes > 0

Unreadable == {f \in Files : ~Readable(primary[f])}

NoFiles == [f \in Files |-> 0]

(* RecoveryJournal: the plan, its entries and the last-good bytes they     *)
(* name.  What an entry says of the bytes before the restore is what the   *)
(* backup of the plan says.                                                *)
NoJournal == [plan |-> 0, entries |-> {}, good |-> NoFiles]

(* A window in none of the operations.  `files' are the entries of its     *)
(* plan or of the journal it read, `current' and `good' the bytes it read, *)
(* `done' how far it is with them.                                         *)
Resting(pc) ==
  [pc |-> pc, plan |-> 0, files |-> {}, current |-> NoFiles, good |-> NoFiles, done |-> 0]

Init ==
  /\ primary \in [Files -> {-1, 0, 1}]
  /\ Unreadable # {}
  /\ lastGood = [f \in Files |-> 1]
  /\ backups = [p \in 1..MaxPlans |-> NoFiles]
  /\ journal = NoJournal
  /\ onDisk = NoJournal
  /\ lock = Free
  /\ app = [a \in Apps |-> Resting("down")]
  /\ plans = 0
  /\ breaks = 1

At(a, pc) == app[a].pc = pc

JournalOf(a) == [plan |-> app[a].plan, entries |-> app[a].files, good |-> app[a].good]

(* The entries a window has not come to yet, by their place in Kinds. *)
Remaining(a) == {i \in DOMAIN Kinds : i > app[a].done /\ Kinds[i] \in app[a].files}

NextEntry(a) == CHOOSE i \in Remaining(a) : \A j \in Remaining(a) : i <= j

-----------------------------------------------------------------------------
(***************************************************************************)
(* The repositories and the world around them.                             *)
(***************************************************************************)

(* A repository commits: under the lock it reads the document, refuses one *)
(* it cannot read, writes the next revision and then, if it can, the       *)
(* last-good copy.                                                         *)
Commit(f) ==
  /\ lock = Free
  /\ Readable(primary[f])
  /\ primary[f] < MaxRevision
  /\ primary' = [primary EXCEPT ![f] = @ + 1]
  /\ \/ lastGood' = [lastGood EXCEPT ![f] = primary[f] + 1]
     \/ UNCHANGED lastGood
  /\ UNCHANGED <<backups, journal, onDisk, lock, app, plans, breaks>>

(* The empty document of a new repository. *)
Empty == MaxRevision + 1

(* Opening a repository whose file is missing writes an empty document and *)
(* then, if it can, its last-good copy over the one there is.              *)
Create(f) ==
  /\ lock = Free
  /\ primary[f] = 0
  /\ primary' = [primary EXCEPT ![f] = Empty]
  /\ \/ lastGood' = [lastGood EXCEPT ![f] = Empty]
     \/ UNCHANGED lastGood
  /\ UNCHANGED <<backups, journal, onDisk, lock, app, plans, breaks>>

(* Something outside breaks a file, or breaks it differently, while nobody *)
(* has the lock.                                                           *)
Break(f) ==
  /\ lock = Free
  /\ breaks < MaxBreaks
  /\ primary' = [primary EXCEPT ![f] = -(breaks + 1)]
  /\ breaks' = breaks + 1
  /\ UNCHANGED <<lastGood, backups, journal, onDisk, lock, app, plans>>

(* The directory of the journal reaches the disk. *)
DirectorySynced ==
  /\ onDisk # journal
  /\ onDisk' = journal
  /\ UNCHANGED <<primary, lastGood, backups, journal, lock, app, plans, breaks>>

(* The process of a window ends wherever it is; the operating system gives *)
(* up its lock.  Its other windows end as well, each by a step of its own. *)
Crash(a) ==
  /\ ~At(a, "down")
  /\ app' = [app EXCEPT ![a] = Resting("down")]
  /\ lock' = IF lock = a THEN Free ELSE lock
  /\ UNCHANGED <<primary, lastGood, backups, journal, onDisk, plans, breaks>>

(* The power fails: a journal whose removal was not synced is back, one    *)
(* whose writing was not synced is gone.                                   *)
PowerCut ==
  /\ onDisk # journal
  /\ app' = [a \in Apps |-> Resting("down")]
  /\ lock' = Free
  /\ journal' = onDisk
  /\ UNCHANGED <<primary, lastGood, backups, onDisk, plans, breaks>>

-----------------------------------------------------------------------------
(***************************************************************************)
(* plan_restore_last_good and restore.                                     *)
(***************************************************************************)

(* A plan holds every file that cannot be read, the bytes it has and the   *)
(* bytes of its last-good copy.                                            *)
Plan(a) ==
  /\ At(a, "idle")
  /\ lock = Free
  /\ plans < MaxPlans
  /\ Unreadable # {}
  /\ plans' = plans + 1
  /\ app' = [app EXCEPT ![a] = [pc |-> "planned", plan |-> plans + 1, files |-> Unreadable,
                                current |-> primary, good |-> lastGood, done |-> 0]]
  /\ UNCHANGED <<primary, lastGood, backups, journal, onDisk, lock, breaks>>

(* Mistake: the files are compared and the last-good copies are not. *)
RecheckPlan_PrimaryOnly(a) == \A f \in app[a].files : primary[f] = app[a].current[f]

(* Mistake: the last-good copies are compared and the files are not. *)
RecheckPlan_LastGoodOnly(a) == \A f \in app[a].files : lastGood[f] = app[a].good[f]

(* recheck_plan: files and last-good copies are those that were planned. *)
RecheckPlan(a) ==
  \A f \in app[a].files : primary[f] = app[a].current[f] /\ lastGood[f] = app[a].good[f]

(* restore takes the lock, finds the plan still good and writes and reads  *)
(* back the backups.                                                       *)
BackUp(a) ==
  /\ At(a, "planned")
  /\ lock = Free
  /\ RecheckPlan(a)
  /\ lock' = a
  /\ backups' = [backups EXCEPT ![app[a].plan] =
                   [f \in Files |-> IF f \in app[a].files THEN app[a].current[f] ELSE @[f]]]
  /\ app' = [app EXCEPT ![a].pc = "backed up"]
  /\ UNCHANGED <<primary, lastGood, journal, onDisk, plans, breaks>>

(* restore ends before it has a journal: the plan is stale or cancelled,   *)
(* or a backup or the journal cannot be written.                           *)
Refuse(a) ==
  /\ At(a, "planned") \/ At(a, "backed up")
  /\ app' = [app EXCEPT ![a] = Resting("idle")]
  /\ lock' = IF lock = a THEN Free ELSE lock
  /\ UNCHANGED <<primary, lastGood, backups, journal, onDisk, plans, breaks>>

(* write_journal renames the journal into place; the writer reports        *)
(* RenameOnly if the directory could not be synced, and nobody looks.      *)
WriteJournal(a) ==
  /\ At(a, "backed up")
  /\ journal' = JournalOf(a)
  /\ onDisk' \in {journal', onDisk}
  /\ app' = [app EXCEPT ![a].pc = "publishing"]
  /\ UNCHANGED <<primary, lastGood, backups, lock, plans, breaks>>

(* The next file gets its last-good bytes, and the journal is written      *)
(* again with one more file published.                                     *)
Publish(a) ==
  /\ At(a, "publishing")
  /\ Remaining(a) # {}
  /\ primary' = [primary EXCEPT ![Kinds[NextEntry(a)]] = app[a].good[Kinds[NextEntry(a)]]]
  /\ journal' = JournalOf(a)
  /\ onDisk' \in {journal', onDisk}
  /\ app' = [app EXCEPT ![a].done = NextEntry(a)]
  /\ UNCHANGED <<lastGood, backups, lock, plans, breaks>>

(* A file or the journal cannot be written, or a file cannot be read back. *)
PublishFails(a) ==
  /\ At(a, "publishing")
  /\ app' = [app EXCEPT ![a].pc = "rolling", ![a].done = 0]
  /\ UNCHANGED <<primary, lastGood, backups, journal, onDisk, lock, plans, breaks>>

(* All files were read back and are as published; the lock is dropped. *)
Verified(a) ==
  /\ At(a, "publishing")
  /\ Remaining(a) = {}
  /\ lock' = Free
  /\ app' = [app EXCEPT ![a].pc = "indexing", ![a].done = 0]
  /\ UNCHANGED <<primary, lastGood, backups, journal, onDisk, plans, breaks>>

(* rebuild_indexes reads all files under the shared lock and plans the     *)
(* index.                                                                  *)
PlanIndex(a) ==
  /\ At(a, "indexing")
  /\ lock = Free
  /\ Unreadable = {}
  /\ app' = [app EXCEPT ![a].pc = "index planned", ![a].current = primary]
  /\ UNCHANGED <<primary, lastGood, backups, journal, onDisk, lock, plans, breaks>>

(* Under the exclusive lock all files can still be read, the sessions and  *)
(* the presets are still the ones the index was made from, whatever became *)
(* of the library, and the index is published.                             *)
RepairIndex(a) ==
  /\ At(a, "index planned")
  /\ lock = Free
  /\ Unreadable = {}
  /\ \A f \in Indexed : primary[f] = app[a].current[f]
  /\ app' = [app EXCEPT ![a].pc = "indexed"]
  /\ UNCHANGED <<primary, lastGood, backups, journal, onDisk, lock, plans, breaks>>

(* The index cannot be rebuilt: a file cannot be read, has changed since   *)
(* or the storage fails.  restore takes the lock again to roll back.       *)
IndexFails(a) ==
  /\ At(a, "indexing") \/ At(a, "index planned")
  /\ lock = Free
  /\ lock' = a
  /\ app' = [app EXCEPT ![a].pc = "rolling"]
  /\ UNCHANGED <<primary, lastGood, backups, journal, onDisk, plans, breaks>>

(* The restore is complete and removes the journal, without the lock; or   *)
(* the journal cannot be removed.                                          *)
Complete(a) ==
  /\ At(a, "indexed")
  /\ \/ journal' = NoJournal
     \/ UNCHANGED journal
  /\ app' = [app EXCEPT ![a] = Resting("idle")]
  /\ UNCHANGED <<primary, lastGood, backups, onDisk, lock, plans, breaks>>

-----------------------------------------------------------------------------
(***************************************************************************)
(* recover_interrupted_restore and the rollback.                           *)
(***************************************************************************)

(* A window that has read the journal. *)
Recovering ==
  [pc |-> "recovering", plan |-> journal.plan, files |-> journal.entries, current |-> NoFiles,
   good |-> journal.good, done |-> 0]

(* A window opens and looks for a journal, without the lock: MultiplexApp  *)
(* calls recover_interrupted_restore when it is made, whatever the other   *)
(* windows of its process or other desktops are doing.                     *)
Start(a) ==
  /\ At(a, "down")
  /\ app' = [app EXCEPT ![a] =
               IF journal = NoJournal THEN Resting("idle") ELSE Recovering]
  /\ UNCHANGED <<primary, lastGood, backups, journal, onDisk, lock, plans, breaks>>

(* It takes the lock to roll back what it read. *)
BeginRecovery(a) ==
  /\ At(a, "recovering")
  /\ lock = Free
  /\ lock' = a
  /\ UNCHANGED <<primary, lastGood, backups, journal, onDisk, app, plans, breaks>>

(* rollback_journal runs: a restore failed, or one is recovered. *)
Rolling(a) == lock = a /\ (At(a, "rolling") \/ At(a, "recovering"))

(* rollback_journal puts the backup of the next entry back, or removes the *)
(* file if there was none.                                                 *)
RollBack(a) ==
  /\ Rolling(a)
  /\ Remaining(a) # {}
  /\ primary' = [primary EXCEPT ![Kinds[NextEntry(a)]] =
                   backups[app[a].plan][Kinds[NextEntry(a)]]]
  /\ app' = [app EXCEPT ![a].done = NextEntry(a)]
  /\ UNCHANGED <<lastGood, backups, journal, onDisk, lock, plans, breaks>>

(* All is back and the journal is removed, if it can be. *)
RolledBack(a) ==
  /\ Rolling(a)
  /\ Remaining(a) = {}
  /\ \/ journal' = NoJournal
     \/ UNCHANGED journal
  /\ app' = [app EXCEPT ![a] = Resting("idle")]
  /\ lock' = Free
  /\ UNCHANGED <<primary, lastGood, backups, onDisk, plans, breaks>>

(* A file cannot be put back: RecoveryRequired, and the journal stays. *)
RollBackFails(a) ==
  /\ Rolling(a)
  /\ app' = [app EXCEPT ![a] = Resting("idle")]
  /\ lock' = Free
  /\ UNCHANGED <<primary, lastGood, backups, journal, onDisk, plans, breaks>>

AppNext(a) ==
  \/ Crash(a)
  \/ Start(a)
  \/ BeginRecovery(a)
  \/ Plan(a)
  \/ BackUp(a)
  \/ Refuse(a)
  \/ WriteJournal(a)
  \/ Publish(a)
  \/ PublishFails(a)
  \/ Verified(a)
  \/ PlanIndex(a)
  \/ RepairIndex(a)
  \/ IndexFails(a)
  \/ Complete(a)
  \/ RollBack(a)
  \/ RolledBack(a)
  \/ RollBackFails(a)

Next ==
  \/ \E f \in Files : Commit(f) \/ Break(f)
  \/ \E f \in Recreated : Create(f)
  \/ DirectorySynced
  \/ PowerCut
  \/ \E a \in Apps : AppNext(a)

Spec == Init /\ [][Next]_vars

-----------------------------------------------------------------------------
(***************************************************************************)
(* Properties.                                                             *)
(***************************************************************************)

(* The points of a window at which it has read or written a journal.       *)
Journaled == {"publishing", "indexing", "index planned", "indexed", "rolling", "recovering"}

Points == {"down", "idle", "planned", "backed up"} \cup Journaled

Bytes == [Files -> Int]

Copies == [Files -> Nat]

Journals == [plan : 0..MaxPlans, entries : SUBSET Files, good : Copies]

Desktop == [pc : Points, plan : 0..MaxPlans, files : SUBSET Files, current : Bytes, good : Copies,
            done : 0..Len(Kinds)]

(* Every variable has its type.                                            *)
TypeOK ==
  /\ primary \in Bytes /\ lastGood \in Copies
  /\ backups \in [1..MaxPlans -> Bytes]
  /\ journal \in Journals /\ onDisk \in Journals
  /\ lock \in Apps \cup {Free}
  /\ app \in [Apps -> Desktop]
  /\ plans \in 0..MaxPlans /\ breaks \in Nat

(* A window writes under the lock; the files of its plan have a number.    *)
LockInv ==
  \A a \in Apps :
    /\ app[a].pc \in {"backed up", "publishing", "rolling"} => lock = a
    /\ app[a].pc \in {"planned", "backed up"} \cup Journaled => app[a].plan \in 1..MaxPlans

(* What a restore has still to publish is in its backup as it is.          *)
BackupInv ==
  \A a \in Apps : app[a].pc \in {"backed up", "publishing"} =>
    \A i \in Remaining(a) : primary[Kinds[i]] = backups[app[a].plan][Kinds[i]]

(* Only files that could not be read are planned and backed up, and broken *)
(* bytes are never the same twice.                                         *)
BrokenInv ==
  /\ \A a \in Apps :
       /\ At(a, "planned") \/ At(a, "backed up") =>
            \A f \in app[a].files : app[a].current[f] \in (-breaks)..0
       /\ app[a].pc \in {"backed up"} \cup Journaled =>
            \A f \in app[a].files : backups[app[a].plan][f] <= 0
  /\ \A j \in {journal, onDisk} : j # NoJournal =>
       j.plan \in 1..MaxPlans /\ \A f \in j.entries : backups[j.plan][f] <= 0
  /\ \A f \in Files : primary[f] >= -breaks
  /\ \A p \in 1..MaxPlans : \A f \in Files : backups[p][f] >= -breaks

(* While a restore writes, the last-good copies are those it read.         *)
NewestInv ==
  \A a \in Apps : app[a].pc \in {"backed up", "publishing"} =>
    \A f \in app[a].files : app[a].good[f] = lastGood[f]

RecoveryInv == TypeOK /\ LockInv /\ BackupInv /\ BrokenInv /\ NewestInv

(* Whatever was committed, created or broken since the plan was made, a    *)
(* restore overwrites only bytes that it has in its backup (recheck_plan). *)
OverwritesOnlyBackedUp ==
  [][\A a \in Apps : At(a, "publishing") =>
       \A f \in Files : primary'[f] # primary[f] => backups[app[a].plan][f] = primary[f]]_vars

(* Whatever other windows restored, rolled back and let others commit to   *)
(* since the plan was made, a restore publishes the newest last-good copy  *)
(* there is: it never brings back an older document than the one that the  *)
(* last commit kept.                                                       *)
RestoresNewest ==
  [][\A a \in Apps : At(a, "publishing") =>
       \A f \in Files : primary'[f] # primary[f] => primary'[f] = lastGood[f]]_vars

(* The doc comment of recover_interrupted_restore says that it rolls back  *)
(* only a journaled operation: what it overwrites is what that restore     *)
(* published, and not what was committed since.                            *)
RollsBackOnlyRestore ==
  [][\A a \in Apps : At(a, "recovering") /\ lock = a =>
       \A f \in Files : primary'[f] # primary[f] => primary[f] <= app[a].good[f]]_vars
=============================================================================
