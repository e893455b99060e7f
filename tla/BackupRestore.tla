----------------------------- MODULE BackupRestore -----------------------------
(***************************************************************************)
(* scripts/postgres_backup_restore.py.  A backup describes the source      *)
(* database before and after pg_dump, refuses if the descriptions differ,  *)
(* and makes the dump and the manifest durable before it prints a receipt. *)
(* A restore takes the manifest its receipt names, creates a new database, *)
(* fills it, compares it with the manifest, and drops it again if anything *)
(* went wrong after it had created it.                                     *)
(*                                                                         *)
(* Beside them: the operators of the publication and the web sessions      *)
(* change the source; several restores aim at one target name; a command   *)
(* that docker exec reports as failed may have been carried out, or may be *)
(* carried out later; a process may be killed; the power may fail, and     *)
(* then of the files only what was fsynced is sure to be there.            *)
(*                                                                         *)
(* A snapshot is what the tool's queries tell of a database: the recent    *)
(* publication, and the rows of a table that grows and shrinks (sessions). *)
(* Every other table only grows.  Checksums are the values they are of.    *)
(***************************************************************************)
EXTENDS Naturals, Sequences, SequencesExt

CONSTANTS
  Backups,         \* runs of the backup command; each writes its own directory
  Restores,        \* runs of the restore command, all with one target name
  Revisions,       \* sealed revisions of the channel RECENT_RETAIL
  MaxActivations,  \* bound: pointer operations
  MaxSessions,     \* bound: session rows
  None

ASSUME BackupAssumption ==
  MaxActivations \in Nat /\ MaxSessions \in Nat /\ None \notin Revisions \cup Restores

VARIABLES
  source,     \* the database grocery
  target,     \* the database under the target name, or None
  written,    \* of each backup directory, what is in the file system
  synced,     \* of that, what survives a power failure
  backup,     \* what each backup command holds in memory
  restore,    \* the same of each restore command
  lingering   \* commands still at work in the container after their client

vars == <<source, target, written, synced, backup, restore, lingering>>

-----------------------------------------------------------------------------
(* Descriptions of a database.                                             *)

Activation ==
  [operation : {"ACTIVATE", "ROLLBACK", "WITHDRAW"}, previous : Revisions \cup {None},
   target : Revisions \cup {None}]

(* revoked: the revisions whose approval was superseded.                   *)
Database ==
  [activations : Seq(Activation), revoked : SUBSET Revisions, sessions : Nat]

(* What the target name stands for: the restore whose createdb made it, and *)
(* what it holds.                                                          *)
Targets == [creator : Restores, content : Database \cup {None}]

(* None is neither.                                                        *)
ASSUME DatabaseAssumption == None \notin Database \cup Targets

(* What a manifest records of one.                                         *)
Inventories == [activations : Seq(Activation), current : Revisions \cup {None}, sessions : Nat]

CurrentOf(s) == IF s.activations = <<>> THEN None ELSE Last(s.activations).target

(* _parse_publication_contract: the activations replay to the pointer.     *)
ChainReplays(activations) ==
  \A n \in DOMAIN activations :
    LET step == activations[n]
        before == IF n = 1 THEN None ELSE activations[n - 1].target
        targets == {activations[m].target : m \in 1 .. n - 1} \ {None} IN
    /\ step.previous = before
    /\ IF step.operation = "WITHDRAW" THEN before # None /\ step.target = None
       ELSE step.target \notin {None, before}
    /\ step.operation = "ROLLBACK" => step.target \in targets

(* What the inventory describes: a publication that is available.          *)
Countable(s) == CurrentOf(s) # None /\ ChainReplays(s.activations)

(* inspect_recent_publication also wants its approval to stand.            *)
Inspectable(s) == Countable(s) /\ CurrentOf(s) \notin s.revoked

Canonical(s) ==
  [version |-> Len(s.activations), current |-> CurrentOf(s),
   operation |-> Last(s.activations).operation]
Inventory(s) ==
  [activations |-> s.activations, current |-> CurrentOf(s), sessions |-> s.sessions]

CanonicalMatches(canonical, inventory) ==
  canonical = [version |-> Len(inventory.activations), current |-> inventory.current,
               operation |-> Last(inventory.activations).operation]

-----------------------------------------------------------------------------
(* Backup.                                                                 *)

Files == {"directory", "dump_entry", "dump", "manifest_entry", "manifest"}
BackupStages ==
  {"idle", "inspected", "described", "dumped", "dump_synced", "described_again", "checked",
   "manifest_written", "manifest_synced", "directory_synced", "complete", "failed"}

BackupAt(b, stage) == backup[b].at = stage
BackupGoes(b, state) == backup' = [backup EXCEPT ![b] = state]

Write(b, files) == written' = [written EXCEPT ![b] = @ \cup files]
Sync(b, files) == synced' = [synced EXCEPT ![b] = @ \cup files]

InspectBefore(b) ==
  /\ BackupAt(b, "idle") /\ Inspectable(source)
  /\ BackupGoes(b, [backup[b] EXCEPT !.at = "inspected", !.canonical = Canonical(source)])
  /\ UNCHANGED <<source, target, written, synced, restore, lingering>>

DescribeBefore(b) ==
  /\ BackupAt(b, "inspected") /\ Countable(source)
  /\ CanonicalMatches(backup[b].canonical, Inventory(source))
  /\ BackupGoes(b, [backup[b] EXCEPT !.at = "described", !.inventory = Inventory(source)])
  /\ UNCHANGED <<source, target, written, synced, restore, lingering>>

(* The private directory, the dump file, and pg_dump's one snapshot.       *)
Dump(b) ==
  /\ BackupAt(b, "described")
  /\ Write(b, {"directory", "dump_entry", "dump"})
  /\ BackupGoes(b, [backup[b] EXCEPT !.at = "dumped", !.dump = source])
  /\ UNCHANGED <<source, target, synced, restore, lingering>>

SyncDump(b) ==
  /\ BackupAt(b, "dumped")
  /\ Sync(b, {"dump"})
  /\ BackupGoes(b, [backup[b] EXCEPT !.at = "dump_synced"])
  /\ UNCHANGED <<source, target, written, restore, lingering>>

DescribeAfter(b) ==
  /\ BackupAt(b, "dump_synced") /\ Countable(source)
  /\ BackupGoes(b, [backup[b] EXCEPT !.at = "described_again", !.after = Inventory(source)])
  /\ UNCHANGED <<source, target, written, synced, restore, lingering>>

(* Mutant for ManifestDescribesDump: only the row counts are compared.     *)
CountsUnchanged(b) == backup[b].inventory.sessions = backup[b].after.sessions

(* backup_changed_during_dump otherwise.                                   *)
Unchanged(b) ==
  backup[b].inventory = backup[b].after /\ backup[b].canonical = Canonical(source)

InspectAfter(b) ==
  /\ BackupAt(b, "described_again") /\ Inspectable(source)
  /\ CanonicalMatches(Canonical(source), backup[b].after)
  /\ Unchanged(b)
  /\ BackupGoes(b, [backup[b] EXCEPT !.at = "checked", !.after = None])
  /\ UNCHANGED <<source, target, written, synced, restore, lingering>>

WriteManifest(b) ==
  /\ BackupAt(b, "checked")
  /\ Write(b, {"manifest_entry", "manifest"})
  /\ BackupGoes(b, [backup[b] EXCEPT !.at = "manifest_written"])
  /\ UNCHANGED <<source, target, synced, restore, lingering>>

SyncManifest(b) ==
  /\ BackupAt(b, "manifest_written")
  /\ Sync(b, {"manifest"})
  /\ BackupGoes(b, [backup[b] EXCEPT !.at = "manifest_synced"])
  /\ UNCHANGED <<source, target, written, restore, lingering>>

(* Mutant for ReceiptSurvivesPowerFailure: the directory is fsynced before *)
(* the manifest is in it.                                                  *)
EntriesBeforeManifest == {"dump_entry"}

(* What fsync of the backup directory makes durable.                       *)
Entries == {"dump_entry", "manifest_entry"}

SyncDirectory(b) ==
  /\ BackupAt(b, "manifest_synced")
  /\ Sync(b, Entries)
  /\ BackupGoes(b, [backup[b] EXCEPT !.at = "directory_synced"])
  /\ UNCHANGED <<source, target, written, restore, lingering>>

(* The destination is fsynced, and the receipt printed.                    *)
CompleteBackup(b) ==
  /\ BackupAt(b, "directory_synced")
  /\ Sync(b, {"directory"})
  /\ BackupGoes(b, [backup[b] EXCEPT !.at = "complete"])
  /\ UNCHANGED <<source, target, written, restore, lingering>>

(* Any check or command fails, or the process is killed.                   *)
BackupFails(b) ==
  /\ backup[b].at \notin {"complete", "failed"}
  /\ BackupGoes(b, [backup[b] EXCEPT !.at = "failed"])
  /\ UNCHANGED <<source, target, written, synced, restore, lingering>>

-----------------------------------------------------------------------------
(* Restore.                                                                *)

RestoreStages ==
  {"idle", "loaded", "absent", "created", "filled", "cleaning", "dropped", "ended"}
FailureCodes ==
  {"backup_invalid", "target_database_exists", "create_target_failed", "restore_failed",
   "database_container_invalid", "target_cleanup_failed", "internal_error"}
(* KILLED: it said nothing.                                                *)
Codes == FailureCodes \cup {"VERIFIED", "KILLED"}
ASSUME CodeAssumption == None \notin Codes

RestoreAt(x, stage) == restore[x].at = stage
RestoreGoes(x, state) == restore' = [restore EXCEPT ![x] = state]
EndsWith(x, code) == RestoreGoes(x, [restore[x] EXCEPT !.at = "ended", !.code = code])

(* Mutant for CleanupClaimIsTrue: a failed createdb is taken to have made  *)
(* nothing.                                                                *)
CleanupAfterOwnDropOnly ==
  {"database_container_invalid", "target_cleanup_failed", "internal_error"}

(* _print_failure: what a failed restore says of its target.               *)
ManualCleanup ==
  {"create_target_failed", "database_container_invalid", "target_cleanup_failed",
   "internal_error"}
SaysNothingIsLeft(x) == restore[x].code \in FailureCodes \ ManualCleanup

(* _load_backup with the manifest hash of a printed receipt.               *)
Intact(b) == written[b] = Files

Load(x, b) ==
  /\ RestoreAt(x, "idle") /\ BackupAt(b, "complete")
  /\ IF Intact(b) THEN RestoreGoes(x, [restore[x] EXCEPT !.at = "loaded", !.of = b])
     ELSE EndsWith(x, "backup_invalid")
  /\ UNCHANGED <<source, target, written, synced, backup, lingering>>

CheckTarget(x) ==
  /\ RestoreAt(x, "loaded")
  /\ IF target = None THEN RestoreGoes(x, [restore[x] EXCEPT !.at = "absent"])
     ELSE EndsWith(x, "target_database_exists")
  /\ UNCHANGED <<source, target, written, synced, backup, lingering>>

(* A command reported as failed was refused, or carried out all the same,  *)
(* or is still at work in the container when its client gives up.          *)
ReportedFailed(x, command, effect) ==
  \/ UNCHANGED <<target, lingering>>
  \/ effect /\ UNCHANGED lingering
  \/ lingering' = lingering \cup {<<x, command>>} /\ UNCHANGED target

EmptyDatabaseOf(x) == [creator |-> x, content |-> None]

CreateTarget(x) ==
  /\ RestoreAt(x, "absent") /\ target = None
  /\ target' = EmptyDatabaseOf(x)
  /\ RestoreGoes(x, [restore[x] EXCEPT !.at = "created"])
  /\ UNCHANGED <<source, written, synced, backup, lingering>>

(* Mutant for DropsOnlyItsOwn: a createdb that failed is cleaned up too.   *)
CleansUpAnyway(x, code) == RestoreGoes(x, [restore[x] EXCEPT !.at = "cleaning"])

(* cleanup_required is not set yet: whoever has the name, it is left alone. *)
GivesUp(x, code) == EndsWith(x, code)

CreateFails(x) ==
  /\ RestoreAt(x, "absent")
  /\ \E code \in {"create_target_failed", "database_container_invalid"} : GivesUp(x, code)
  /\ ReportedFailed(x, "createdb", target = None /\ target' = EmptyDatabaseOf(x))
  /\ UNCHANGED <<source, written, synced, backup>>

(* pg_restore in one transaction, into a database without tables.          *)
Fill(x) ==
  /\ RestoreAt(x, "created") /\ target # None /\ target.content = None
  /\ target' = [target EXCEPT !.content = backup[restore[x].of].dump]
  /\ RestoreGoes(x, [restore[x] EXCEPT !.at = "filled"])
  /\ UNCHANGED <<source, written, synced, backup, lingering>>

(* Mutant for VerifiedRestoreIsTheBackup: the row counts are left out.     *)
AgreesOnPublication(s, b) ==
  Inspectable(s) /\ Canonical(s) = backup[b].canonical

(* Every comparison of the restored database with the manifest.            *)
AgreesWithManifest(s, b) ==
  /\ Inspectable(s) /\ CanonicalMatches(Canonical(s), Inventory(s))
  /\ Inventory(s) = backup[b].inventory
  /\ Canonical(s) = backup[b].canonical

Verify(x) ==
  /\ RestoreAt(x, "filled") /\ target # None /\ target.content # None
  /\ AgreesWithManifest(target.content, restore[x].of)
  /\ EndsWith(x, "VERIFIED")
  /\ UNCHANGED <<source, target, written, synced, backup, lingering>>

(* A command fails, or a comparison does, after the target was created.    *)
StartCleanup(x) ==
  /\ restore[x].at \in {"created", "filled"}
  /\ RestoreGoes(x, [restore[x] EXCEPT !.at = "cleaning"])
  /\ UNCHANGED <<source, target, written, synced, backup, lingering>>

DropTarget(x) ==
  /\ RestoreAt(x, "cleaning")
  /\ target' = None
  /\ RestoreGoes(x, [restore[x] EXCEPT !.at = "dropped"])
  /\ UNCHANGED <<source, written, synced, backup, lingering>>

CleanupFails(x) ==
  /\ RestoreAt(x, "cleaning")
  /\ EndsWith(x, "target_cleanup_failed")
  /\ ReportedFailed(x, "dropdb", target' = None)
  /\ UNCHANGED <<source, written, synced, backup>>

ConfirmDropped(x) ==
  /\ RestoreAt(x, "dropped")
  /\ EndsWith(x, IF target = None THEN "restore_failed" ELSE "target_cleanup_failed")
  /\ UNCHANGED <<source, target, written, synced, backup, lingering>>

(* An exception of another kind passes the cleanup by.                     *)
RestoreBreaksOff(x) ==
  /\ restore[x].at \notin {"idle", "ended"}
  /\ \E code \in {"KILLED", "internal_error"} : EndsWith(x, code)
  /\ UNCHANGED <<source, target, written, synced, backup, lingering>>

-----------------------------------------------------------------------------
(* Around the tool.                                                        *)

(* The receipts ask a person to drop the target of a run that has ended.   *)
OperatorDropsTarget ==
  /\ target # None /\ RestoreAt(target.creator, "ended")
  /\ restore[target.creator].code \in ManualCleanup \cup {"VERIFIED", "KILLED"}
  /\ target' = None
  /\ UNCHANGED <<source, written, synced, backup, restore, lingering>>

(* A command that outlived its client: carried out at last, or killed by   *)
(* its own timeout.                                                        *)
LingeringCommand ==
  \E command \in lingering :
    /\ lingering' = lingering \ {command}
    /\ \/ UNCHANGED target
       \/ command[2] = "createdb" /\ target = None /\ target' = EmptyDatabaseOf(command[1])
       \/ command[2] = "dropdb" /\ target' = None
    /\ UNCHANGED <<source, written, synced, backup, restore>>

(* The source changes while some backup is yet to finish.                  *)
SomeBackupOpen == \E b \in Backups : backup[b].at \notin {"complete", "failed"}

OperatePointer ==
  /\ SomeBackupOpen /\ Len(source.activations) < MaxActivations
  /\ \E step \in Activation :
       /\ ChainReplays(Append(source.activations, step))
       /\ step.operation = "ACTIVATE" => step.target \notin source.revoked
       /\ source' = [source EXCEPT !.activations = Append(@, step)]
  /\ UNCHANGED <<target, written, synced, backup, restore, lingering>>

SupersedeApproval ==
  /\ SomeBackupOpen
  /\ \E v \in Revisions \ source.revoked : source' = [source EXCEPT !.revoked = @ \cup {v}]
  /\ UNCHANGED <<target, written, synced, backup, restore, lingering>>

SessionsChange ==
  /\ SomeBackupOpen
  /\ \E n \in 0 .. MaxSessions : n # source.sessions /\ source' = [source EXCEPT !.sessions = n]
  /\ UNCHANGED <<target, written, synced, backup, restore, lingering>>

(* Every process is gone; the databases are what was committed, and of the *)
(* files some of what was not fsynced may be lost.                         *)
PowerFails ==
  /\ \E kept \in [Backups -> SUBSET Files] :
       /\ \A b \in Backups : synced[b] \subseteq kept[b] /\ kept[b] \subseteq written[b]
       /\ written' = kept /\ synced' = kept
  /\ backup' = [b \in Backups |->
                  IF backup[b].at = "complete" THEN backup[b] ELSE [backup[b] EXCEPT !.at = "failed"]]
  /\ restore' = [x \in Restores |->
                   IF restore[x].at \in {"idle", "ended"} THEN restore[x]
                   ELSE [restore[x] EXCEPT !.at = "ended", !.code = "KILLED"]]
  /\ lingering' = {}
  /\ UNCHANGED <<source, target>>

Init ==
  /\ \E v \in Revisions :
       source = [activations |-> <<[operation |-> "ACTIVATE", previous |-> None, target |-> v]>>,
                 revoked |-> {}, sessions |-> 0]
  /\ target = None
  /\ written = [b \in Backups |-> {}]
  /\ synced = [b \in Backups |-> {}]
  /\ backup = [b \in Backups |-> [at |-> "idle", canonical |-> None, inventory |-> None,
                                  after |-> None, dump |-> None]]
  /\ restore = [x \in Restores |-> [at |-> "idle", of |-> None, code |-> None]]
  /\ lingering = {}

Next ==
  \/ \E b \in Backups :
       \/ InspectBefore(b) \/ DescribeBefore(b) \/ Dump(b) \/ SyncDump(b) \/ DescribeAfter(b)
       \/ InspectAfter(b) \/ WriteManifest(b) \/ SyncManifest(b) \/ SyncDirectory(b)
       \/ CompleteBackup(b) \/ BackupFails(b)
  \/ \E x \in Restores :
       \/ \E b \in Backups : Load(x, b)
       \/ CheckTarget(x) \/ CreateTarget(x) \/ CreateFails(x) \/ Fill(x) \/ Verify(x)
       \/ StartCleanup(x) \/ DropTarget(x) \/ CleanupFails(x) \/ ConfirmDropped(x)
       \/ RestoreBreaksOff(x)
  \/ OperatorDropsTarget \/ LingeringCommand
  \/ OperatePointer \/ SupersedeApproval \/ SessionsChange
  \/ PowerFails

Spec == Init /\ [][Next]_vars

-----------------------------------------------------------------------------
(* Properties.                                                             *)

TypeOK ==
  /\ source \in Database
  /\ target \in Targets \cup {None}
  /\ \A b \in Backups :
       /\ backup[b].at \in BackupStages
       /\ synced[b] \subseteq written[b] /\ written[b] \subseteq Files
       /\ backup[b].at = "complete" =>
            backup[b].inventory \in Inventories /\ backup[b].dump \in Database
  /\ \A x \in Restores :
       /\ restore[x].at \in RestoreStages /\ restore[x].of \in Backups \cup {None}
       /\ restore[x].code \in Codes \cup {None}
       /\ (restore[x].at = "ended") = (restore[x].code # None)
  /\ lingering \subseteq Restores \X {"createdb", "dropdb"}

(* A printed receipt names a dump whose publication is the one the         *)
(* manifest describes, whatever was published between the two descriptions *)
(* and the dump.  The row counts carry no such promise: sessions come and  *)
(* go, so a dump may hold others than were counted before and after.       *)
ManifestDescribesDump ==
  \A b \in Backups : backup[b].at = "complete" =>
    /\ Inspectable(backup[b].dump)
    /\ backup[b].inventory.activations = backup[b].dump.activations
    /\ CanonicalMatches(backup[b].canonical, backup[b].inventory)

(* From its receipt on, a backup is there in full, also after the power    *)
(* failed at any point.                                                    *)
ReceiptSurvivesPowerFailure ==
  \A b \in Backups : backup[b].at = "complete" => Intact(b)

(* A restore is reported as verified only of a database that holds what    *)
(* the manifest says, row counts included: a dump that fell between two    *)
(* states is refused here.  It is the dump of a completed backup, and the  *)
(* one that was asked for unless the target was dropped meanwhile and      *)
(* another restore filled the name again.                                  *)
VerifiedRestoreIsTheBackup ==
  [][\A x \in Restores : restore'[x].code = "VERIFIED" /\ restore[x].code # "VERIFIED" =>
       LET asked == backup[restore[x].of] IN
       /\ target # None
       /\ target.content.activations = asked.inventory.activations
       /\ target.content.sessions = asked.inventory.sessions
       /\ \E b \in Backups : BackupAt(b, "complete") /\ target.content = backup[b].dump
       /\ target.creator = x => target.content = asked.dump]_vars

(* The tool drops no database that another run created under the name: the *)
(* absence check and createdb are two steps, and of a createdb that failed *)
(* nobody knows whose database is there.  The one exception: a dropdb that *)
(* outlived the run that reported target_cleanup_failed.                   *)
DropsOnlyItsOwn ==
  [][\A x \in Restores : RestoreAt(x, "cleaning") /\ restore'[x].at # "cleaning" =>
       \/ target' = target
       \/ target.creator = x
       \/ \E y \in Restores : restore[y].code = "target_cleanup_failed"]_vars

(* When a failed restore says that nothing is left to clean up, no         *)
(* database of its making is there, nor a command that may still make one. *)
CleanupClaimIsTrue ==
  \A x \in Restores : SaysNothingIsLeft(x) =>
    /\ target = None \/ target.creator # x
    /\ <<x, "createdb">> \notin lingering
================================================================================
