-------------------------- MODULE BackupRestoreProofs --------------------------
(***************************************************************************)
(* Backup and restore, for any number of backups, restores, revisions and  *)
(* pointer operations.                                                     *)
(*                                                                         *)
(*   - A dump lies between two descriptions that are equal, and the events *)
(*     of a publication are only appended: so it holds the events both     *)
(*     describe, although its row counts may be others.                    *)
(*   - What a backup has written and fsynced follows from its stage.       *)
(*   - While no cleanup has failed, the target of a restore at work is its *)
(*     own; no database is made for a restore that has ended but by a      *)
(*     createdb that it reported.                                          *)
(***************************************************************************)
EXTENDS BackupRestore, SequenceTheorems, TLAPS

-----------------------------------------------------------------------------
(* The invariant.                                                          *)

(* The events of s are the first events of t.                              *)
Before(s, t) == Len(s) <= Len(t) /\ \A i \in 1 .. Len(s) : s[i] = t[i]

Checked ==
  {"checked", "manifest_written", "manifest_synced", "directory_synced", "complete"}
Dumped == {"dumped", "dump_synced", "described_again"} \cup Checked
Described == {"described"} \cup Dumped

(* What a backup at work holds in memory, against the source.              *)
ManifestFits(b) ==
  LET inventory == backup[b].inventory
      after     == backup[b].after
      dump      == backup[b].dump IN
  /\ backup[b].at \in Described =>
       /\ inventory \in Inventories
       /\ Countable(inventory)
       /\ CanonicalMatches(backup[b].canonical, inventory)
       /\ inventory.current = CurrentOf(inventory)
  /\ backup[b].at \in Described \ Checked => Before(inventory.activations, source.activations)
  /\ backup[b].at \in Dumped =>
       /\ dump \in Database
       /\ Before(inventory.activations, dump.activations)
  /\ backup[b].at \in Dumped \ Checked =>
       /\ Before(dump.activations, source.activations)
       /\ dump.revoked \subseteq source.revoked
  /\ backup[b].at = "described_again" =>
       /\ after \in Inventories
       /\ Before(dump.activations, after.activations)
  /\ backup[b].at \in Checked => dump.activations = inventory.activations /\ Inspectable(dump)

(* What it has in the file system.                                         *)
FilesFit(b) ==
  /\ synced[b] \subseteq written[b] /\ written[b] \subseteq Files
  /\ backup[b].at \in Dumped => {"directory", "dump_entry", "dump"} \subseteq written[b]
  /\ backup[b].at \in Dumped \ {"dumped"} => "dump" \in synced[b]
  /\ backup[b].at \in {"manifest_written", "manifest_synced", "directory_synced", "complete"} =>
       written[b] = Files
  /\ backup[b].at \in {"manifest_synced", "directory_synced", "complete"} => "manifest" \in synced[b]
  /\ backup[b].at \in {"directory_synced", "complete"} => Entries \subseteq synced[b]
  /\ backup[b].at = "complete" => synced[b] = Files

Descriptions ==
  [version : Nat, current : Revisions \cup {None}, operation : {"ACTIVATE", "ROLLBACK", "WITHDRAW"}]

BackupState ==
  [at : BackupStages, canonical : Descriptions \cup {None}, inventory : Inventories \cup {None},
   after : Inventories \cup {None}, dump : Database \cup {None}]

BackupsFit ==
  /\ backup \in [Backups -> BackupState]
  /\ written \in [Backups -> SUBSET Files]
  /\ synced \in [Backups -> SUBSET Files]
  /\ \A b \in Backups : ManifestFits(b) /\ FilesFit(b)

Working == {"loaded", "absent", "created", "filled", "cleaning", "dropped"}
Owning == {"created", "filled", "cleaning"}
CleanupFailed == \E y \in Restores : restore[y].code = "target_cleanup_failed"

RestoreState == [at : RestoreStages, of : Backups \cup {None}, code : Codes \cup {None}]

(* Whose the target is, and what is in it.                                 *)
RestoreFits(x) ==
  /\ restore[x].at = "ended" => restore[x].code \in Codes
  /\ restore[x].at # "ended" => restore[x].code = None
  /\ restore[x].at \in Working => restore[x].of \in Backups /\ BackupAt(restore[x].of, "complete")
  /\ restore[x].at \in Owning => CleanupFailed \/ (target # None /\ target.creator = x)
  /\ target # None /\ target.creator = x =>
       \/ restore[x].at \in Owning
       \/ restore[x].at = "ended" /\ ~SaysNothingIsLeft(x)
  /\ target # None /\ target.creator = x /\ restore[x].at = "filled" =>
       target.content = backup[restore[x].of].dump
  /\ <<x, "createdb">> \in lingering =>
       restore[x].code \in {"create_target_failed", "database_container_invalid"}
  /\ <<x, "dropdb">> \in lingering => restore[x].code = "target_cleanup_failed"

RestoresFit ==
  /\ restore \in [Restores -> RestoreState]
  /\ target \in Targets \cup {None}
  /\ target # None /\ target.content # None =>
       \E b \in Backups : BackupAt(b, "complete") /\ target.content = backup[b].dump
  /\ lingering \subseteq Restores \X {"createdb", "dropdb"}
  /\ \A x \in Restores : RestoreFits(x)

BackupRestoreInv ==
  /\ source \in Database
  /\ BackupsFit
  /\ RestoresFit

-----------------------------------------------------------------------------
(* Sequences of events.                                                    *)

LEMMA BeforeItself ==
  ASSUME NEW s
  PROVE  Before(s, s)
  BY DEF Before

LEMMA BeforeAppend ==
  ASSUME NEW s \in Seq(Activation), NEW t \in Seq(Activation), NEW step \in Activation, Before(s, t)
  PROVE  Before(s, Append(t, step))
  BY DEF Before

LEMMA BeforeBoth ==
  ASSUME NEW s \in Seq(Activation), NEW t \in Seq(Activation), NEW u \in Seq(Activation),
         Before(s, t), Before(t, u), u = s
  PROVE  t = s
<1>1. Len(s) = Len(t) /\ \A i \in 1 .. Len(s) : s[i] = t[i]
  BY DEF Before
<1> QED BY <1>1, SeqEqual

(* What is told of a database depends on its events alone.                 *)
LEMMA SameEvents ==
  ASSUME NEW s, NEW t, s.activations = t.activations
  PROVE  CurrentOf(s) = CurrentOf(t) /\ (Countable(s) <=> Countable(t))
  BY DEF CurrentOf, Countable

LEMMA CurrentType ==
  ASSUME NEW s, s.activations \in Seq(Activation)
  PROVE  CurrentOf(s) \in Revisions \cup {None}
<1>1. CASE s.activations = <<>>
  BY <1>1 DEF CurrentOf
<1>2. CASE s.activations # <<>>
  <2>1. s.activations[Len(s.activations)] \in Activation
    BY <1>2
  <2> QED BY <1>2, <2>1 DEF CurrentOf, Last, Activation
<1> QED BY <1>1, <1>2

LEMMA InventoryType ==
  ASSUME NEW s \in Database
  PROVE  Inventory(s) \in Inventories /\ Inventory(s).activations = s.activations
         /\ Inventory(s).current = CurrentOf(s) /\ Inventory(s).sessions = s.sessions
<1>1. s.activations \in Seq(Activation) /\ s.sessions \in Nat
  BY DEF Database
<1> QED BY <1>1, CurrentType DEF Inventory, Inventories

LEMMA BeforeTrans ==
  ASSUME NEW s \in Seq(Activation), NEW t \in Seq(Activation), NEW u \in Seq(Activation),
         Before(s, t), Before(t, u)
  PROVE  Before(s, u)
  BY DEF Before

LEMMA CanonicalType ==
  ASSUME NEW s \in Database, CurrentOf(s) # None
  PROVE  Canonical(s) \in Descriptions
<1>1. s.activations \in Seq(Activation) /\ s.activations # <<>>
  BY DEF Database, CurrentOf
<1>2. Last(s.activations) \in Activation
  BY <1>1 DEF Last
<1>3. Last(s.activations).operation \in {"ACTIVATE", "ROLLBACK", "WITHDRAW"}
  BY <1>2 DEF Activation
<1>4. Len(s.activations) \in Nat /\ CurrentOf(s) \in Revisions \cup {None}
  BY <1>1, CurrentType
<1> QED BY <1>3, <1>4 DEF Canonical, Descriptions

-----------------------------------------------------------------------------
(* Backups.                                                                *)

(* One backup gets on, the others and the source stand still.              *)
LEMMA OneBackup ==
  ASSUME BackupsFit, NEW b \in Backups, source' = source,
         NEW state \in BackupState, BackupGoes(b, state),
         \A c \in Backups \ {b} : written'[c] = written[c] /\ synced'[c] = synced[c],
         written' \in [Backups -> SUBSET Files], synced' \in [Backups -> SUBSET Files],
         ManifestFits(b)', FilesFit(b)'
  PROVE  BackupsFit'
<1>1. backup' \in [Backups -> BackupState] /\ \A c \in Backups \ {b} : backup'[c] = backup[c]
  BY DEF BackupsFit, BackupGoes
<1>2. ASSUME NEW c \in Backups \ {b}
      PROVE  ManifestFits(c)' /\ FilesFit(c)'
  BY <1>1, <1>2 DEF BackupsFit, ManifestFits, FilesFit
<1> QED BY <1>1, <1>2 DEF BackupsFit

LEMMA Writing ==
  ASSUME BackupsFit, NEW b \in Backups, NEW files \in SUBSET Files
  PROVE  /\ Write(b, files) => /\ written' \in [Backups -> SUBSET Files]
                               /\ written'[b] = written[b] \cup files
                               /\ \A c \in Backups \ {b} : written'[c] = written[c]
         /\ Sync(b, files) => /\ synced' \in [Backups -> SUBSET Files]
                              /\ synced'[b] = synced[b] \cup files
                              /\ \A c \in Backups \ {b} : synced'[c] = synced[c]
  BY DEF BackupsFit, Write, Sync

(* The steps that only fsync or write, or give up.                         *)
LEMMA StageOnly ==
  ASSUME BackupsFit, NEW b \in Backups, NEW at \in BackupStages, source' = source,
         BackupGoes(b, [backup[b] EXCEPT !.at = at]),
         \/ at = "failed"
         \/ backup[b].at \in Dumped \ Checked /\ at \in Dumped \ (Checked \cup {"described_again"})
         \/ backup[b].at \in Checked /\ at \in Checked
  PROVE  /\ [backup[b] EXCEPT !.at = at] \in BackupState
         /\ backup'[b].at = at
         /\ ManifestFits(b)'
<1>1. [backup[b] EXCEPT !.at = at] \in BackupState
  BY DEF BackupsFit, BackupState
<1>2. /\ backup'[b].at = at /\ backup'[b].canonical = backup[b].canonical
      /\ backup'[b].inventory = backup[b].inventory /\ backup'[b].dump = backup[b].dump
  BY DEF BackupsFit, BackupState, BackupGoes
<1> QED BY <1>1, <1>2 DEF BackupsFit, ManifestFits, Described, Dumped, Checked

LEMMA BackupStep ==
  ASSUME BackupRestoreInv, NEW b \in Backups,
         \/ InspectBefore(b) \/ DescribeBefore(b) \/ Dump(b) \/ SyncDump(b) \/ DescribeAfter(b)
         \/ InspectAfter(b) \/ WriteManifest(b) \/ SyncManifest(b) \/ SyncDirectory(b)
         \/ CompleteBackup(b) \/ BackupFails(b)
  PROVE  BackupsFit'
<1>1. BackupsFit /\ source \in Database /\ ManifestFits(b) /\ FilesFit(b) /\ backup[b] \in BackupState
  BY DEF BackupRestoreInv, BackupsFit
<1>2. source.activations \in Seq(Activation)
  BY <1>1 DEF Database
<1>3. CASE InspectBefore(b)
  <2> DEFINE state == [backup[b] EXCEPT !.at = "inspected", !.canonical = Canonical(source)]
  <2>1. state \in BackupState
    BY <1>1, <1>3, CanonicalType DEF InspectBefore, Inspectable, Countable, BackupState, BackupStages
  <2>2. BackupGoes(b, state) /\ UNCHANGED <<source, written, synced>> /\ backup[b].at = "idle"
    BY <1>3 DEF InspectBefore, BackupAt
  <2>3. backup'[b].at = "inspected"
    BY <1>1, <2>2 DEF BackupGoes, BackupsFit, BackupState
  <2>4. ManifestFits(b)' /\ FilesFit(b)'
    BY <1>1, <2>2, <2>3 DEF ManifestFits, FilesFit, Described, Dumped, Checked
  <2> QED BY <1>1, <2>1, <2>2, <2>4, OneBackup DEF BackupsFit
<1>4. CASE DescribeBefore(b)
  <2> DEFINE state == [backup[b] EXCEPT !.at = "described", !.inventory = Inventory(source)]
  <2>1. state \in BackupState
    BY <1>1, InventoryType DEF BackupState, BackupStages
  <2>2. /\ BackupGoes(b, state) /\ UNCHANGED <<source, written, synced>> /\ backup[b].at = "inspected"
        /\ Countable(source) /\ CanonicalMatches(backup[b].canonical, Inventory(source))
    BY <1>4 DEF DescribeBefore, BackupAt
  <2>3. /\ backup'[b].at = "described" /\ backup'[b].canonical = backup[b].canonical
        /\ backup'[b].inventory = Inventory(source)
    BY <1>1, <2>2 DEF BackupGoes, BackupsFit, BackupState
  <2>4. /\ Inventory(source) \in Inventories /\ Countable(Inventory(source))
        /\ Inventory(source).current = CurrentOf(Inventory(source))
        /\ Before(Inventory(source).activations, source.activations)
    BY <1>1, <2>2, InventoryType, SameEvents, BeforeItself
  <2>5. ManifestFits(b)' /\ FilesFit(b)'
    BY <1>1, <2>2, <2>3, <2>4 DEF ManifestFits, FilesFit, Described, Dumped, Checked
  <2> QED BY <1>1, <2>1, <2>2, <2>5, OneBackup DEF BackupsFit
<1>5. CASE Dump(b)
  <2> DEFINE state == [backup[b] EXCEPT !.at = "dumped", !.dump = source]
  <2>1. state \in BackupState
    BY <1>1 DEF BackupState, BackupStages
  <2>2. /\ BackupGoes(b, state) /\ UNCHANGED <<source, synced>> /\ backup[b].at = "described"
        /\ Write(b, {"directory", "dump_entry", "dump"})
    BY <1>5 DEF Dump, BackupAt
  <2>3. /\ backup'[b].at = "dumped" /\ backup'[b].canonical = backup[b].canonical
        /\ backup'[b].inventory = backup[b].inventory /\ backup'[b].dump = source
    BY <1>1, <2>2 DEF BackupGoes, BackupsFit, BackupState
  <2>4. ManifestFits(b)'
    BY <1>1, <2>2, <2>3, BeforeItself DEF ManifestFits, Described, Dumped, Checked
  <2>5. /\ written' \in [Backups -> SUBSET Files] /\ FilesFit(b)'
        /\ \A c \in Backups \ {b} : written'[c] = written[c]
    BY <1>1, <2>2, <2>3, Writing DEF FilesFit, Files, Dumped, Checked
  <2> QED BY <1>1, <2>1, <2>2, <2>4, <2>5, OneBackup DEF BackupsFit
<1>6. CASE SyncDump(b)
  <2>1. /\ BackupGoes(b, [backup[b] EXCEPT !.at = "dump_synced"]) /\ UNCHANGED <<source, written>>
        /\ backup[b].at = "dumped" /\ Sync(b, {"dump"})
    BY <1>6 DEF SyncDump, BackupAt
  <2>2. /\ [backup[b] EXCEPT !.at = "dump_synced"] \in BackupState /\ backup'[b].at = "dump_synced"
        /\ ManifestFits(b)'
    BY <1>1, <2>1, StageOnly DEF BackupStages, Dumped, Checked
  <2>3. /\ synced' \in [Backups -> SUBSET Files] /\ FilesFit(b)'
        /\ \A c \in Backups \ {b} : synced'[c] = synced[c]
    BY <1>1, <2>1, <2>2, Writing DEF FilesFit, Files, Dumped, Checked
  <2> QED BY <1>1, <2>1, <2>2, <2>3, OneBackup DEF BackupsFit
<1>7. CASE DescribeAfter(b)
  <2> DEFINE state == [backup[b] EXCEPT !.at = "described_again", !.after = Inventory(source)]
  <2>1. state \in BackupState
    BY <1>1, InventoryType DEF BackupState, BackupStages
  <2>2. BackupGoes(b, state) /\ UNCHANGED <<source, written, synced>> /\ backup[b].at = "dump_synced"
    BY <1>7 DEF DescribeAfter, BackupAt
  <2>3. /\ backup'[b].at = "described_again" /\ backup'[b].canonical = backup[b].canonical
        /\ backup'[b].inventory = backup[b].inventory /\ backup'[b].dump = backup[b].dump
        /\ backup'[b].after = Inventory(source)
    BY <1>1, <2>2 DEF BackupGoes, BackupsFit, BackupState
  <2>4. ManifestFits(b)' /\ FilesFit(b)'
    BY <1>1, <2>2, <2>3, InventoryType DEF ManifestFits, FilesFit, Described, Dumped, Checked
  <2> QED BY <1>1, <2>1, <2>2, <2>4, OneBackup DEF BackupsFit
<1>8. CASE InspectAfter(b)
  <2> DEFINE state == [backup[b] EXCEPT !.at = "checked", !.after = None]
             dump == backup[b].dump
             inventory == backup[b].inventory
  <2>1. state \in BackupState
    BY <1>1 DEF BackupState, BackupStages
  <2>2. /\ BackupGoes(b, state) /\ UNCHANGED <<source, written, synced>>
        /\ backup[b].at = "described_again" /\ Inspectable(source)
        /\ inventory = backup[b].after /\ backup[b].canonical = Canonical(source)
    BY <1>8 DEF InspectAfter, BackupAt, Unchanged
  <2>3. /\ backup'[b].at = "checked" /\ backup'[b].canonical = backup[b].canonical
        /\ backup'[b].inventory = inventory /\ backup'[b].dump = dump
    BY <1>1, <2>2 DEF BackupGoes, BackupsFit, BackupState
  <2>4. /\ inventory \in Inventories /\ dump \in Database /\ Countable(inventory)
        /\ Before(inventory.activations, dump.activations)
        /\ Before(dump.activations, inventory.activations)
        /\ dump.revoked \subseteq source.revoked
        /\ CanonicalMatches(backup[b].canonical, inventory)
        /\ inventory.current = CurrentOf(inventory)
    BY <1>1, <2>2 DEF ManifestFits, Described, Dumped, Checked
  <2>5. dump.activations = inventory.activations
    BY <2>4, BeforeBoth DEF Inventories, Database
  <2>6. Inspectable(dump)
    <3>1. Countable(dump) /\ CurrentOf(dump) = inventory.current
      BY <2>4, <2>5, SameEvents
    <3>2. inventory.current = CurrentOf(source)
      BY <2>2, <2>4 DEF CanonicalMatches, Canonical
    <3> QED BY <2>2, <2>4, <3>1, <3>2 DEF Inspectable
  <2>7. ManifestFits(b)' /\ FilesFit(b)'
    BY <1>1, <2>2, <2>3, <2>4, <2>5, <2>6 DEF ManifestFits, FilesFit, Described, Dumped, Checked
  <2> QED BY <1>1, <2>1, <2>2, <2>7, OneBackup DEF BackupsFit
<1>9. CASE WriteManifest(b)
  <2>1. /\ BackupGoes(b, [backup[b] EXCEPT !.at = "manifest_written"]) /\ UNCHANGED <<source, synced>>
        /\ backup[b].at = "checked" /\ Write(b, {"manifest_entry", "manifest"})
    BY <1>9 DEF WriteManifest, BackupAt
  <2>2. /\ [backup[b] EXCEPT !.at = "manifest_written"] \in BackupState
        /\ backup'[b].at = "manifest_written" /\ ManifestFits(b)'
    BY <1>1, <2>1, StageOnly DEF BackupStages, Checked
  <2>3. /\ written' \in [Backups -> SUBSET Files] /\ FilesFit(b)'
        /\ \A c \in Backups \ {b} : written'[c] = written[c]
    BY <1>1, <2>1, <2>2, Writing DEF FilesFit, Files, Dumped, Checked
  <2> QED BY <1>1, <2>1, <2>2, <2>3, OneBackup DEF BackupsFit
<1>10. CASE SyncManifest(b)
  <2>1. /\ BackupGoes(b, [backup[b] EXCEPT !.at = "manifest_synced"]) /\ UNCHANGED <<source, written>>
        /\ backup[b].at = "manifest_written" /\ Sync(b, {"manifest"})
    BY <1>10 DEF SyncManifest, BackupAt
  <2>2. /\ [backup[b] EXCEPT !.at = "manifest_synced"] \in BackupState
        /\ backup'[b].at = "manifest_synced" /\ ManifestFits(b)'
    BY <1>1, <2>1, StageOnly DEF BackupStages, Checked
  <2>3. /\ synced' \in [Backups -> SUBSET Files] /\ FilesFit(b)'
        /\ \A c \in Backups \ {b} : synced'[c] = synced[c]
    BY <1>1, <2>1, <2>2, Writing DEF FilesFit, Files, Dumped, Checked
  <2> QED BY <1>1, <2>1, <2>2, <2>3, OneBackup DEF BackupsFit
<1>11. CASE SyncDirectory(b)
  <2>1. /\ BackupGoes(b, [backup[b] EXCEPT !.at = "directory_synced"]) /\ UNCHANGED <<source, written>>
        /\ backup[b].at = "manifest_synced" /\ Sync(b, Entries)
    BY <1>11 DEF SyncDirectory, BackupAt
  <2>2. /\ [backup[b] EXCEPT !.at = "directory_synced"] \in BackupState
        /\ backup'[b].at = "directory_synced" /\ ManifestFits(b)'
    BY <1>1, <2>1, StageOnly DEF BackupStages, Checked
  <2>3. /\ synced' \in [Backups -> SUBSET Files] /\ FilesFit(b)'
        /\ \A c \in Backups \ {b} : synced'[c] = synced[c]
    BY <1>1, <2>1, <2>2, Writing DEF FilesFit, Files, Dumped, Checked, Entries
  <2> QED BY <1>1, <2>1, <2>2, <2>3, OneBackup DEF BackupsFit
<1>12. CASE CompleteBackup(b)
  <2>1. /\ BackupGoes(b, [backup[b] EXCEPT !.at = "complete"]) /\ UNCHANGED <<source, written>>
        /\ backup[b].at = "directory_synced" /\ Sync(b, {"directory"})
    BY <1>12 DEF CompleteBackup, BackupAt
  <2>2. /\ [backup[b] EXCEPT !.at = "complete"] \in BackupState
        /\ backup'[b].at = "complete" /\ ManifestFits(b)'
    BY <1>1, <2>1, StageOnly DEF BackupStages, Checked
  <2>3. /\ synced' \in [Backups -> SUBSET Files] /\ synced'[b] = synced[b] \cup {"directory"}
        /\ \A c \in Backups \ {b} : synced'[c] = synced[c]
    BY <1>1, <2>1, Writing DEF Files
  <2>4. synced'[b] = Files /\ written'[b] = Files
    BY <1>1, <2>1, <2>3 DEF FilesFit, Files, Dumped, Checked, Entries
  <2>5. FilesFit(b)'
    BY <2>2, <2>4 DEF FilesFit, Files, Dumped, Checked, Entries
  <2> QED BY <1>1, <2>1, <2>2, <2>3, <2>5, OneBackup DEF BackupsFit
<1>13. CASE BackupFails(b)
  <2>1. BackupGoes(b, [backup[b] EXCEPT !.at = "failed"]) /\ UNCHANGED <<source, written, synced>>
    BY <1>13 DEF BackupFails
  <2>2. /\ [backup[b] EXCEPT !.at = "failed"] \in BackupState /\ backup'[b].at = "failed"
        /\ ManifestFits(b)'
    BY <1>1, <2>1, StageOnly DEF BackupStages
  <2>3. FilesFit(b)'
    BY <1>1, <2>1, <2>2 DEF FilesFit, Dumped, Checked
  <2> QED BY <1>1, <2>1, <2>2, <2>3, OneBackup DEF BackupsFit
<1> QED
  BY <1>3, <1>4, <1>5, <1>6, <1>7, <1>8, <1>9, <1>10, <1>11, <1>12, <1>13

(* The source gains events and revocations while backups are at work.      *)
LEMMA SourceGrows ==
  ASSUME BackupRestoreInv, source' \in Database, UNCHANGED <<backup, written, synced>>,
         Before(source.activations, source'.activations), source.revoked \subseteq source'.revoked
  PROVE  BackupsFit'
<1>1. source.activations \in Seq(Activation) /\ source'.activations \in Seq(Activation)
  BY DEF BackupRestoreInv, Database
<1>2. ASSUME NEW b \in Backups PROVE ManifestFits(b)' /\ FilesFit(b)'
  <2>1. ManifestFits(b) /\ FilesFit(b)
    BY DEF BackupRestoreInv, BackupsFit
  <2>2. backup[b].at \in Described \ Checked => Before(backup[b].inventory.activations, source'.activations)
    BY <1>1, <2>1, BeforeTrans DEF ManifestFits, Inventories
  <2>3. backup[b].at \in Dumped \ Checked =>
          /\ Before(backup[b].dump.activations, source'.activations)
          /\ backup[b].dump.revoked \subseteq source'.revoked
    BY <1>1, <2>1, BeforeTrans DEF ManifestFits, Database
  <2> QED BY <2>1, <2>2, <2>3 DEF ManifestFits, FilesFit
<1> QED BY <1>2 DEF BackupRestoreInv, BackupsFit

(* The power fails: complete backups had everything fsynced, the others    *)
(* are never completed.                                                    *)
LEMMA BackupsSurvive ==
  ASSUME BackupRestoreInv, PowerFails
  PROVE  BackupsFit'
<1>1. PICK kept \in [Backups -> SUBSET Files] :
        /\ \A b \in Backups : synced[b] \subseteq kept[b] /\ kept[b] \subseteq written[b]
        /\ written' = kept /\ synced' = kept
  BY DEF PowerFails
<1>2. ASSUME NEW b \in Backups PROVE backup'[b] \in BackupState /\ ManifestFits(b)' /\ FilesFit(b)'
  <2>1. backup[b] \in BackupState /\ ManifestFits(b) /\ FilesFit(b)
    BY DEF BackupRestoreInv, BackupsFit
  <2>2. CASE backup[b].at = "complete"
    <3>1. backup'[b] = backup[b]
      BY <2>2 DEF PowerFails
    <3>2. written'[b] = Files /\ synced'[b] = Files
      BY <1>1, <2>1, <2>2 DEF FilesFit
    <3>3. source' = source
      BY DEF PowerFails
    <3> QED BY <2>1, <2>2, <3>1, <3>2, <3>3
            DEF ManifestFits, FilesFit, Described, Dumped, Checked, Files, Entries
  <2>3. CASE backup[b].at # "complete"
    <3>1. backup'[b] = [backup[b] EXCEPT !.at = "failed"]
      BY <2>3 DEF PowerFails
    <3>2. backup'[b] \in BackupState /\ backup'[b].at = "failed"
      BY <2>1, <3>1 DEF BackupState, BackupStages
    <3>3. synced'[b] \subseteq written'[b] /\ written'[b] \subseteq Files
      BY <1>1
    <3> QED BY <3>2, <3>3 DEF ManifestFits, FilesFit, Described, Dumped, Checked
  <2> QED BY <2>2, <2>3
<1>3. backup' \in [Backups -> BackupState]
  <2>1. backup' = [b \in Backups |-> backup'[b]]
    BY DEF PowerFails
  <2> QED BY <1>2, <2>1
<1> QED BY <1>1, <1>2, <1>3 DEF BackupsFit

-----------------------------------------------------------------------------
(* Restores.                                                               *)

(* What one restore may do to the target of another: drop its own, or any  *)
(* once a cleanup has failed; take a free name; fill an empty database.    *)
TargetMoves(x) ==
  \/ target' = target
  \/ target' = None /\ (CleanupFailed \/ target = None \/ target.creator = x)
  \/ target = None /\ target' = EmptyDatabaseOf(x)
  \/ /\ target # None /\ target.content = None
     /\ target' \in Targets /\ target'.creator = target.creator
     /\ \E b \in Backups : BackupAt(b, "complete") /\ target'.content = backup[b].dump

LEMMA DumpType ==
  ASSUME BackupRestoreInv, NEW b \in Backups, BackupAt(b, "complete")
  PROVE  backup[b].dump \in Database /\ backup[b].dump # None
  BY DatabaseAssumption DEF BackupRestoreInv, BackupsFit, ManifestFits, BackupAt, Dumped, Checked

LEMMA EmptyDatabase ==
  ASSUME NEW x \in Restores
  PROVE  /\ EmptyDatabaseOf(x) \in Targets /\ EmptyDatabaseOf(x) # None
         /\ EmptyDatabaseOf(x).creator = x /\ EmptyDatabaseOf(x).content = None
  BY DatabaseAssumption DEF EmptyDatabaseOf, Targets

(* One restore gets on, the others stand still.                            *)
LEMMA OneRestore ==
  ASSUME BackupRestoreInv, NEW x \in Restores, restore[x].at # "ended",
         NEW state \in RestoreState, RestoreGoes(x, state), backup' = backup,
         TargetMoves(x),
         lingering' \subseteq lingering \cup ({x} \X {"createdb", "dropdb"}),
         RestoreFits(x)'
  PROVE  RestoresFit'
<1>1. restore' \in [Restores -> RestoreState] /\ \A y \in Restores \ {x} : restore'[y] = restore[y]
  BY DEF BackupRestoreInv, RestoresFit, RestoreGoes
<1>2. restore[x].code \notin Codes
  BY CodeAssumption DEF BackupRestoreInv, RestoresFit, RestoreFits
<1>3. CleanupFailed => CleanupFailed'
  BY <1>1, <1>2 DEF CleanupFailed, Codes, FailureCodes
<1>4. ASSUME NEW y \in Restores \ {x} PROVE RestoreFits(y)'
  <2>1. RestoreFits(y) /\ restore'[y] = restore[y]
    BY <1>1 DEF BackupRestoreInv, RestoresFit
  <2>2. restore[y].at \in Working => BackupAt(restore[y].of, "complete") /\ restore[y].of \in Backups
    BY <2>1 DEF RestoreFits
  <2>3. restore[y].at \in Owning => CleanupFailed' \/ (target' # None /\ target'.creator = y)
    BY <1>3, <2>1, DatabaseAssumption, EmptyDatabase DEF RestoreFits, TargetMoves, EmptyDatabaseOf
  <2>4. target' # None /\ target'.creator = y => target # None /\ target.creator = y
    BY EmptyDatabase DEF TargetMoves
  <2>5. target' # None /\ target'.creator = y /\ restore[y].at = "filled" =>
          target'.content = backup[restore[y].of].dump
    <3> SUFFICES ASSUME target' # None, target'.creator = y, restore[y].at = "filled"
                 PROVE  target'.content = backup[restore[y].of].dump
      OBVIOUS
    <3>1. target.content = backup[restore[y].of].dump
      BY <2>1, <2>4 DEF RestoreFits
    <3>2. target.content # None
      BY <2>2, <3>1, DumpType DEF Working
    <3> QED BY <3>1, <3>2, EmptyDatabase DEF TargetMoves
  <2>6. SaysNothingIsLeft(y)' <=> SaysNothingIsLeft(y)
    BY <2>1 DEF SaysNothingIsLeft
  <2>7. \A c : <<y, c>> \in lingering' => <<y, c>> \in lingering
    OBVIOUS
  <2> QED BY <2>1, <2>2, <2>3, <2>4, <2>5, <2>6, <2>7 DEF RestoreFits, BackupAt
<1>5. target' \in Targets \cup {None}
  BY EmptyDatabase DEF TargetMoves, BackupRestoreInv, RestoresFit
<1>6. target' # None /\ target'.content # None =>
        \E b \in Backups : BackupAt(b, "complete")' /\ target'.content = backup'[b].dump
  BY EmptyDatabase DEF TargetMoves, BackupRestoreInv, RestoresFit, BackupAt
<1>7. lingering' \subseteq Restores \X {"createdb", "dropdb"}
  BY DEF BackupRestoreInv, RestoresFit
<1> QED BY <1>1, <1>4, <1>5, <1>6, <1>7 DEF RestoresFit

(* The fields of a restore that goes to another stage, or ends.            *)
LEMMA RestoreFields ==
  ASSUME RestoresFit, NEW x \in Restores
  PROVE  /\ \A at \in RestoreStages : RestoreGoes(x, [restore[x] EXCEPT !.at = at]) =>
              /\ [restore[x] EXCEPT !.at = at] \in RestoreState
              /\ restore'[x].at = at /\ restore'[x].of = restore[x].of
              /\ restore'[x].code = restore[x].code
         /\ \A code \in Codes : EndsWith(x, code) =>
              /\ [restore[x] EXCEPT !.at = "ended", !.code = code] \in RestoreState
              /\ RestoreGoes(x, [restore[x] EXCEPT !.at = "ended", !.code = code])
              /\ restore'[x].at = "ended" /\ restore'[x].of = restore[x].of /\ restore'[x].code = code
<1>1. restore[x] \in RestoreState /\ DOMAIN restore = Restores
  BY DEF RestoresFit
<1>2. ASSUME NEW at \in RestoreStages, RestoreGoes(x, [restore[x] EXCEPT !.at = at])
      PROVE  /\ [restore[x] EXCEPT !.at = at] \in RestoreState
             /\ restore'[x].at = at /\ restore'[x].of = restore[x].of
             /\ restore'[x].code = restore[x].code
  <2>1. restore'[x] = [restore[x] EXCEPT !.at = at]
    BY <1>1, <1>2 DEF RestoreGoes
  <2> QED BY <1>1, <2>1 DEF RestoreState
<1>3. ASSUME NEW code \in Codes, EndsWith(x, code)
      PROVE  /\ [restore[x] EXCEPT !.at = "ended", !.code = code] \in RestoreState
             /\ RestoreGoes(x, [restore[x] EXCEPT !.at = "ended", !.code = code])
             /\ restore'[x].at = "ended" /\ restore'[x].of = restore[x].of /\ restore'[x].code = code
  <2>1. RestoreGoes(x, [restore[x] EXCEPT !.at = "ended", !.code = code])
    BY <1>3 DEF EndsWith
  <2>2. restore'[x] = [restore[x] EXCEPT !.at = "ended", !.code = code]
    BY <1>1, <2>1 DEF RestoreGoes
  <2> QED BY <1>1, <2>1, <2>2 DEF RestoreState, RestoreStages
<1> QED BY <1>2, <1>3

(* A restore ends, saying of the target what it may say.                   *)
LEMMA RestoreEnds ==
  ASSUME BackupRestoreInv, NEW x \in Restores, restore[x].at # "ended",
         NEW code \in Codes, EndsWith(x, code), backup' = backup,
         TargetMoves(x),
         lingering' \subseteq lingering \cup ({x} \X {"createdb", "dropdb"}),
         <<x, "createdb">> \in lingering' => code \in {"create_target_failed", "database_container_invalid"},
         <<x, "dropdb">> \in lingering' => code = "target_cleanup_failed",
         target' # None /\ target'.creator = x => code \notin FailureCodes \ ManualCleanup
  PROVE  RestoresFit'
<1>1. RestoresFit
  BY DEF BackupRestoreInv
<1>2. /\ [restore[x] EXCEPT !.at = "ended", !.code = code] \in RestoreState
      /\ RestoreGoes(x, [restore[x] EXCEPT !.at = "ended", !.code = code])
      /\ restore'[x].at = "ended" /\ restore'[x].code = code
  BY <1>1, RestoreFields
<1>3. RestoreFits(x)'
  BY <1>2 DEF RestoreFits, SaysNothingIsLeft, Working, Owning
<1> QED BY <1>2, <1>3, OneRestore

(* No command of a restore at work outlives its client, and a restore that *)
(* has yet to create a database owns none.                                 *)
LEMMA AtWork ==
  ASSUME BackupRestoreInv, NEW x \in Restores, restore[x].at # "ended"
  PROVE  /\ \A c : <<x, c>> \notin lingering
         /\ restore[x].at \notin Owning => target = None \/ target.creator # x
         /\ restore[x].code = None
<1>1. RestoreFits(x) /\ lingering \subseteq Restores \X {"createdb", "dropdb"}
  BY DEF BackupRestoreInv, RestoresFit
<1>2. restore[x].code = None /\ None \notin Codes
  BY <1>1, CodeAssumption DEF RestoreFits
<1>3. <<x, "createdb">> \notin lingering /\ <<x, "dropdb">> \notin lingering
  BY <1>1, <1>2 DEF RestoreFits, Codes, FailureCodes
<1> QED BY <1>1, <1>2, <1>3 DEF RestoreFits

LEMMA RestoreStep ==
  ASSUME BackupRestoreInv, NEW x \in Restores,
         \/ \E b \in Backups : Load(x, b)
         \/ CheckTarget(x) \/ CreateTarget(x) \/ CreateFails(x) \/ Fill(x) \/ Verify(x)
         \/ StartCleanup(x) \/ DropTarget(x) \/ CleanupFails(x) \/ ConfirmDropped(x)
         \/ RestoreBreaksOff(x)
  PROVE  RestoresFit'
<1>1. RestoresFit /\ RestoreFits(x) /\ restore[x] \in RestoreState
  BY DEF BackupRestoreInv, RestoresFit
<1>2. ASSUME NEW b \in Backups, Load(x, b) PROVE RestoresFit'
  <2>1. restore[x].at = "idle" /\ BackupAt(b, "complete") /\ UNCHANGED <<target, backup, lingering>>
    BY <1>2 DEF Load, RestoreAt
  <2>2. CASE EndsWith(x, "backup_invalid")
    BY <2>1, <2>2, AtWork, RestoreEnds DEF TargetMoves, Codes, FailureCodes, Owning
  <2>3. CASE RestoreGoes(x, [restore[x] EXCEPT !.at = "loaded", !.of = b])
    <3>1. [restore[x] EXCEPT !.at = "loaded", !.of = b] \in RestoreState
      BY <1>1 DEF RestoreState, RestoreStages
    <3>2. restore'[x].at = "loaded" /\ restore'[x].of = b /\ restore'[x].code = restore[x].code
      BY <1>1, <2>3 DEF RestoreGoes, RestoresFit, RestoreState
    <3>3. RestoreFits(x)'
      BY <1>1, <2>1, <3>2, AtWork DEF RestoreFits, Owning, BackupAt
    <3> QED BY <2>1, <2>3, <3>1, <3>3, OneRestore DEF TargetMoves
  <2> QED BY <1>2, <2>2, <2>3 DEF Load
<1>3. CASE CheckTarget(x)
  <2>1. restore[x].at = "loaded" /\ UNCHANGED <<target, backup, lingering>>
    BY <1>3 DEF CheckTarget, RestoreAt
  <2>2. CASE EndsWith(x, "target_database_exists")
    BY <2>1, <2>2, AtWork, RestoreEnds DEF TargetMoves, Codes, FailureCodes, Owning
  <2>3. CASE RestoreGoes(x, [restore[x] EXCEPT !.at = "absent"])
    <3>1. [restore[x] EXCEPT !.at = "absent"] \in RestoreState /\ restore'[x].at = "absent"
          /\ restore'[x].of = restore[x].of /\ restore'[x].code = restore[x].code
      BY <1>1, <2>3, RestoreFields DEF RestoreStages
    <3>2. RestoreFits(x)'
      BY <1>1, <2>1, <3>1, AtWork DEF RestoreFits, Working, Owning, BackupAt
    <3> QED BY <2>1, <2>3, <3>1, <3>2, OneRestore DEF TargetMoves
  <2> QED BY <1>3, <2>2, <2>3 DEF CheckTarget
<1>4. CASE CreateTarget(x)
  <2>1. /\ restore[x].at = "absent" /\ target = None /\ target' = EmptyDatabaseOf(x)
        /\ RestoreGoes(x, [restore[x] EXCEPT !.at = "created"]) /\ UNCHANGED <<backup, lingering>>
    BY <1>4 DEF CreateTarget, RestoreAt
  <2>2. [restore[x] EXCEPT !.at = "created"] \in RestoreState /\ restore'[x].at = "created"
        /\ restore'[x].of = restore[x].of /\ restore'[x].code = restore[x].code
    BY <1>1, <2>1, RestoreFields DEF RestoreStages
  <2>3. RestoreFits(x)'
    BY <1>1, <2>1, <2>2, AtWork, EmptyDatabase DEF RestoreFits, Working, Owning, BackupAt
  <2> QED BY <2>1, <2>2, <2>3, OneRestore DEF TargetMoves
<1>5. CASE CreateFails(x)
  <2>1. PICK code \in {"create_target_failed", "database_container_invalid"} : EndsWith(x, code)
    BY <1>5 DEF CreateFails, GivesUp
  <2>2. restore[x].at = "absent" /\ backup' = backup
    BY <1>5 DEF CreateFails, RestoreAt
  <2>3. TargetMoves(x) /\ lingering' \subseteq lingering \cup {<<x, "createdb">>}
    BY <1>5 DEF CreateFails, ReportedFailed, TargetMoves
  <2>4. code \in Codes /\ code \in ManualCleanup
    BY DEF Codes, FailureCodes, ManualCleanup
  <2>5. /\ <<x, "dropdb">> \notin lingering'
        /\ lingering' \subseteq lingering \cup ({x} \X {"createdb", "dropdb"})
    BY <2>2, <2>3, AtWork
  <2> QED BY <2>1, <2>2, <2>3, <2>4, <2>5, RestoreEnds
<1>6. CASE Fill(x)
  <2>1. /\ restore[x].at = "created" /\ target # None /\ target.content = None
        /\ target' = [target EXCEPT !.content = backup[restore[x].of].dump]
        /\ RestoreGoes(x, [restore[x] EXCEPT !.at = "filled"]) /\ UNCHANGED <<backup, lingering>>
    BY <1>6 DEF Fill, RestoreAt
  <2>2. [restore[x] EXCEPT !.at = "filled"] \in RestoreState /\ restore'[x].at = "filled"
        /\ restore'[x].of = restore[x].of /\ restore'[x].code = restore[x].code
    BY <1>1, <2>1, RestoreFields DEF RestoreStages
  <2>3. restore[x].of \in Backups /\ BackupAt(restore[x].of, "complete")
    BY <1>1, <2>1 DEF RestoreFits, Working
  <2>4. /\ target' \in Targets /\ target'.creator = target.creator
        /\ target'.content = backup[restore[x].of].dump
    BY <1>1, <2>1, <2>3, DumpType DEF RestoresFit, Targets
  <2>5. target' # None
    BY <2>4, DatabaseAssumption
  <2>6. CleanupFailed' <=> CleanupFailed
    BY <1>1, <2>1, <2>2 DEF CleanupFailed, RestoresFit, RestoreGoes
  <2>7. RestoreFits(x)'
    BY <1>1, <2>1, <2>2, <2>3, <2>4, <2>5, <2>6, AtWork DEF RestoreFits, Working, Owning, BackupAt
  <2> QED BY <2>1, <2>2, <2>3, <2>4, <2>7, OneRestore DEF TargetMoves
<1>7. CASE Verify(x)
  <2>1. restore[x].at = "filled" /\ EndsWith(x, "VERIFIED") /\ UNCHANGED <<target, backup, lingering>>
    BY <1>7 DEF Verify, RestoreAt
  <2> QED BY <2>1, AtWork, RestoreEnds DEF TargetMoves, Codes, FailureCodes
<1>8. CASE StartCleanup(x)
  <2>1. /\ restore[x].at \in {"created", "filled"} /\ UNCHANGED <<target, backup, lingering>>
        /\ RestoreGoes(x, [restore[x] EXCEPT !.at = "cleaning"])
    BY <1>8 DEF StartCleanup
  <2>2. [restore[x] EXCEPT !.at = "cleaning"] \in RestoreState /\ restore'[x].at = "cleaning"
        /\ restore'[x].of = restore[x].of /\ restore'[x].code = restore[x].code
    BY <1>1, <2>1, RestoreFields DEF RestoreStages
  <2>3. CleanupFailed' <=> CleanupFailed
    BY <1>1, <2>1, <2>2 DEF CleanupFailed, RestoresFit, RestoreGoes
  <2>4. RestoreFits(x)'
    BY <1>1, <2>1, <2>2, <2>3, AtWork DEF RestoreFits, Working, Owning, BackupAt
  <2> QED BY <2>1, <2>2, <2>4, OneRestore DEF TargetMoves
<1>9. CASE DropTarget(x)
  <2>1. /\ restore[x].at = "cleaning" /\ target' = None /\ UNCHANGED <<backup, lingering>>
        /\ RestoreGoes(x, [restore[x] EXCEPT !.at = "dropped"])
    BY <1>9 DEF DropTarget, RestoreAt
  <2>2. [restore[x] EXCEPT !.at = "dropped"] \in RestoreState /\ restore'[x].at = "dropped"
        /\ restore'[x].of = restore[x].of /\ restore'[x].code = restore[x].code
    BY <1>1, <2>1, RestoreFields DEF RestoreStages
  <2>3. RestoreFits(x)'
    BY <1>1, <2>1, <2>2, AtWork DEF RestoreFits, Working, Owning, BackupAt
  <2>4. TargetMoves(x)
    BY <1>1, <2>1 DEF RestoreFits, Owning, TargetMoves
  <2> QED BY <2>1, <2>2, <2>3, <2>4, OneRestore
<1>10. CASE CleanupFails(x)
  <2>1. restore[x].at = "cleaning" /\ EndsWith(x, "target_cleanup_failed") /\ backup' = backup
    BY <1>10 DEF CleanupFails, RestoreAt
  <2>2. lingering' \subseteq lingering \cup {<<x, "dropdb">>}
    BY <1>10 DEF CleanupFails, ReportedFailed
  <2>3. TargetMoves(x)
    BY <1>1, <1>10, <2>1 DEF CleanupFails, ReportedFailed, RestoreFits, Owning, TargetMoves
  <2>4. /\ <<x, "createdb">> \notin lingering'
        /\ lingering' \subseteq lingering \cup ({x} \X {"createdb", "dropdb"})
    BY <2>1, <2>2, AtWork
  <2> QED BY <2>1, <2>2, <2>3, <2>4, RestoreEnds DEF Codes, FailureCodes, ManualCleanup
<1>11. CASE ConfirmDropped(x)
  <2>1. restore[x].at = "dropped" /\ UNCHANGED <<target, backup, lingering>>
    BY <1>11 DEF ConfirmDropped, RestoreAt
  <2>2. PICK code \in {"restore_failed", "target_cleanup_failed"} : EndsWith(x, code)
    BY <1>11 DEF ConfirmDropped
  <2> QED BY <2>1, <2>2, AtWork, RestoreEnds DEF TargetMoves, Codes, FailureCodes, Owning
<1>12. CASE RestoreBreaksOff(x)
  <2>1. restore[x].at # "ended" /\ UNCHANGED <<target, backup, lingering>>
    BY <1>12 DEF RestoreBreaksOff
  <2>2. PICK code \in {"KILLED", "internal_error"} : EndsWith(x, code)
    BY <1>12 DEF RestoreBreaksOff
  <2> QED BY <2>1, <2>2, AtWork, RestoreEnds DEF TargetMoves, Codes, FailureCodes, ManualCleanup
<1> QED
  BY <1>2, <1>3, <1>4, <1>5, <1>6, <1>7, <1>8, <1>9, <1>10, <1>11, <1>12

-----------------------------------------------------------------------------
(* Around the tool.                                                        *)

(* Nothing is changed of a backup that is complete.                        *)
LEMMA CompleteStays ==
  ASSUME BackupRestoreInv, NEW b \in Backups,
         \/ InspectBefore(b) \/ DescribeBefore(b) \/ Dump(b) \/ SyncDump(b) \/ DescribeAfter(b)
         \/ InspectAfter(b) \/ WriteManifest(b) \/ SyncManifest(b) \/ SyncDirectory(b)
         \/ CompleteBackup(b) \/ BackupFails(b)
  PROVE  \A c \in Backups : BackupAt(c, "complete") => backup'[c] = backup[c]
<1>1. backup \in [Backups -> BackupState]
  BY DEF BackupRestoreInv, BackupsFit
<1>2. backup[b].at # "complete"
  BY DEF InspectBefore, DescribeBefore, Dump, SyncDump, DescribeAfter, InspectAfter, WriteManifest,
     SyncManifest, SyncDirectory, CompleteBackup, BackupFails, BackupAt
<1>3. \E state : BackupGoes(b, state)
  BY DEF InspectBefore, DescribeBefore, Dump, SyncDump, DescribeAfter, InspectAfter, WriteManifest,
     SyncManifest, SyncDirectory, CompleteBackup, BackupFails
<1> QED BY <1>1, <1>2, <1>3 DEF BackupGoes, BackupAt

(* The restores stand still, and the target is kept or dropped.            *)
LEMMA RestoresWait ==
  ASSUME BackupRestoreInv, restore' = restore, lingering' \subseteq lingering,
         \A b \in Backups : BackupAt(b, "complete") => backup'[b] = backup[b],
         \/ target' = target
         \/ target' = None /\ (CleanupFailed \/ \A x \in Restores : target.creator = x => restore[x].at = "ended")
         \/ /\ target = None
            /\ \E x \in Restores : /\ target' = EmptyDatabaseOf(x) /\ restore[x].at = "ended"
                                   /\ restore[x].code \in {"create_target_failed", "database_container_invalid"}
  PROVE  RestoresFit'
<1>1. RestoresFit
  BY DEF BackupRestoreInv
<1>2. CleanupFailed' <=> CleanupFailed
  BY DEF CleanupFailed
<1>3. ASSUME NEW y \in Restores PROVE RestoreFits(y)'
  <2>1. RestoreFits(y)
    BY <1>1 DEF RestoresFit
  <2>2. restore[y].at \in Working => restore[y].of \in Backups /\ BackupAt(restore[y].of, "complete")'
    BY <2>1 DEF RestoreFits, BackupAt
  <2>3. restore[y].at \in Owning => CleanupFailed \/ (target' # None /\ target'.creator = y)
    BY <2>1 DEF RestoreFits, Owning
  <2>4. CASE target' = target
    <3>1. restore[y].at = "filled" => backup'[restore[y].of] = backup[restore[y].of]
      BY <2>1 DEF RestoreFits, Working
    <3> QED BY <1>2, <2>1, <2>2, <2>3, <2>4, <3>1 DEF RestoreFits, SaysNothingIsLeft
  <2>5. CASE target' = None
    BY <1>2, <2>1, <2>2, <2>3, <2>5 DEF RestoreFits
  <2>6. ASSUME NEW x \in Restores, target = None, target' = EmptyDatabaseOf(x), restore[x].at = "ended",
               restore[x].code \in {"create_target_failed", "database_container_invalid"}
        PROVE  RestoreFits(y)'
    <3>1. target'.creator = x /\ ~SaysNothingIsLeft(x)'
      BY <2>6, EmptyDatabase DEF SaysNothingIsLeft, ManualCleanup
    <3> QED BY <1>2, <2>1, <2>2, <2>3, <2>6, <3>1 DEF RestoreFits, SaysNothingIsLeft
  <2> QED BY <2>4, <2>5, <2>6
<1>4. target' \in Targets \cup {None}
  BY <1>1, EmptyDatabase DEF RestoresFit
<1>5. target' # None /\ target'.content # None =>
        \E b \in Backups : BackupAt(b, "complete")' /\ target'.content = backup'[b].dump
  BY <1>1, EmptyDatabase DEF RestoresFit, BackupAt
<1> QED BY <1>1, <1>3, <1>4, <1>5 DEF RestoresFit

LEMMA DropsKeep ==
  ASSUME BackupRestoreInv, OperatorDropsTarget \/ LingeringCommand
  PROVE  RestoresFit'
<1>1. UNCHANGED <<backup, restore>>
  BY DEF OperatorDropsTarget, LingeringCommand
<1>2. CASE OperatorDropsTarget
  BY <1>1, <1>2, RestoresWait DEF OperatorDropsTarget, RestoreAt
<1>3. CASE LingeringCommand
  <2>1. PICK command \in lingering :
          /\ lingering' = lingering \ {command}
          /\ \/ UNCHANGED target
             \/ command[2] = "createdb" /\ target = None /\ target' = EmptyDatabaseOf(command[1])
             \/ command[2] = "dropdb" /\ target' = None
    BY <1>3 DEF LingeringCommand
  <2>2. PICK x \in Restores : command = <<x, command[2]>> /\ command[1] = x
    BY DEF BackupRestoreInv, RestoresFit
  <2>3. RestoreFits(x) /\ restore[x].at \in RestoreStages
    BY DEF BackupRestoreInv, RestoresFit, RestoreState
  <2>4. command[2] = "dropdb" => CleanupFailed
    BY <2>2, <2>3 DEF RestoreFits, CleanupFailed
  <2>5. command[2] = "createdb" =>
          /\ restore[x].code \in {"create_target_failed", "database_container_invalid"}
          /\ restore[x].at = "ended"
    BY <2>2, <2>3, CodeAssumption DEF RestoreFits, Codes, FailureCodes
  <2> QED BY <1>1, <2>1, <2>2, <2>4, <2>5, RestoresWait
<1> QED BY <1>2, <1>3

(* After a power failure no restore is at work, and none was verified by it. *)
LEMMA RestoresSurvive ==
  ASSUME BackupRestoreInv, PowerFails
  PROVE  RestoresFit'
<1>1. RestoresFit /\ UNCHANGED target /\ lingering' = {}
  BY DEF BackupRestoreInv, PowerFails
<1>2. \A b \in Backups : BackupAt(b, "complete") => backup'[b] = backup[b]
  BY DEF PowerFails, BackupAt
<1>3. ASSUME NEW y \in Restores PROVE RestoreFits(y)' /\ restore'[y] \in RestoreState
  <2>1. RestoreFits(y) /\ restore[y] \in RestoreState
    BY <1>1 DEF RestoresFit
  <2>2. CASE restore[y].at \in {"idle", "ended"}
    <3>1. restore'[y] = restore[y]
      BY <2>2 DEF PowerFails
    <3> QED BY <1>1, <2>1, <2>2, <3>1 DEF RestoreFits, Working, Owning, SaysNothingIsLeft
  <2>3. CASE restore[y].at \notin {"idle", "ended"}
    <3>1. restore'[y] = [restore[y] EXCEPT !.at = "ended", !.code = "KILLED"]
      BY <2>3 DEF PowerFails
    <3>2. restore'[y] \in RestoreState /\ restore'[y].at = "ended" /\ restore'[y].code = "KILLED"
      BY <2>1, <3>1 DEF RestoreState, RestoreStages, Codes
    <3> QED BY <1>1, <3>2 DEF RestoreFits, Working, Owning, SaysNothingIsLeft, Codes, FailureCodes
  <2> QED BY <2>2, <2>3
<1>4. restore' \in [Restores -> RestoreState]
  <2>1. restore' = [x \in Restores |-> restore'[x]]
    BY DEF PowerFails
  <2> QED BY <1>3, <2>1
<1> QED BY <1>1, <1>2, <1>3, <1>4 DEF RestoresFit, BackupAt

-----------------------------------------------------------------------------
(* The theorems.                                                           *)

LEMMA InvHolds == Spec => []BackupRestoreInv
<1>1. ASSUME Init PROVE BackupRestoreInv
  <2>1. source \in Database
    BY <1>1 DEF Init, Database, Activation
  <2>2. BackupsFit
    BY <1>1 DEF Init, BackupsFit, BackupState, BackupStages, ManifestFits, FilesFit, Described, Dumped,
       Checked
  <2>3. RestoresFit
    BY <1>1 DEF Init, RestoresFit, RestoreState, RestoreStages, RestoreFits, Working, Owning
  <2> QED BY <2>1, <2>2, <2>3 DEF BackupRestoreInv
<1>2. ASSUME BackupRestoreInv, [Next]_vars PROVE BackupRestoreInv'
  <2>1. ASSUME NEW b \in Backups,
               \/ InspectBefore(b) \/ DescribeBefore(b) \/ Dump(b) \/ SyncDump(b) \/ DescribeAfter(b)
               \/ InspectAfter(b) \/ WriteManifest(b) \/ SyncManifest(b) \/ SyncDirectory(b)
               \/ CompleteBackup(b) \/ BackupFails(b)
        PROVE  BackupRestoreInv'
    <3>1. UNCHANGED <<source, target, restore, lingering>>
      BY <2>1 DEF InspectBefore, DescribeBefore, Dump, SyncDump, DescribeAfter, InspectAfter,
         WriteManifest, SyncManifest, SyncDirectory, CompleteBackup, BackupFails
    <3> QED BY <1>2, <2>1, <3>1, BackupStep, CompleteStays, RestoresWait DEF BackupRestoreInv
  <2>2. ASSUME NEW x \in Restores,
               \/ \E b \in Backups : Load(x, b)
               \/ CheckTarget(x) \/ CreateTarget(x) \/ CreateFails(x) \/ Fill(x) \/ Verify(x)
               \/ StartCleanup(x) \/ DropTarget(x) \/ CleanupFails(x) \/ ConfirmDropped(x)
               \/ RestoreBreaksOff(x)
        PROVE  BackupRestoreInv'
    <3>1. UNCHANGED <<source, written, synced, backup>>
      BY <2>2 DEF Load, CheckTarget, CreateTarget, CreateFails, Fill, Verify, StartCleanup, DropTarget,
         CleanupFails, ConfirmDropped, RestoreBreaksOff
    <3>2. BackupsFit'
      BY <1>2, <3>1 DEF BackupRestoreInv, BackupsFit, ManifestFits, FilesFit
    <3> QED BY <1>2, <2>2, <3>1, <3>2, RestoreStep DEF BackupRestoreInv
  <2>3. CASE OperatorDropsTarget \/ LingeringCommand
    <3>1. UNCHANGED <<source, written, synced, backup>>
      BY <2>3 DEF OperatorDropsTarget, LingeringCommand
    <3>2. BackupsFit'
      BY <1>2, <3>1 DEF BackupRestoreInv, BackupsFit, ManifestFits, FilesFit
    <3> QED BY <1>2, <2>3, <3>1, <3>2, DropsKeep DEF BackupRestoreInv
  <2>4. CASE OperatePointer \/ SupersedeApproval \/ SessionsChange
    <3>1. UNCHANGED <<target, written, synced, backup, restore, lingering>>
      BY <2>4 DEF OperatePointer, SupersedeApproval, SessionsChange
    <3>2. /\ source' \in Database /\ source.revoked \subseteq source'.revoked
          /\ Before(source.activations, source'.activations)
      <4>1. source \in Database /\ source.activations \in Seq(Activation)
        BY <1>2 DEF BackupRestoreInv, Database
      <4>2. CASE OperatePointer
        <5>1. PICK step \in Activation : source' = [source EXCEPT !.activations = Append(@, step)]
          BY <4>2 DEF OperatePointer
        <5>2. Append(source.activations, step) \in Seq(Activation)
          BY <4>1
        <5>3. source' \in Database /\ source'.activations = Append(source.activations, step)
              /\ source'.revoked = source.revoked
          BY <4>1, <5>1, <5>2 DEF Database
        <5> QED BY <4>1, <5>3, BeforeItself, BeforeAppend
      <4>3. CASE SupersedeApproval
        BY <4>1, <4>3, BeforeItself DEF SupersedeApproval, Database
      <4>4. CASE SessionsChange
        BY <4>1, <4>4, BeforeItself DEF SessionsChange, Database
      <4> QED BY <2>4, <4>2, <4>3, <4>4
    <3> QED BY <1>2, <3>1, <3>2, SourceGrows, RestoresWait DEF BackupRestoreInv
  <2>5. CASE PowerFails
    BY <1>2, <2>5, BackupsSurvive, RestoresSurvive DEF PowerFails, BackupRestoreInv
  <2>6. CASE UNCHANGED vars
    <3>1. BackupsFit'
      BY <1>2, <2>6 DEF vars, BackupRestoreInv, BackupsFit, ManifestFits, FilesFit
    <3> QED BY <1>2, <2>6, <3>1, RestoresWait DEF vars, BackupRestoreInv
  <2> QED BY <1>2, <2>1, <2>2, <2>3, <2>4, <2>5, <2>6 DEF Next
<1> QED BY <1>1, <1>2, PTL DEF Spec

(* Every variable stays of its type; a restore has a code once it ended.   *)
THEOREM BackupTypes == Spec => []TypeOK
<1>1. BackupRestoreInv => TypeOK
  <2> SUFFICES ASSUME BackupRestoreInv PROVE TypeOK
    OBVIOUS
  <2>1. ASSUME NEW b \in Backups
        PROVE  /\ backup[b].at \in BackupStages
               /\ synced[b] \subseteq written[b] /\ written[b] \subseteq Files
               /\ backup[b].at = "complete" =>
                    backup[b].inventory \in Inventories /\ backup[b].dump \in Database
    BY <2>1 DEF BackupRestoreInv, BackupsFit, BackupState, ManifestFits, FilesFit, Described, Dumped, Checked
  <2>2. ASSUME NEW x \in Restores
        PROVE  /\ restore[x].at \in RestoreStages /\ restore[x].of \in Backups \cup {None}
               /\ restore[x].code \in Codes \cup {None}
               /\ (restore[x].at = "ended") = (restore[x].code # None)
    BY <2>2, CodeAssumption DEF BackupRestoreInv, RestoresFit, RestoreFits, RestoreState
  <2> QED BY <2>1, <2>2 DEF BackupRestoreInv, RestoresFit, TypeOK
<1> QED BY <1>1, InvHolds, PTL

(* A printed receipt names a dump with the publication that the manifest   *)
(* describes, whatever was published while the backup ran.                 *)
THEOREM ManifestsDescribe == Spec => []ManifestDescribesDump
<1>1. BackupRestoreInv => ManifestDescribesDump
  BY DEF BackupRestoreInv, BackupsFit, ManifestFits, ManifestDescribesDump, Described, Dumped, Checked
<1> QED BY <1>1, InvHolds, PTL

(* From its receipt on a backup is there in full, whenever the power fails. *)
THEOREM ReceiptsSurvive == Spec => []ReceiptSurvivesPowerFailure
<1>1. BackupRestoreInv => ReceiptSurvivesPowerFailure
  BY DEF BackupRestoreInv, BackupsFit, FilesFit, ReceiptSurvivesPowerFailure, Intact
<1> QED BY <1>1, InvHolds, PTL

(* A restore that says nothing is left to clean up has left nothing.       *)
THEOREM CleanupClaimsAreTrue == Spec => []CleanupClaimIsTrue
<1>1. BackupRestoreInv => CleanupClaimIsTrue
  <2> SUFFICES ASSUME BackupRestoreInv, NEW x \in Restores, SaysNothingIsLeft(x)
               PROVE  (target = None \/ target.creator # x) /\ <<x, "createdb">> \notin lingering
    BY DEF CleanupClaimIsTrue
  <2>1. RestoreFits(x) /\ restore[x].code \in Codes
    BY DEF BackupRestoreInv, RestoresFit, SaysNothingIsLeft, Codes
  <2>2. restore[x].at = "ended"
    BY <2>1, CodeAssumption DEF RestoreFits, BackupRestoreInv, RestoresFit, RestoreState
  <2> QED BY <2>1, <2>2 DEF RestoreFits, Owning, SaysNothingIsLeft, ManualCleanup, FailureCodes
<1> QED BY <1>1, InvHolds, PTL

(* Only the comparison with the manifest reports a restore as verified.    *)
LEMMA VerifiedBy ==
  ASSUME BackupRestoreInv, [Next]_vars, NEW x \in Restores,
         restore'[x].code = "VERIFIED", restore[x].code # "VERIFIED"
  PROVE  Verify(x)
<1>1. restore \in [Restores -> RestoreState]
  BY DEF BackupRestoreInv, RestoresFit
<1>2. restore' # restore
  OBVIOUS
<1>3. ~PowerFails
  <2> SUFFICES ASSUME PowerFails PROVE FALSE
    OBVIOUS
  <2>1. restore'[x] = restore[x] \/ restore'[x] = [restore[x] EXCEPT !.at = "ended", !.code = "KILLED"]
    BY DEF PowerFails
  <2> QED BY <1>1, <2>1 DEF RestoreState
<1>4. PICK y \in Restores :
        \/ \E b \in Backups : Load(y, b)
        \/ CheckTarget(y) \/ CreateTarget(y) \/ CreateFails(y) \/ Fill(y) \/ Verify(y)
        \/ StartCleanup(y) \/ DropTarget(y) \/ CleanupFails(y) \/ ConfirmDropped(y)
        \/ RestoreBreaksOff(y)
  BY <1>2, <1>3 DEF Next, vars, InspectBefore, DescribeBefore, Dump, SyncDump, DescribeAfter,
     InspectAfter, WriteManifest, SyncManifest, SyncDirectory, CompleteBackup, BackupFails,
     OperatorDropsTarget, LingeringCommand, OperatePointer, SupersedeApproval, SessionsChange
<1>5. ASSUME NEW state, RestoreGoes(y, state) PROVE y = x /\ state.code = "VERIFIED"
  BY <1>1, <1>5 DEF RestoreGoes
<1>6. ASSUME NEW at \in RestoreStages, RestoreGoes(y, [restore[y] EXCEPT !.at = at]) PROVE FALSE
  BY <1>1, <1>5, <1>6 DEF RestoreState
<1>7. ASSUME NEW code \in Codes, EndsWith(y, code) PROVE y = x /\ code = "VERIFIED"
  <2>1. [restore[y] EXCEPT !.at = "ended", !.code = code].code = code
    BY <1>1 DEF RestoreState
  <2> QED BY <1>5, <1>7, <2>1 DEF EndsWith
<1>8. ASSUME NEW b \in Backups, Load(y, b) PROVE FALSE
  <2>1. CASE EndsWith(y, "backup_invalid")
    BY <1>7, <2>1 DEF Codes, FailureCodes
  <2>2. CASE RestoreGoes(y, [restore[y] EXCEPT !.at = "loaded", !.of = b])
    <3>1. [restore[y] EXCEPT !.at = "loaded", !.of = b].code = restore[y].code
      BY <1>1 DEF RestoreState
    <3> QED BY <1>5, <2>2, <3>1
  <2> QED BY <1>8, <2>1, <2>2 DEF Load
<1>9. ~(CheckTarget(y) \/ CreateTarget(y) \/ Fill(y) \/ StartCleanup(y) \/ DropTarget(y))
  BY <1>6, <1>7 DEF CheckTarget, CreateTarget, Fill, StartCleanup, DropTarget, RestoreStages, Codes,
     FailureCodes
<1>10. ~(CreateFails(y) \/ CleanupFails(y) \/ ConfirmDropped(y) \/ RestoreBreaksOff(y))
  BY <1>7 DEF CreateFails, GivesUp, CleanupFails, ConfirmDropped, RestoreBreaksOff, Codes, FailureCodes
<1>11. Verify(y)
  BY <1>4, <1>8, <1>9, <1>10
<1> QED BY <1>7, <1>11 DEF Verify, Codes

(* A restore is verified only of what its manifest describes, row counts   *)
(* included.                                                               *)
THEOREM VerifiedRestoresAreBackups == Spec => VerifiedRestoreIsTheBackup
<1> DEFINE Right(x) ==
      LET asked == backup[restore[x].of] IN
      /\ target # None
      /\ target.content.activations = asked.inventory.activations
      /\ target.content.sessions = asked.inventory.sessions
      /\ \E b \in Backups : BackupAt(b, "complete") /\ target.content = backup[b].dump
      /\ target.creator = x => target.content = asked.dump
<1>1. ASSUME BackupRestoreInv, NEW x \in Restores, Verify(x) PROVE Right(x)
  <2>1. /\ restore[x].at = "filled" /\ target # None /\ target.content # None
        /\ Inventory(target.content) = backup[restore[x].of].inventory
    BY <1>1 DEF Verify, RestoreAt, AgreesWithManifest
  <2>2. PICK b \in Backups : BackupAt(b, "complete") /\ target.content = backup[b].dump
    BY <1>1, <2>1 DEF BackupRestoreInv, RestoresFit
  <2>3. Inventory(target.content).activations = target.content.activations
        /\ Inventory(target.content).sessions = target.content.sessions
    BY <1>1, <2>2, DumpType, InventoryType
  <2>4. target.creator = x => target.content = backup[restore[x].of].dump
    BY <1>1, <2>1 DEF BackupRestoreInv, RestoresFit, RestoreFits
  <2> QED BY <2>1, <2>2, <2>3, <2>4
<1>2. BackupRestoreInv /\ [Next]_vars =>
        [\A x \in Restores : restore'[x].code = "VERIFIED" /\ restore[x].code # "VERIFIED" => Right(x)]_vars
  BY <1>1, VerifiedBy
<1> QED BY <1>2, InvHolds, PTL DEF Spec, VerifiedRestoreIsTheBackup

(* A cleanup drops no database of another run, as long as no cleanup has   *)
(* failed.                                                                 *)
THEOREM CleanupsDropTheirOwn == Spec => DropsOnlyItsOwn
<1>1. ASSUME BackupRestoreInv, [Next]_vars, NEW x \in Restores,
             RestoreAt(x, "cleaning"), restore'[x].at # "cleaning"
      PROVE  \/ target' = target
             \/ target.creator = x
             \/ \E y \in Restores : restore[y].code = "target_cleanup_failed"
  BY <1>1 DEF BackupRestoreInv, RestoresFit, RestoreFits, Owning, RestoreAt, CleanupFailed
<1>2. BackupRestoreInv /\ [Next]_vars =>
        [\A x \in Restores : RestoreAt(x, "cleaning") /\ restore'[x].at # "cleaning" =>
           \/ target' = target
           \/ target.creator = x
           \/ \E y \in Restores : restore[y].code = "target_cleanup_failed"]_vars
  BY <1>1
<1> QED BY <1>2, InvHolds, PTL DEF Spec, DropsOnlyItsOwn
================================================================================
