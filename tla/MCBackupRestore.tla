---------------------------- MODULE MCBackupRestore ----------------------------
(* One backup, and restores that race for one target name.                 *)
EXTENDS BackupRestore

Symmetry == Permutations(Restores) \cup Permutations(Revisions)
================================================================================
