------------------------------ MODULE MCBackups ------------------------------
(* The backups alone. *)
EXTENDS DatabaseBackups
Init == BackupsInit /\ part = "backups"
Spec == Init /\ [][BackupsNext]_backupsVars /\ BackupsFairness
=============================================================================
