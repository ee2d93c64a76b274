------------------------------ MODULE MCBackup ------------------------------
(* Small instances of Backup for TLC. *)
EXTENDS Backup

\* The policy of docs/backup/OPERATIONS.md: logs are captured before an update.
Policy == {<<"nightly", {}>>, <<"pre-update", {"logs"}>>}
=============================================================================
