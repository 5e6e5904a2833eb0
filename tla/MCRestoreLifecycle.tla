-------------------------- MODULE MCRestoreLifecycle --------------------------
(* RestoreLifecycle with two backups: a restore that replaces an earlier one. *)
EXTENDS RestoreLifecycle

CONSTANTS backup1, backup2

MCBackups == {backup1, backup2}

=============================================================================
