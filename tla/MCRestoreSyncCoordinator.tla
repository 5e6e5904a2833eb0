----------------------- MODULE MCRestoreSyncCoordinator -----------------------
(***************************************************************************)
(* RestoreSyncCoordinator with three calls; the user may switch between    *)
(* Chimahon sync on a schedule, by hand, and the native sync mode.         *)
(***************************************************************************)
EXTENDS RestoreSyncCoordinator

MCSettings == {"automatic", "manual", "native"}
MCEnabled == {"automatic", "manual"}
MCAutomatic == {"automatic"}

=============================================================================
