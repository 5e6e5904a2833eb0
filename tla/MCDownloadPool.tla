--------------------------- MODULE MCDownloadPool ---------------------------
(***************************************************************************)
(* DownloadPool with more tasks than workers; at least one worker stays    *)
(* sound (MaxBroken is less than the number of workers).                   *)
(***************************************************************************)
EXTENDS DownloadPool

CONSTANTS t1, t2, t3, w1, w2

MCTasks == {t1, t2, t3}
MCWorkers == {w1, w2}

=============================================================================
