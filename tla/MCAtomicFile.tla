----------------------------- MODULE MCAtomicFile -----------------------------
(* AtomicFile with three values. *)
EXTENDS AtomicFile
CONSTANTS a, b, c
MCValues == {a, b, c}
=============================================================================
