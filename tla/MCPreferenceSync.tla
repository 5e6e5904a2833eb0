--------------------------- MODULE MCPreferenceSync ---------------------------
(* PreferenceSync with two devices. *)
EXTENDS PreferenceSync, TLC

\* The devices are alike.
Symmetry == Permutations(Devices)

(* When the user edits: at any time that the comparison and the baselines of
   the engine provide for; also after the import, until the last export; between
   syncs only. *)
MCCoveredPhases == Phases \ {"importing", "imported"}
MCNotDuringImport == Phases \ {"importing"}
MCIdleOnly == {"idle"}

=============================================================================
