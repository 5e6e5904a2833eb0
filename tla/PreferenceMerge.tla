---------------------------- MODULE PreferenceMerge ----------------------------
(***************************************************************************)
(* The three-way merge of one preference key                               *)
(* (chimahon_preference_three_way_merger.dart).  Two pairs are compared:   *)
(* the remote value with the remote value the last sync left (baseline),   *)
(* and the local value with the local value it left (localBaseline).       *)
(* Missing stands for a list in which the key does not occur.              *)
(***************************************************************************)
CONSTANTS Missing,  \* the key does not occur
          Gap       \* a local value that the wire format cannot represent

ASSUME GapAssumption == Missing # Gap

\* What the exporter writes for a local value: nothing for a gap, whose key it
\* reports in unrepresentablePreferenceKeys instead.
Wire(value) == IF value = Gap THEN Missing ELSE value

\* Mutants of LocalEdited: a gap counts as a deletion; a key that is new on both
\* sides is left to the remote side.
GapDeletes(baseline, localBaseline, local, remote) ==
  /\ remote = baseline
  /\ Wire(local) # localBaseline
  /\ baseline # Missing => localBaseline # Missing

NewKeyIgnored(baseline, localBaseline, local, remote) ==
  /\ local # Gap
  /\ baseline # Missing
  /\ remote = baseline
  /\ localBaseline # Missing
  /\ Wire(local) # localBaseline

\* _select prefers the local side: the remote value is the one the last sync
\* left, and the local value is not.  A gap is never taken for a deletion, nor
\* a value without a local baseline for an edit of a known remote value.
LocalEdited(baseline, localBaseline, local, remote) ==
  /\ local # Gap
  /\ remote = baseline
  /\ Wire(local) # localBaseline
  /\ baseline # Missing => localBaseline # Missing

\* _select: the value to upload, Missing to upload none.
Select(baseline, localBaseline, local, remote) ==
  IF LocalEdited(baseline, localBaseline, local, remote)
  THEN Wire(local) ELSE remote

\* baselineForProjection: the local value to compare the next one with.
BaselineForProjection(local, raw) == IF local = Gap THEN raw ELSE local

=============================================================================
