-------------------------- MODULE PreferenceSyncProofs -------------------------
(***************************************************************************)
(* Theorems about PreferenceMerge and PreferenceSync for any devices and   *)
(* bounds: the merge settles, the types are right, no write is blind, a    *)
(* setting stays on the server, nothing deleted comes back, and no edit    *)
(* made outside an import is undone by older data.                         *)
(***************************************************************************)
EXTENDS PreferenceSync, TLAPS

(* A sync that saved what it merged and what the device then shows finds
   nothing to do the next time, whatever was edited, imported or kept before:
   without an edit a second sync selects the same value.  (_select with
   baselineForProjection.) *)
THEOREM MergeSettles ==
  ASSUME NEW merged, NEW value, merged # Gap
  PROVE  Select(merged, BaselineForProjection(value, merged), value, merged) = merged
BY GapAssumption DEF Select, LocalEdited, BaselineForProjection, Wire

(* A value set while a sync was under way is taken for an edit by the next
   one, because what was exported before is the baseline.  (The retry branch
   of _finalizeSuccessfulCommit.) *)
THEOREM RetryTakesEdit ==
  ASSUME NEW merged, NEW exported, NEW value,
         merged # Gap, value # Gap, value # exported,
         exported # Missing, exported # Gap
  PROVE  Select(merged, BaselineForProjection(exported, merged), value, merged) = value
BY GapAssumption DEF Select, LocalEdited, BaselineForProjection, Wire

(* The first sync of a device takes over what the server has: its own value,
   perhaps a default, does not count as an edit.  (bootstrapAppPreferences.) *)
LEMMA FirstContact ==
  ASSUME NEW value, NEW seen
  PROVE  Select(seen, Wire(value), value, seen) = seen
BY DEF Select, LocalEdited

LEMMA SelectType ==
  ASSUME NEW b, NEW lb, NEW l \in LocalValues, NEW r \in WireValues
  PROVE  Select(b, lb, l, r) \in WireValues
BY SyncAssumption, GapAssumption
   DEF Select, LocalEdited, Wire, LocalValues, WireValues, Edits

-----------------------------------------------------------------------------
LEMMA PreparedType ==
  ASSUME TypeOK, NEW d \in Devices, NEW exported \in LocalValues,
         NEW seen \in WireValues \cup {Absent}
  PROVE  Prepared(d, exported, seen) \in WireValues
<1>1. Wire(exported) \in WireValues
  BY DEF Wire, LocalValues, WireValues
<1>2. CASE seen = Absent
  BY <1>1, <1>2 DEF Prepared
<1>3. CASE seen # Absent
  <2>1. seen \in WireValues
    BY <1>3
  <2>2. Select(seen, Wire(exported), exported, seen) \in WireValues
    BY <2>1, SelectType
  <2>3. Select(base[d], lbase[d], exported, seen) \in WireValues
    BY <2>1, SelectType
  <2> QED
    BY <1>3, <2>2, <2>3 DEF Prepared
<1> QED
  BY <1>2, <1>3

LEMMA IdleType == Idle \in Syncs
BY SyncAssumption DEF Idle, Syncs, Phases, WireValues, LocalValues

LEMMA CommittedType ==
  ASSUME NEW s \in Syncs
  PROVE  Committed(s) \in Syncs
<1>1. "committed" \in Phases /\ 0 \in 0 .. MaxConflictRetries
  BY SyncAssumption DEF Phases
<1> QED
  BY <1>1 DEF Committed, Syncs

LEMMA TypeInit == Init => TypeOK
BY SyncAssumption, IdleType DEF Init, TypeOK, WireValues, LocalValues

LEMMA TypeStep == TypeOK /\ [Next]_vars => TypeOK'
<1> SUFFICES ASSUME TypeOK, [Next]_vars PROVE TypeOK'
  OBVIOUS
<1> USE SyncAssumption, GapAssumption
<1>1. CASE UNCHANGED vars
  BY <1>1 DEF vars, TypeOK
<1>2. ASSUME NEW d \in Devices, Edit(d) PROVE TypeOK'
  <2>1. used'.edits \in Edits /\ used' \in [edits : 0 .. MaxEdits,
           noise : 0 .. MaxNoise, failures : 0 .. MaxFailures]
    BY <1>2 DEF Edit, TypeOK, Edits
  <2>2. PICK value \in {used'.edits, Blank} :
          local' = [local EXCEPT ![d] = value] /\ Hold(d, value)
    BY <1>2 DEF Edit
  <2>3. value \in LocalValues
    BY <2>1, <2>2 DEF Blank, LocalValues, WireValues
  <2> QED
    BY <1>2, <2>1, <2>2, <2>3 DEF Edit, Hold, TypeOK
<1>3. ASSUME NEW d \in Devices, NEW importing \in BOOLEAN, Start(d, importing)
      PROVE TypeOK'
  <2>1. [Idle EXCEPT !.phase = "exported", !.importing = importing,
                     !.exported = local[d]] \in Syncs
    BY IdleType DEF Syncs, Phases, TypeOK
  <2> QED
    BY <1>3, <2>1 DEF Start, TypeOK
<1>4. ASSUME NEW d \in Devices, Prepare(d) PROVE TypeOK'
  <2>1. sync[d].exported \in LocalValues /\ remote \in WireValues \cup {Absent}
    BY DEF TypeOK, Syncs
  <2>2. Prepared(d, sync[d].exported, remote) \in WireValues
    BY <2>1, PreparedType
  <2>3. sync[d] \in Syncs
    BY DEF TypeOK
  <2>4. [sync[d] EXCEPT !.phase = "prepared", !.seen = remote, !.current = TRUE,
           !.merged = Prepared(d, sync[d].exported, remote)] \in Syncs
    BY <2>1, <2>2, <2>3 DEF Syncs, Phases
  <2> QED
    BY <1>4, <2>4 DEF Prepare, TypeOK
<1>5. ASSUME NEW d \in Devices, Upload(d) PROVE TypeOK'
  <2>1. ASSUME NEW s \in Syncs
        PROVE Committed(s) \in Syncs /\ [s EXCEPT !.current = FALSE] \in Syncs
    BY CommittedType DEF Syncs
  <2>2. used' \in [edits : 0 .. MaxEdits, noise : 0 .. MaxNoise,
                   failures : 0 .. MaxFailures]
    BY <1>5 DEF Upload, TypeOK
  <2>3. sync' \in [Devices -> Syncs]
    BY <1>5, <2>1 DEF Upload, TypeOK
  <2>4. sync[d].merged \in WireValues
    BY DEF TypeOK, Syncs
  <2> QED
    BY <1>5, <2>2, <2>3, <2>4 DEF Upload, Hold, TypeOK
<1>6. ASSUME NEW d \in Devices, SkipUpload(d) PROVE TypeOK'
  <2>1. Committed(sync[d]) \in Syncs
    BY CommittedType DEF TypeOK
  <2> QED
    BY <1>6, <2>1 DEF SkipUpload, TypeOK
<1>7. ASSUME NEW d \in Devices, Conflict(d) PROVE TypeOK'
  <2>1. sync[d] \in Syncs /\ local[d] \in LocalValues
    BY DEF TypeOK
  <2>2. sync[d].conflicts < MaxConflictRetries =>
          [sync[d] EXCEPT !.phase = "exported", !.exported = local[d],
                          !.conflicts = sync[d].conflicts + 1] \in Syncs
    <3>1. sync[d].conflicts \in 0 .. MaxConflictRetries /\ "exported" \in Phases
      BY <2>1 DEF Syncs, Phases
    <3>2. sync[d].conflicts < MaxConflictRetries
            => sync[d].conflicts + 1 \in 0 .. MaxConflictRetries
      BY <3>1
    <3> QED
      BY <2>1, <3>1, <3>2 DEF Syncs
  <2> QED
    BY <1>7, <2>2, IdleType DEF Conflict, TypeOK
<1>8. ASSUME NEW d \in Devices, Recheck(d) PROVE TypeOK'
  <2>1. sync' \in [Devices -> Syncs]
    <3>1. sync[d] \in Syncs /\ local[d] \in LocalValues
      BY DEF TypeOK
    <3> DEFINE Rechecked(changed) ==
          [sync[d] EXCEPT !.retry = changed,
             !.exported = IF changed THEN sync[d].exported ELSE local[d],
             !.phase = IF sync[d].importing /\ ~changed
                       THEN "importing" ELSE "saving"]
    <3>2. ASSUME NEW changed \in BOOLEAN PROVE Rechecked(changed) \in Syncs
      BY <3>1 DEF Syncs, Phases
    <3>3. \E changed \in BOOLEAN :
            sync' = [sync EXCEPT ![d] = Rechecked(changed)]
      <4>1. PICK noisy \in BOOLEAN :
              LET changed == noisy \/ Wire(local[d]) # Wire(sync[d].exported)
              IN  sync' = [sync EXCEPT ![d] = Rechecked(changed)]
        BY <1>8 DEF Recheck
      <4> QED
        BY <4>1
    <3> HIDE DEF Rechecked
    <3> QED
      BY <3>2, <3>3 DEF TypeOK
  <2>2. used' \in [edits : 0 .. MaxEdits, noise : 0 .. MaxNoise,
                   failures : 0 .. MaxFailures]
    BY <1>8 DEF Recheck, TypeOK
  <2> QED
    BY <1>8, <2>1, <2>2 DEF Recheck, TypeOK
<1>9. ASSUME NEW d \in Devices, Import(d) PROVE TypeOK'
  <2>1. PICK value \in {local[d], sync[d].merged} :
          local' = [local EXCEPT ![d] = value] /\ Hold(d, value)
    BY <1>9 DEF Import
  <2>2. value \in LocalValues
    BY <2>1 DEF TypeOK, Syncs, LocalValues
  <2>3. sync' \in [Devices -> Syncs]
    BY <1>9 DEF Import, TypeOK, Syncs, Phases
  <2> QED
    BY <1>9, <2>1, <2>2, <2>3 DEF Import, Hold, TypeOK
<1>10. ASSUME NEW d \in Devices, Reexport(d) PROVE TypeOK'
  <2>1. sync[d] \in Syncs /\ local[d] \in LocalValues
    BY DEF TypeOK
  <2>2. [sync[d] EXCEPT !.phase = "saving", !.exported = local[d]] \in Syncs
    BY <2>1 DEF Syncs, Phases
  <2> QED
    BY <1>10, <2>2 DEF Reexport, TypeOK
<1>11. ASSUME NEW d \in Devices, SaveLocalBaseline(d) PROVE TypeOK'
  <2>1. BaselineForProjection(sync[d].exported, sync[d].merged) \in WireValues
    BY DEF BaselineForProjection, TypeOK, Syncs, LocalValues
  <2>2. sync' \in [Devices -> Syncs]
    BY <1>11 DEF SaveLocalBaseline, TypeOK, Syncs, Phases
  <2> QED
    BY <1>11, <2>1, <2>2 DEF SaveLocalBaseline, TypeOK
<1>12. ASSUME NEW d \in Devices, Finish(d) PROVE TypeOK'
  <2>1. [Idle EXCEPT !.phase = "exported", !.exported = local[d],
                     !.importing = sync[d].importing, !.again = TRUE] \in Syncs
    BY IdleType DEF Syncs, Phases, TypeOK
  <2>2. sync[d].merged \in WireValues
    BY DEF TypeOK, Syncs
  <2> QED
    BY <1>12, <2>1, <2>2, IdleType DEF Finish, TypeOK
<1>13. ASSUME NEW d \in Devices, Fail(d) PROVE TypeOK'
  BY <1>13, IdleType DEF Fail, TypeOK
<1> QED
  BY <1>1, <1>2, <1>3, <1>4, <1>5, <1>6, <1>7, <1>8, <1>9, <1>10, <1>11,
     <1>12, <1>13 DEF Next, Step

(* Devices, files, server and syncs keep their types, and no sync retries a
   conflict more often than MaxConflictRetries. *)
THEOREM SyncTypeCorrect == Spec => []TypeOK
BY TypeInit, TypeStep, PTL DEF Spec

-----------------------------------------------------------------------------
\* A sync whose download is current waits for its upload and saw what is there.
CurrentOK ==
  \A d \in Devices : sync[d].current => At(d, "prepared") /\ sync[d].seen = remote

LEMMA CurrentStep == TypeOK /\ CurrentOK /\ [Next]_vars => CurrentOK'
<1> SUFFICES ASSUME TypeOK, CurrentOK, [Next]_vars PROVE CurrentOK'
  OBVIOUS
<1>t. /\ sync \in [Devices -> Syncs]
      /\ \A d \in Devices : sync[d].current \in BOOLEAN
  BY DEF TypeOK, Syncs
<1>1. CASE UNCHANGED vars
  BY <1>1 DEF vars, CurrentOK, At
<1>2. ASSUME NEW d \in Devices, Edit(d) PROVE CurrentOK'
  BY <1>2 DEF Edit, CurrentOK, At
<1>3. ASSUME NEW d \in Devices, NEW importing \in BOOLEAN, Start(d, importing)
      PROVE CurrentOK'
  BY <1>t, <1>3 DEF Start, Idle, CurrentOK, At
<1>4. ASSUME NEW d \in Devices, Prepare(d) PROVE CurrentOK'
  <2>1. sync[d] \in Syncs
    BY <1>t
  <2>2. /\ sync'[d].phase = "prepared" /\ sync'[d].seen = remote
        /\ \A x \in Devices \ {d} : sync'[x] = sync[x]
    BY <1>t, <1>4, <2>1 DEF Prepare, Syncs
  <2> QED
    BY <1>4, <2>2 DEF Prepare, CurrentOK, At
<1>5. ASSUME NEW d \in Devices, Upload(d) PROVE CurrentOK'
  <2>1. ASSUME NEW s \in Syncs
        PROVE ~Committed(s).current /\ ~[s EXCEPT !.current = FALSE].current
    BY DEF Committed, Syncs
  <2>2. \A x \in Devices : ~sync'[x].current
    BY <1>t, <1>5, <2>1 DEF Upload
  <2> QED
    BY <2>2 DEF CurrentOK
<1>6. ASSUME NEW d \in Devices, SkipUpload(d) PROVE CurrentOK'
  <2>1. ~Committed(sync[d]).current
    BY <1>t DEF Committed, Syncs
  <2> QED
    BY <1>t, <1>6, <2>1 DEF SkipUpload, CurrentOK, At
<1>7. ASSUME NEW d \in Devices, Conflict(d) PROVE CurrentOK'
  <2>1. ~sync'[d].current
    BY <1>t, <1>7 DEF Conflict, Idle, Syncs
  <2> QED
    BY <1>t, <1>7, <2>1 DEF Conflict, CurrentOK, At
<1>8. ASSUME NEW d \in Devices,
             \/ Recheck(d) \/ Import(d) \/ Reexport(d)
             \/ SaveLocalBaseline(d) \/ Finish(d) \/ Fail(d)
      PROVE CurrentOK'
  <2>1. remote' = remote /\ \A x \in Devices \ {d} : sync'[x] = sync[x]
    BY <1>t, <1>8
    DEF Recheck, Import, Reexport, SaveLocalBaseline, Finish, Fail
  <2>2. ~sync'[d].current
    <3>1. CASE Fail(d)
      BY <1>t, <3>1 DEF Fail, Idle
    <3>2. CASE Finish(d)
      BY <1>t, <3>2 DEF Finish, Idle
    <3>3. CASE Recheck(d) \/ Import(d) \/ Reexport(d) \/ SaveLocalBaseline(d)
      <4>1. ~sync[d].current
        BY <3>3 DEF CurrentOK, At, Recheck, Import, Reexport, SaveLocalBaseline
      <4>2. sync[d] \in Syncs
        BY <1>t
      <4>3. CASE Recheck(d)
        BY <1>t, <4>1, <4>2, <4>3 DEF Recheck, Syncs
      <4>4. CASE Import(d)
        BY <1>t, <4>1, <4>2, <4>4 DEF Import, Syncs
      <4>5. CASE Reexport(d)
        BY <1>t, <4>1, <4>2, <4>5 DEF Reexport, Syncs
      <4>6. CASE SaveLocalBaseline(d)
        BY <1>t, <4>1, <4>2, <4>6 DEF SaveLocalBaseline, Syncs
      <4> QED
        BY <3>3, <4>1, <4>3, <4>4, <4>5, <4>6
    <3> QED
      BY <1>8, <3>1, <3>2, <3>3
  <2> QED
    BY <2>1, <2>2 DEF CurrentOK, At
<1> QED
  BY <1>1, <1>2, <1>3, <1>4, <1>5, <1>6, <1>7, <1>8 DEF Next, Step

LEMMA CurrentHolds == Spec => []CurrentOK
<1>1. Init => CurrentOK
  BY DEF Init, Idle, CurrentOK
<1> QED
  BY <1>1, CurrentStep, SyncTypeCorrect, PTL DEF Spec

(* However many devices synchronize, retry and fail, the server's value is
   replaced only by a payload that was merged from it. *)
THEOREM ServerNeverBlind == Spec => NoBlindOverwrite
<1>1. TypeOK /\ CurrentOK /\ [Next]_vars
        => [remote' # remote => \E d \in Devices :
              /\ At(d, "prepared") /\ sync'[d].phase = "committed"
              /\ sync[d].seen = remote /\ sync[d].merged = remote']_vars
  <2> SUFFICES ASSUME TypeOK, CurrentOK, Next, remote' # remote
               PROVE \E d \in Devices :
                       /\ At(d, "prepared") /\ sync'[d].phase = "committed"
                       /\ sync[d].seen = remote /\ sync[d].merged = remote'
    BY DEF vars
  <2>1. PICK d \in Devices : Upload(d)
    BY DEF Next, Edit, Start, Step, Prepare, SkipUpload, Conflict, Recheck,
           Import, Reexport, SaveLocalBaseline, Finish, Fail
  <2>2. Committed(sync[d]).phase = "committed"
    BY DEF Committed, TypeOK, Syncs
  <2> QED
    BY <2>1, <2>2 DEF Upload, CurrentOK, TypeOK
<1> QED
  BY <1>1, SyncTypeCorrect, CurrentHolds, PTL DEF Spec, NoBlindOverwrite

-----------------------------------------------------------------------------
(* Why a device never deletes a setting from the server.  A setting that has
   had a value keeps having one, so a device without one has no baseline of one
   either, nor has any sync of its an export of one; and a baseline without a
   value never makes _select take a missing value for an edit. *)
GapOK(d) ==
  /\ local[d] = Missing => lbase[d] \in {Absent, Missing} /\ sync[d].exported = Missing
  /\ ~At(d, "idle") /\ sync[d].exported = Missing => lbase[d] \in {Absent, Missing}
  /\ At(d, "prepared") /\ sync[d].seen \in Edits => sync[d].merged \in Edits

GapInv == ~Removable => \A d \in Devices : GapOK(d)

LEMMA PreparedKeeps ==
  ASSUME TypeOK, NEW d \in Devices, NEW exported \in LocalValues, NEW seen \in Edits,
         exported = Missing => lbase[d] \in {Absent, Missing}
  PROVE  Prepared(d, exported, seen) \in Edits
<1>1. seen # Absent /\ seen # Missing /\ Missing # Gap
  BY SyncAssumption, GapAssumption DEF Edits
<1>2. Select(seen, Wire(exported), exported, seen) = seen
  BY FirstContact
<1>3. ASSUME lbase[d] # Absent
      PROVE Select(base[d], lbase[d], exported, seen) \in Edits
  <2>1. CASE ~LocalEdited(base[d], lbase[d], exported, seen)
    BY <2>1 DEF Select
  <2>2. CASE LocalEdited(base[d], lbase[d], exported, seen)
    <3>1. exported # Gap /\ lbase[d] # Missing
      BY <1>1, <2>2 DEF LocalEdited
    <3>2. exported \in Edits
      BY <1>3, <3>1 DEF LocalValues, WireValues
    <3> QED
      BY <2>2, <3>1, <3>2 DEF Select, Wire
  <2> QED
    BY <2>1, <2>2
<1> QED
  BY <1>1, <1>2, <1>3 DEF Prepared

LEMMA GapStep == TypeOK /\ GapInv /\ [Next]_vars => GapInv'
<1> SUFFICES ASSUME ~Removable, TypeOK, GapInv, [Next]_vars, NEW x \in Devices
             PROVE GapOK(x)'
  BY DEF GapInv
<1> USE SyncAssumption, GapAssumption
<1>t. /\ sync \in [Devices -> Syncs] /\ local \in [Devices -> LocalValues]
      /\ sync[x] \in Syncs /\ lbase \in [Devices -> WireValues \cup {Absent}]
  BY DEF TypeOK
<1>g. GapOK(x)
  BY DEF GapInv
<1>f. ASSUME local'[x] = local[x], lbase'[x] = lbase[x],
             sync'[x].phase = sync[x].phase, sync'[x].exported = sync[x].exported,
             sync'[x].seen = sync[x].seen, sync'[x].merged = sync[x].merged
      PROVE GapOK(x)'
  BY <1>f, <1>g DEF GapOK, At
<1>1. CASE UNCHANGED vars
  BY <1>1, <1>f DEF vars
<1>2. ASSUME NEW d \in Devices \ {x},
             Edit(d) \/ (\E importing \in BOOLEAN : Start(d, importing)) \/ Step(d) \/ Fail(d)
      PROVE GapOK(x)'
  <2>1. local'[x] = local[x] /\ lbase'[x] = lbase[x]
    BY <1>t, <1>2 DEF Edit, Start, Step, Prepare, Upload, SkipUpload, Conflict,
       Recheck, Import, Reexport, SaveLocalBaseline, Finish, Fail
  <2>2. CASE Upload(d)
    <3>1. sync'[x] = [sync[x] EXCEPT !.current = FALSE]
      BY <2>2 DEF Upload
    <3> QED
      BY <1>t, <1>f, <2>1, <3>1 DEF Syncs
  <2>3. CASE ~Upload(d)
    <3>1. sync'[x] = sync[x]
      BY <1>t, <1>2, <2>3 DEF Edit, Start, Step, Prepare, SkipUpload, Conflict,
         Recheck, Import, Reexport, SaveLocalBaseline, Finish, Fail
    <3> QED
      BY <1>f, <2>1, <3>1
  <2> QED
    BY <2>2, <2>3
<1>3. CASE Edit(x)
  <2>1. local'[x] # Missing
    BY <1>t, <1>3 DEF Edit, Blank, TypeOK
  <2> QED
    BY <1>g, <1>3, <2>1 DEF Edit, GapOK, At
<1>4. ASSUME NEW importing \in BOOLEAN, Start(x, importing) PROVE GapOK(x)'
  <2>1. sync'[x].phase = "exported" /\ sync'[x].exported = local[x]
    BY <1>t, <1>4 DEF Start, Idle
  <2> QED
    BY <1>g, <1>4, <2>1 DEF Start, GapOK, At
<1>5. CASE Prepare(x)
  <2>1. /\ sync'[x].phase = "prepared" /\ sync'[x].seen = remote
        /\ sync'[x].merged = Prepared(x, sync[x].exported, remote)
        /\ sync'[x].exported = sync[x].exported
    BY <1>t, <1>5 DEF Prepare, Syncs
  <2>2. sync[x].exported \in LocalValues
    BY <1>t DEF Syncs
  <2>3. sync[x].exported = Missing => lbase[x] \in {Absent, Missing}
    BY <1>g, <1>5 DEF Prepare, At, GapOK
  <2>4. remote \in Edits => Prepared(x, sync[x].exported, remote) \in Edits
    BY <2>2, <2>3, PreparedKeeps
  <2> QED
    BY <1>g, <1>5, <2>1, <2>3, <2>4 DEF Prepare, GapOK, At
<1>6. CASE Upload(x) \/ SkipUpload(x)
  <2>1. sync'[x] = Committed(sync[x])
    BY <1>t, <1>6 DEF Upload, SkipUpload
  <2>2. sync'[x].phase = "committed" /\ sync'[x].exported = sync[x].exported
    BY <1>t, <2>1 DEF Committed, Syncs
  <2>3. ~At(x, "idle") /\ local' = local /\ lbase' = lbase
    BY <1>6 DEF Upload, SkipUpload, At
  <2> QED
    BY <1>g, <2>2, <2>3 DEF GapOK, At
<1>7. CASE Conflict(x)
  <2>1. /\ sync'[x].phase \in {"exported", "idle"}
        /\ sync'[x].phase = "exported" => sync'[x].exported = local[x]
        /\ sync'[x].phase = "idle" => sync'[x].exported = Missing
    BY <1>t, <1>7 DEF Conflict, Idle, Syncs
  <2> QED
    BY <1>g, <1>7, <2>1 DEF Conflict, GapOK, At
<1>8. CASE Recheck(x)
  <2>1. /\ sync'[x].phase \in {"importing", "saving"}
        /\ sync'[x].exported \in {sync[x].exported, local[x]}
    BY <1>t, <1>8 DEF Recheck, Syncs
  <2>2. local[x] = Missing => sync'[x].exported = Missing
    BY <1>g, <2>1 DEF GapOK
  <2>3. sync'[x].exported = Missing => lbase[x] \in {Absent, Missing}
    BY <1>g, <1>8, <2>1 DEF GapOK, At, Recheck
  <2> QED
    BY <1>g, <1>8, <2>1, <2>2, <2>3 DEF Recheck, GapOK, At
<1>9. CASE Import(x)
  <2>1. /\ sync'[x].phase = "imported" /\ sync'[x].exported = sync[x].exported
    BY <1>t, <1>9 DEF Import, Syncs
  <2>2. local'[x] = Missing => local[x] = Missing
    BY <1>t, <1>9 DEF Import
  <2> QED
    BY <1>g, <1>9, <2>1, <2>2 DEF Import, GapOK, At
<1>10. CASE Reexport(x)
  <2>1. sync'[x].phase = "saving" /\ sync'[x].exported = local[x]
    BY <1>t, <1>10 DEF Reexport, Syncs
  <2> QED
    BY <1>g, <1>10, <2>1 DEF Reexport, GapOK, At
<1>11. CASE SaveLocalBaseline(x)
  <2>1. sync'[x].phase = "saved" /\ sync'[x].exported = sync[x].exported
    BY <1>t, <1>11 DEF SaveLocalBaseline, Syncs
  <2>2. sync[x].exported = Missing => lbase'[x] = Missing
    BY <1>t, <1>11 DEF SaveLocalBaseline, BaselineForProjection
  <2> QED
    BY <1>g, <1>11, <2>1, <2>2 DEF SaveLocalBaseline, GapOK, At
<1>12. CASE Finish(x)
  <2>1. /\ sync'[x].phase \in {"exported", "idle"}
        /\ sync'[x].phase = "exported" => sync'[x].exported = local[x]
        /\ sync'[x].phase = "idle" => sync'[x].exported = Missing
    BY <1>t, <1>12 DEF Finish, Idle
  <2> QED
    BY <1>g, <1>12, <2>1 DEF Finish, GapOK, At
<1>13. CASE Fail(x)
  <2>1. sync'[x].phase = "idle" /\ sync'[x].exported = Missing
    BY <1>t, <1>13 DEF Fail, Idle
  <2> QED
    BY <1>g, <1>13, <2>1 DEF Fail, GapOK, At
<1> QED
  BY <1>1, <1>2, <1>3, <1>4, <1>5, <1>6, <1>7, <1>8, <1>9, <1>10, <1>11,
     <1>12, <1>13 DEF Next, Step

LEMMA GapHolds == Spec => []GapInv
<1>1. Init => GapInv
  BY DEF Init, Idle, GapInv, GapOK, At
<1> QED
  BY <1>1, GapStep, SyncTypeCorrect, PTL DEF Spec

(* A setting that reached the server stays there: no device, whatever it shows
   and whichever baseline its last sync left, uploads a payload without it. *)
THEOREM SettingsStay == Spec => GapsKeepRemote
<1>1. TypeOK /\ CurrentOK /\ GapInv /\ [Next]_vars
        => [~Removable /\ remote \in Edits => remote' \in Edits]_vars
  <2> SUFFICES ASSUME TypeOK, CurrentOK, GapInv, Next, ~Removable, remote \in Edits,
                      remote' # remote
               PROVE remote' \in Edits
    BY DEF vars
  <2>1. PICK d \in Devices : Upload(d)
    BY DEF Next, Edit, Start, Step, Prepare, SkipUpload, Conflict, Recheck,
           Import, Reexport, SaveLocalBaseline, Finish, Fail
  <2>2. At(d, "prepared") /\ sync[d].seen = remote /\ remote' = sync[d].merged
    BY <2>1 DEF Upload, CurrentOK
  <2> QED
    BY <2>2 DEF GapInv, GapOK
<1> QED
  BY <1>1, SyncTypeCorrect, CurrentHolds, GapHolds, PTL DEF Spec, GapsKeepRemote

-----------------------------------------------------------------------------
(* What a step does to the fields the history of values is about *)

Same(x) ==
  /\ sync'[x].phase = sync[x].phase /\ sync'[x].exported = sync[x].exported
  /\ sync'[x].seen = sync[x].seen /\ sync'[x].merged = sync[x].merged

SameData(x) ==
  /\ local'[x] = local[x] /\ held'[x] = held[x]
  /\ lbase'[x] = lbase[x] /\ base'[x] = base[x]

SameServer == remote' = remote /\ held'[Server] = held[Server]

\* Only d does something, and not to the number of edits.
Only(d) ==
  /\ \A x \in Devices \ {d} : Same(x) /\ SameData(x)
  /\ used'.edits = used.edits

Edited(d) ==
  /\ \A x \in Devices \ {d} : Same(x) /\ SameData(x)
  /\ used'.edits = used.edits + 1
  /\ Same(d) /\ sync[d].phase \in EditPhases
  /\ lbase'[d] = lbase[d] /\ base'[d] = base[d] /\ SameServer
  /\ local'[d] \in {used'.edits, Blank}
  /\ held'[d] = held[d] \cup ({local'[d]} \cap Edits)

Started(d) ==
  /\ Only(d) /\ SameServer /\ SameData(d)
  /\ At(d, "idle") /\ sync'[d].phase = "exported"
  /\ sync'[d].exported = local[d]
  /\ sync'[d].seen = Absent /\ sync'[d].merged = Missing

PreparedNow(d) ==
  /\ Only(d) /\ SameServer /\ SameData(d)
  /\ At(d, "exported") /\ sync'[d].phase = "prepared"
  /\ sync'[d].exported = sync[d].exported
  /\ sync'[d].seen = remote
  /\ sync'[d].merged = Prepared(d, sync[d].exported, remote)

\* The server has the payload, from this sync or from before.
CommittedNow(d) ==
  /\ Only(d) /\ SameData(d)
  /\ At(d, "prepared") /\ sync'[d].phase = "committed"
  /\ sync'[d].exported = sync[d].exported
  /\ sync[d].seen = remote
  /\ sync'[d].seen = Absent /\ sync'[d].merged = sync[d].merged
  /\ remote' = sync[d].merged
  /\ \/ held'[Server] = held[Server] \cup ({sync[d].merged} \cap Edits)
     \/ remote' = remote /\ held'[Server] = held[Server]

\* After a conflict.
Retried(d) ==
  /\ Only(d) /\ SameServer /\ SameData(d)
  /\ At(d, "prepared") /\ sync'[d].phase = "exported"
  /\ sync'[d].exported = local[d]
  /\ sync'[d].seen = sync[d].seen /\ sync'[d].merged = sync[d].merged

GivenUp(d) ==
  /\ Only(d) /\ SameServer /\ SameData(d)
  /\ At(d, "prepared") /\ sync'[d].phase = "idle"
  /\ sync'[d].exported = Missing
  /\ sync'[d].seen = Absent /\ sync'[d].merged = Missing

Rechecked(d) ==
  /\ Only(d) /\ SameServer /\ SameData(d)
  /\ At(d, "committed") /\ sync'[d].phase \in {"importing", "saving"}
  /\ sync'[d].seen = sync[d].seen /\ sync'[d].merged = sync[d].merged
  /\ \/ sync'[d].exported = sync[d].exported /\ sync'[d].phase = "saving"
     \/ sync'[d].exported = local[d] /\ Wire(local[d]) = Wire(sync[d].exported)

Imported(d) ==
  /\ Only(d) /\ SameServer
  /\ At(d, "importing") /\ sync'[d].phase = "imported"
  /\ sync'[d].exported = sync[d].exported
  /\ sync'[d].seen = sync[d].seen /\ sync'[d].merged = sync[d].merged
  /\ lbase'[d] = lbase[d] /\ base'[d] = base[d]
  /\ \/ /\ local[d] = Gap \/ (sync[d].merged = Missing /\ ~Removable)
        /\ local'[d] = local[d]
     \/ /\ local[d] # Gap /\ (sync[d].merged = Missing => Removable)
        /\ local'[d] = sync[d].merged
  /\ held'[d] = held[d] \cup ({local'[d]} \cap Edits)

Reexported(d) ==
  /\ Only(d) /\ SameServer /\ SameData(d)
  /\ At(d, "imported") /\ sync'[d].phase = "saving"
  /\ sync'[d].exported = local[d]
  /\ sync'[d].seen = sync[d].seen /\ sync'[d].merged = sync[d].merged

LocalSaved(d) ==
  /\ Only(d) /\ SameServer
  /\ local'[d] = local[d] /\ held'[d] = held[d] /\ base'[d] = base[d]
  /\ lbase'[d] = BaselineForProjection(sync[d].exported, sync[d].merged)
  /\ At(d, "saving") /\ sync'[d].phase = "saved"
  /\ sync'[d].exported = sync[d].exported
  /\ sync'[d].seen = sync[d].seen /\ sync'[d].merged = sync[d].merged

Finished(d) ==
  /\ Only(d) /\ SameServer
  /\ local'[d] = local[d] /\ held'[d] = held[d] /\ lbase'[d] = lbase[d]
  /\ base'[d] = sync[d].merged
  /\ At(d, "saved")
  /\ \/ sync'[d].phase = "exported" /\ sync'[d].exported = local[d]
     \/ sync'[d].phase = "idle" /\ sync'[d].exported = Missing
  /\ sync'[d].seen = Absent /\ sync'[d].merged = Missing

Moves(d) ==
  \/ Edited(d) \/ Started(d) \/ PreparedNow(d) \/ CommittedNow(d)
  \/ Retried(d) \/ GivenUp(d) \/ Rechecked(d) \/ Imported(d)
  \/ Reexported(d) \/ LocalSaved(d) \/ Finished(d)

LEMMA StepMoves ==
  ASSUME MaxFailures = 0, TypeOK, CurrentOK, [Next]_vars
  PROVE  UNCHANGED vars \/ \E d \in Devices : Moves(d)
<1> USE SyncAssumption, GapAssumption
<1>t. /\ sync \in [Devices -> Syncs] /\ \A x \in Devices : sync[x] \in Syncs
      /\ local \in [Devices -> LocalValues]
      /\ lbase \in [Devices -> WireValues \cup {Absent}]
      /\ base \in [Devices -> WireValues]
      /\ held \in [Devices \cup {Server} -> SUBSET Edits]
      /\ used \in [edits : 0 .. MaxEdits, noise : 0 .. MaxNoise,
                   failures : 0 .. MaxFailures]
  BY DEF TypeOK
<1>i. /\ Idle.phase = "idle" /\ Idle.exported = Missing
      /\ Idle.seen = Absent /\ Idle.merged = Missing
  BY DEF Idle
<1>1. SUFFICES ASSUME NEW d \in Devices,
                      \/ Edit(d) \/ \E importing \in BOOLEAN : Start(d, importing)
                      \/ Step(d) \/ Fail(d)
               PROVE  Moves(d)
  BY DEF Next
<1>n. /\ ~Upload(d) => \A x \in Devices \ {d} : sync'[x] = sync[x]
      /\ \A x \in Devices \ {d} :
           local'[x] = local[x] /\ lbase'[x] = lbase[x] /\ base'[x] = base[x]
      /\ \A x \in Devices \ {d} : held'[x] = held[x]
  <2>1. ~Upload(d) => \A x \in Devices \ {d} : sync'[x] = sync[x]
    BY <1>t, <1>1 DEF Edit, Start, Step, Prepare, SkipUpload, Conflict, Recheck,
       Import, Reexport, SaveLocalBaseline, Finish, Fail
  <2>2. \A x \in Devices \ {d} :
           local'[x] = local[x] /\ lbase'[x] = lbase[x] /\ base'[x] = base[x]
    BY <1>t, <1>1 DEF Edit, Start, Step, Prepare, Upload, SkipUpload, Conflict,
       Recheck, Import, Reexport, SaveLocalBaseline, Finish, Fail
  <2>3. \A x \in Devices \ {d} : held'[x] = held[x]
    BY <1>t, <1>1 DEF Edit, Start, Step, Prepare, Upload, SkipUpload, Conflict,
       Recheck, Import, Reexport, SaveLocalBaseline, Finish, Fail, Hold
  <2> QED
    BY <2>1, <2>2, <2>3
<1>o. ~Upload(d) => \A x \in Devices \ {d} : Same(x) /\ SameData(x)
  BY <1>n DEF Same, SameData
<1>2. CASE Edit(d)
  <2>1. PICK value \in {used'.edits, Blank} :
          local' = [local EXCEPT ![d] = value] /\ Hold(d, value)
    BY <1>2 DEF Edit
  <2>2. /\ local'[d] = value
        /\ held'[d] = held[d] \cup ({value} \cap Edits)
        /\ held'[Server] = held[Server]
    BY <1>t, <2>1 DEF Hold
  <2>3. used'.edits = used.edits + 1
    BY <1>t, <1>2 DEF Edit
  <2>4. /\ remote' = remote /\ sync' = sync /\ lbase' = lbase
        /\ base' = base /\ sync[d].phase \in EditPhases
    BY <1>2 DEF Edit
  <2>5. ~Upload(d)
    <3>1. Upload(d) => used'.edits = used.edits
      BY <1>t DEF Upload
    <3> QED
      BY <1>t, <2>3, <3>1
  <2> QED
    BY <1>o, <2>1, <2>2, <2>3, <2>4, <2>5 DEF Edited, Moves, Same, SameServer
<1>3. ASSUME NEW importing \in BOOLEAN, Start(d, importing) PROVE Moves(d)
  <2>1. /\ sync'[d].phase = "exported" /\ sync'[d].exported = local[d]
        /\ sync'[d].seen = Absent /\ sync'[d].merged = Missing
    BY <1>t, <1>3 DEF Start, Idle
  <2>2. ~Upload(d)
    BY <1>3 DEF Start, Upload, At
  <2> QED
    BY <1>3, <1>o, <2>1, <2>2 DEF Start, Started, Moves, Only, SameData, SameServer
<1>4. CASE Prepare(d)
  <2>1. /\ sync'[d].phase = "prepared" /\ sync'[d].seen = remote
        /\ sync'[d].merged = Prepared(d, sync[d].exported, remote)
        /\ sync'[d].exported = sync[d].exported
    BY <1>t, <1>4 DEF Prepare, Syncs
  <2>2. ~Upload(d)
    BY <1>4 DEF Prepare, Upload, At
  <2> QED
    BY <1>4, <1>o, <2>1, <2>2
    DEF Prepare, PreparedNow, Moves, Only, SameData, SameServer
<1>5. CASE Upload(d) \/ SkipUpload(d)
  <2>1. sync'[d] = Committed(sync[d])
    BY <1>t, <1>5 DEF Upload, SkipUpload
  <2>2. /\ sync'[d].phase = "committed" /\ sync'[d].exported = sync[d].exported
        /\ sync'[d].seen = Absent /\ sync'[d].merged = sync[d].merged
    BY <1>t, <2>1 DEF Committed, Syncs
  <2>3. At(d, "prepared") /\ sync[d].seen = remote
    BY <1>5 DEF Upload, SkipUpload, CurrentOK
  <2>4. /\ local' = local /\ lbase' = lbase /\ base' = base
        /\ held'[d] = held[d] /\ used'.edits = used.edits
    BY <1>t, <1>5 DEF Upload, SkipUpload, Hold
  <2>5. \A x \in Devices \ {d} : Same(x)
    <3>1. CASE Upload(d)
      <4>1. \A x \in Devices \ {d} : sync'[x] = [sync[x] EXCEPT !.current = FALSE]
        BY <3>1 DEF Upload
      <4>2. ASSUME NEW s \in Syncs
            PROVE  LET t == [s EXCEPT !.current = FALSE] IN
                   /\ t.phase = s.phase /\ t.exported = s.exported
                   /\ t.seen = s.seen /\ t.merged = s.merged
        BY DEF Syncs
      <4> QED
        BY <1>t, <4>1, <4>2 DEF Same
    <3>2. CASE ~Upload(d)
      BY <1>o, <3>2
    <3> QED
      BY <3>1, <3>2
  <2>6. /\ remote' = sync[d].merged
        /\ \/ held'[Server] = held[Server] \cup ({sync[d].merged} \cap Edits)
           \/ remote' = remote /\ held'[Server] = held[Server]
    BY <1>t, <1>5, <2>3 DEF Upload, SkipUpload, Hold
  <2>7. CommittedNow(d)
    BY <1>n, <2>2, <2>3, <2>4, <2>5, <2>6 DEF CommittedNow, Only, SameData
  <2> QED
    BY <2>7 DEF Moves
<1>6. CASE Conflict(d)
  <2>1. \/ /\ sync'[d].phase = "exported" /\ sync'[d].exported = local[d]
           /\ sync'[d].seen = sync[d].seen /\ sync'[d].merged = sync[d].merged
        \/ sync'[d] = Idle
    BY <1>t, <1>6 DEF Conflict, Syncs
  <2>2. ~Upload(d)
    BY <1>6 DEF Conflict, Upload
  <2> QED
    BY <1>6, <1>i, <1>o, <2>1, <2>2
    DEF Conflict, Retried, GivenUp, Moves, Only, SameData, SameServer
<1>7. CASE Recheck(d)
  <2>1. PICK noisy \in BOOLEAN :
          LET changed == noisy \/ Wire(local[d]) # Wire(sync[d].exported)
          IN  /\ used' = [used EXCEPT !.noise = IF noisy THEN @ + 1 ELSE @]
              /\ sync' = [sync EXCEPT ![d] =
                   [@ EXCEPT !.retry = changed,
                             !.exported = IF changed THEN sync[d].exported ELSE local[d],
                             !.phase = IF sync[d].importing /\ ~changed
                                       THEN "importing" ELSE "saving"]]
    BY <1>7 DEF Recheck
  <2>2. /\ used'.edits = used.edits
        /\ sync'[d].phase \in {"importing", "saving"}
        /\ sync'[d].seen = sync[d].seen /\ sync'[d].merged = sync[d].merged
        /\ \/ sync'[d].exported = sync[d].exported /\ sync'[d].phase = "saving"
           \/ sync'[d].exported = local[d] /\ Wire(local[d]) = Wire(sync[d].exported)
    BY <1>t, <2>1 DEF Syncs
  <2>3. ~Upload(d)
    BY <1>7 DEF Recheck, Upload, At
  <2> QED
    BY <1>7, <1>o, <2>2, <2>3
    DEF Recheck, Rechecked, Moves, Only, SameData, SameServer
<1>8. CASE Import(d)
  <2>1. /\ sync'[d].phase = "imported" /\ sync'[d].exported = sync[d].exported
        /\ sync'[d].seen = sync[d].seen /\ sync'[d].merged = sync[d].merged
    BY <1>t, <1>8 DEF Import, Syncs
  <2>2. /\ held'[d] = held[d] \cup ({local'[d]} \cap Edits)
        /\ held'[Server] = held[Server]
    BY <1>t, <1>8 DEF Import, Hold
  <2>3. \/ /\ local[d] = Gap \/ (sync[d].merged = Missing /\ ~Removable)
           /\ local'[d] = local[d]
        \/ /\ local[d] # Gap /\ (sync[d].merged = Missing => Removable)
           /\ local'[d] = sync[d].merged
    BY <1>t, <1>8 DEF Import
  <2>4. ~Upload(d)
    BY <1>8 DEF Import, Upload, At
  <2> QED
    BY <1>8, <1>o, <2>1, <2>2, <2>3, <2>4
    DEF Import, Imported, Moves, Only, SameServer
<1>9. CASE Reexport(d)
  <2>1. /\ sync'[d].phase = "saving" /\ sync'[d].exported = local[d]
        /\ sync'[d].seen = sync[d].seen /\ sync'[d].merged = sync[d].merged
    BY <1>t, <1>9 DEF Reexport, Syncs
  <2>2. ~Upload(d)
    BY <1>9 DEF Reexport, Upload, At
  <2> QED
    BY <1>9, <1>o, <2>1, <2>2
    DEF Reexport, Reexported, Moves, Only, SameData, SameServer
<1>10. CASE SaveLocalBaseline(d)
  <2>1. /\ sync'[d].phase = "saved" /\ sync'[d].exported = sync[d].exported
        /\ sync'[d].seen = sync[d].seen /\ sync'[d].merged = sync[d].merged
        /\ lbase'[d] = BaselineForProjection(sync[d].exported, sync[d].merged)
    BY <1>t, <1>10 DEF SaveLocalBaseline, Syncs
  <2>2. ~Upload(d)
    BY <1>10 DEF SaveLocalBaseline, Upload, At
  <2> QED
    BY <1>10, <1>o, <2>1, <2>2
    DEF SaveLocalBaseline, LocalSaved, Moves, Only, SameData, SameServer
<1>11. CASE Finish(d)
  <2>1. /\ \/ sync'[d].phase = "exported" /\ sync'[d].exported = local[d]
           \/ sync'[d].phase = "idle" /\ sync'[d].exported = Missing
        /\ sync'[d].seen = Absent /\ sync'[d].merged = Missing
        /\ base'[d] = sync[d].merged
    BY <1>t, <1>11 DEF Finish, Idle
  <2>2. ~Upload(d)
    BY <1>11 DEF Finish, Upload, At
  <2> QED
    BY <1>11, <1>o, <2>1, <2>2
    DEF Finish, Finished, Moves, Only, SameData, SameServer
<1>12. CASE Fail(d)
  BY <1>t, <1>12 DEF Fail
<1> QED
  BY <1>1, <1>2, <1>3, <1>4, <1>5, <1>6, <1>7, <1>8, <1>9, <1>10, <1>11,
     <1>12 DEF Step

-----------------------------------------------------------------------------
(* What devices and the server have had *)

Late(d) ==
  sync[d].phase \in {"committed", "importing", "imported", "saving", "saved"}

\* Edits are numbered, and what two devices have had the server had.
HeldEdits ==
  /\ \A x \in Devices \cup {Server} : \A v \in held[x] : v <= used.edits
  /\ \A d, x \in Devices : d # x => held[d] \cap held[x] \subseteq held[Server]
  /\ remote \in Edits => remote \in held[Server]
  /\ remote = Absent => held[Server] = {}

DeviceHeld(d) ==
  /\ local[d] \in Edits => local[d] \in held[d]
  /\ sync[d].exported \in Edits => sync[d].exported \in held[d]
  /\ sync[d].seen \in Edits => sync[d].seen \in held[Server]
  /\ sync[d].merged \in Edits => sync[d].merged \in held[d] \cup held[Server]
  /\ Late(d) /\ sync[d].merged \in Edits => sync[d].merged \in held[Server]
  /\ At(d, "prepared")
       => sync[d].merged = Prepared(d, sync[d].exported, sync[d].seen)

HeldInv == HeldEdits /\ \A d \in Devices : DeviceHeld(d)

New(value, known) == value \in Edits \ {known} => value \notin held[Server]

\* What a device has that is not what it last synchronized, or is about to
\* synchronize, the server has never had.
DeviceNew(d) ==
  /\ sync[d].phase \in {"idle", "saved"} /\ lbase[d] # Absent
       => New(local[d], lbase[d])
  /\ sync[d].phase \in {"exported", "prepared"} /\ lbase[d] # Absent
       => New(sync[d].exported, lbase[d])
  /\ sync[d].phase \in {"exported", "prepared", "committed", "saving"}
       => New(local[d], sync[d].exported)

NewInv == \A d \in Devices : DeviceNew(d)

\* The values a merge can give.
LEMMA PreparedValues ==
  ASSUME NEW d \in Devices, NEW exported, NEW seen
  PROVE  LET merged == Prepared(d, exported, seen) IN
         \/ seen # Absent /\ merged = seen
         \/ seen = Absent /\ merged = Wire(exported)
         \/ /\ seen # Absent /\ lbase[d] # Absent
            /\ LocalEdited(base[d], lbase[d], exported, seen)
            /\ merged = exported /\ exported # Gap /\ exported # lbase[d]
BY FirstContact DEF Prepared, Select, LocalEdited, Wire

LEMMA WireValue ==
  ASSUME NEW value
  PROVE  Wire(value) \in Edits => Wire(value) = value
BY SyncAssumption DEF Wire, Edits

\* A payload that changes the server's value brings one it never had.
LEMMA CommitBringsNew ==
  ASSUME HeldInv, NewInv, NEW d \in Devices, CommittedNow(d),
         remote' \in Edits, remote' # remote
  PROVE  /\ remote' \notin held[Server] /\ remote' \in held[d]
         /\ remote' = sync[d].exported
<1> DEFINE merged == sync[d].merged
           exported == sync[d].exported
<1>1. /\ merged = Prepared(d, exported, remote) /\ merged = remote'
      /\ exported \in Edits => exported \in held[d]
      /\ remote = Absent => held[Server] = {}
  BY DEF CommittedNow, HeldInv, HeldEdits, DeviceHeld
<1>v. \/ remote # Absent /\ merged = remote
      \/ remote = Absent /\ merged = Wire(exported)
      \/ /\ remote # Absent /\ lbase[d] # Absent
         /\ merged = exported /\ exported # lbase[d]
  <2>1. LET m == Prepared(d, exported, remote) IN
         \/ remote # Absent /\ m = remote
         \/ remote = Absent /\ m = Wire(exported)
         \/ /\ remote # Absent /\ lbase[d] # Absent
            /\ LocalEdited(base[d], lbase[d], exported, remote)
            /\ m = exported /\ exported # Gap /\ exported # lbase[d]
    BY PreparedValues
  <2> QED
    BY <1>1, <2>1
<1> HIDE DEF merged, exported
<1>2. CASE remote = Absent
  <2>1. merged = exported
    BY <1>1, <1>2, <1>v, WireValue
  <2> QED
    BY <1>1, <1>2, <2>1 DEF exported
<1>3. CASE remote # Absent
  <2>1. merged = exported /\ lbase[d] # Absent /\ exported # lbase[d]
    BY <1>1, <1>3, <1>v
  <2>2. New(exported, lbase[d])
    BY <2>1 DEF CommittedNow, At, NewInv, DeviceNew, exported
  <2> QED
    BY <1>1, <2>1, <2>2 DEF New, exported
<1> QED
  BY <1>2, <1>3

\* An edit is new to everybody.
LEMMA EditIsNew ==
  ASSUME TypeOK, TypeOK', HeldInv, NEW d \in Devices, Edited(d), local'[d] \in Edits
  PROVE  \A x \in Devices \cup {Server} : local'[d] \notin held[x]
<1>1. local'[d] = used.edits + 1 /\ used.edits \in Nat
  BY SyncAssumption, GapAssumption DEF Edited, Blank, Edits, TypeOK
<1>2. \A x \in Devices \cup {Server} : \A v \in held[x] : v <= used.edits
  BY DEF HeldInv, HeldEdits
<1> QED
  BY <1>1, <1>2

LEMMA HeldKept ==
  ASSUME HeldInv, NEW d \in Devices, Only(d), SameServer, held'[d] = held[d],
         DeviceHeld(d)'
  PROVE  HeldInv'
<1>1. \A x \in Devices \cup {Server} : held'[x] = held[x]
  BY DEF Only, SameServer, SameData
<1>2. HeldEdits'
  BY <1>1 DEF HeldInv, HeldEdits, Only, SameServer
<1>3. ASSUME NEW x \in Devices \ {d} PROVE DeviceHeld(x)'
  BY <1>1, <1>3 DEF HeldInv, DeviceHeld, Only, Same, SameData, SameServer, Late, At, Prepared
<1> QED
  BY <1>2, <1>3 DEF HeldInv

LEMMA HeldStep ==
  ASSUME TypeOK, TypeOK', HeldInv, NewInv, NEW d \in Devices, Moves(d)
  PROVE  HeldInv'
<1> USE SyncAssumption, GapAssumption
<1>d. DeviceHeld(d) /\ HeldEdits /\ \A x \in Devices : DeviceHeld(x)
  BY DEF HeldInv
<1>n. Missing \notin Edits /\ Absent \notin Edits /\ Server \notin Devices
  BY DEF Edits
<1>1. CASE Edited(d)
  <2>1. local'[d] \in Edits => \A x \in Devices \cup {Server} : local'[d] \notin held[x]
    BY <1>1, EditIsNew
  <2>2. /\ \A x \in Devices \cup {Server} : held[x] \subseteq held'[x]
        /\ \A x \in Devices \ {d} : held'[x] = held[x]
        /\ held'[Server] = held[Server]
        /\ held'[d] = held[d] \cup ({local'[d]} \cap Edits)
    BY <1>1 DEF Edited, SameData, SameServer
  <2>3. HeldEdits'
    <3>1. /\ used.edits \in Nat /\ used'.edits = used.edits + 1
          /\ local'[d] \in Edits => local'[d] = used'.edits
          /\ \A x \in Devices \cup {Server} : held[x] \subseteq Edits
      BY <1>1, <1>n DEF Edited, Blank, TypeOK, Edits
    <3>2. \A x \in Devices \cup {Server} : \A v \in held'[x] : v <= used'.edits
      <4>1. \A x \in Devices \cup {Server} : \A v \in held[x] : v <= used.edits /\ v \in Nat
        BY <1>d, <3>1 DEF HeldEdits, Edits
      <4>2. ASSUME NEW x \in Devices \cup {Server}, NEW v \in held'[x]
            PROVE  v <= used'.edits
        <5>1. v \in held[x] \/ (v = local'[d] /\ v \in Edits)
          BY <2>2
        <5>2. v \in held[x] => v <= used.edits /\ v \in Nat
          BY <4>1
        <5> QED
          BY <3>1, <5>1, <5>2
      <4> QED
        BY <4>2
    <3>3. \A e, x \in Devices : e # x => held'[e] \cap held'[x] \subseteq held'[Server]
      BY <1>d, <2>1, <2>2 DEF HeldEdits
    <3> QED
      BY <1>1, <1>d, <2>2, <3>2, <3>3 DEF HeldEdits, Edited, SameServer
  <2>4. DeviceHeld(d)'
    BY <1>1, <1>d, <2>2 DEF DeviceHeld, Edited, Same, Late, At, Prepared
  <2>5. ASSUME NEW x \in Devices \ {d} PROVE DeviceHeld(x)'
    <3>1. DeviceHeld(x) /\ Same(x) /\ SameData(x) /\ held'[Server] = held[Server]
      BY <1>1, <1>d, <2>2, <2>5 DEF Edited
    <3> QED
      BY <3>1 DEF DeviceHeld, Same, SameData, Late, At, Prepared
  <2> QED
    BY <2>3, <2>4, <2>5 DEF HeldInv
<1>2. CASE Started(d)
  <2>1. DeviceHeld(d)'
    BY <1>2, <1>d, <1>n DEF DeviceHeld, Started, SameData, SameServer, Late, At
  <2> QED
    BY <1>2, <2>1, HeldKept DEF Started, SameData
<1>3. CASE PreparedNow(d)
  <2>1. Prepared(d, sync[d].exported, remote) \in Edits =>
          Prepared(d, sync[d].exported, remote) \in held[d] \cup held[Server]
    BY <1>d, PreparedValues, WireValue DEF DeviceHeld, HeldEdits
  <2>2. DeviceHeld(d)'
    BY <1>3, <1>d, <2>1
    DEF DeviceHeld, HeldEdits, PreparedNow, SameData, SameServer, Late, At, Prepared
  <2> QED
    BY <1>3, <2>2, HeldKept DEF PreparedNow, SameData
<1>4. CASE CommittedNow(d)
  <2>1. /\ remote' = sync[d].merged
        /\ \A x \in Devices : held'[x] = held[x]
        /\ used'.edits = used.edits
        /\ held[Server] \subseteq held'[Server]
        /\ remote' \in Edits => remote' \in held'[Server]
        /\ held'[Server] \subseteq held[Server] \cup ({remote'} \cap Edits)
    BY <1>4, <1>d DEF CommittedNow, Only, SameData, HeldEdits
  <2>2. HeldEdits'
    <3>1. remote' # Absent
      <4>1. remote' = Prepared(d, sync[d].exported, remote)
        BY <1>4, <1>d DEF CommittedNow, DeviceHeld
      <4>2. Wire(sync[d].exported) # Absent /\ sync[d].exported # Absent
        BY DEF TypeOK, Syncs, LocalValues, WireValues, Edits, Wire
      <4> QED
        BY <4>1, <4>2, PreparedValues
    <3>2. \A v \in held'[Server] : v <= used.edits
      <4>1. remote' \in Edits => remote' \in held[d] \cup held[Server]
        BY <1>d, <2>1 DEF DeviceHeld
      <4> QED
        BY <1>d, <2>1, <4>1 DEF HeldEdits
    <3> QED
      BY <1>d, <2>1, <3>1, <3>2 DEF HeldEdits
  <2>3. DeviceHeld(d)'
    BY <1>4, <1>d, <1>n, <2>1 DEF DeviceHeld, CommittedNow, SameData, Late, At
  <2>4. ASSUME NEW x \in Devices \ {d} PROVE DeviceHeld(x)'
    <3>1. DeviceHeld(x) /\ Same(x) /\ SameData(x)
      BY <1>4, <1>d, <2>4 DEF CommittedNow, Only
    <3> QED
      BY <2>1, <3>1 DEF DeviceHeld, Same, SameData, Late, At, Prepared
  <2> QED
    BY <2>2, <2>3, <2>4 DEF HeldInv
<1>5. CASE Imported(d)
  <2>1. /\ local'[d] \in Edits => local'[d] \in held[d] \cup held[Server]
        /\ held'[d] = held[d] \cup ({local'[d]} \cap Edits)
        /\ \A x \in (Devices \cup {Server}) \ {d} : held'[x] = held[x]
        /\ remote' = remote /\ used'.edits = used.edits
    BY <1>5, <1>d DEF Imported, Only, SameServer, SameData, DeviceHeld
  <2>2. HeldEdits'
    <3>1. \A x \in Devices \cup {Server} : \A v \in held'[x] : v <= used.edits
      BY <1>d, <2>1 DEF HeldEdits
    <3>2. \A e, x \in Devices : e # x => held'[e] \cap held'[x] \subseteq held'[Server]
      BY <1>d, <1>n, <2>1 DEF HeldEdits
    <3> QED
      BY <1>d, <1>n, <2>1, <3>1, <3>2 DEF HeldEdits
  <2>3. DeviceHeld(d)'
    BY <1>5, <1>d, <1>n, <2>1 DEF DeviceHeld, Imported, Late, At
  <2>4. ASSUME NEW x \in Devices \ {d} PROVE DeviceHeld(x)'
    <3>1. /\ DeviceHeld(x) /\ Same(x) /\ SameData(x)
          /\ held'[Server] = held[Server]
      BY <1>5, <1>d, <2>4 DEF Imported, Only, SameServer
    <3> QED
      BY <3>1 DEF DeviceHeld, Same, SameData, Late, At, Prepared
  <2> QED
    BY <2>2, <2>3, <2>4 DEF HeldInv
<1>6. CASE Retried(d) \/ GivenUp(d) \/ Rechecked(d) \/ Reexported(d) \/ LocalSaved(d) \/ Finished(d)
  <2>1. /\ sync'[d].exported \in {sync[d].exported, local[d], Missing}
        /\ sync'[d].seen \in {sync[d].seen, Absent}
        /\ sync'[d].merged \in {sync[d].merged, Missing}
        /\ Late(d)' => Late(d) /\ sync'[d].merged = sync[d].merged
        /\ ~At(d, "prepared")' /\ local'[d] = local[d] /\ held'[d] = held[d]
        /\ SameServer /\ Only(d)
    BY <1>6 DEF Retried, GivenUp, Rechecked, Reexported, LocalSaved, Finished,
       Late, At, SameData
  <2>2. DeviceHeld(d)'
    BY <1>d, <1>n, <2>1 DEF DeviceHeld, SameServer
  <2> QED
    BY <2>1, <2>2, HeldKept
<1> QED
  BY <1>1, <1>2, <1>3, <1>4, <1>5, <1>6 DEF Moves

LEMMA NewStep ==
  ASSUME TypeOK, TypeOK', HeldInv, NewInv, NEW d \in Devices, Moves(d)
  PROVE  NewInv'
<1> USE SyncAssumption, GapAssumption
<1>d. DeviceNew(d) /\ HeldEdits /\ DeviceHeld(d)
      /\ \A x \in Devices : DeviceNew(x) /\ DeviceHeld(x)
  BY DEF HeldInv, NewInv
<1>n. Missing \notin Edits /\ Gap \notin Edits /\ Absent \notin Edits
  BY DEF Edits
<1>1. CASE CommittedNow(d)
  <2>1. \A v \in held'[Server] : v \in held[Server] \/ v = remote'
    BY <1>1 DEF CommittedNow
  <2>2. remote' \in Edits \ held[Server]
          => remote' \in held[d] /\ remote' = sync[d].exported
    <3>1. remote' \in Edits \ held[Server] => remote' # remote
      BY <1>d DEF HeldEdits
    <3> QED
      BY <1>1, <3>1, CommitBringsNew
  <2>3. ASSUME NEW x \in Devices \ {d} PROVE DeviceNew(x)'
    <3>1. /\ Same(x) /\ SameData(x) /\ DeviceNew(x) /\ DeviceHeld(x)
          /\ held[d] \cap held[x] \subseteq held[Server]
      BY <1>1, <1>d, <2>3 DEF CommittedNow, Only, HeldEdits
    <3>2. ASSUME NEW value, NEW known, New(value, known),
                 value \in Edits => value \in held[x]
          PROVE  New(value, known)'
      BY <2>1, <2>2, <3>1, <3>2 DEF New
    <3>3. /\ New(local[x], lbase[x]) => New(local[x], lbase[x])'
          /\ New(sync[x].exported, lbase[x]) => New(sync[x].exported, lbase[x])'
          /\ New(local[x], sync[x].exported) => New(local[x], sync[x].exported)'
      <4>1. /\ local'[x] = local[x] /\ lbase'[x] = lbase[x]
            /\ sync'[x].exported = sync[x].exported
            /\ local[x] \in Edits => local[x] \in held[x]
            /\ sync[x].exported \in Edits => sync[x].exported \in held[x]
        BY <3>1 DEF Same, SameData, DeviceHeld
      <4> QED
        BY <3>2, <4>1 DEF New
    <3> QED
      BY <3>1, <3>3 DEF DeviceNew, Same, SameData
  <2>4. DeviceNew(d)'
    BY <1>1, <1>d, <2>1, <2>2 DEF CommittedNow, SameData, DeviceNew, New, At
  <2> QED
    BY <2>3, <2>4 DEF NewInv
<1>2. CASE ~CommittedNow(d)
  <2>1. held'[Server] = held[Server]
    BY <1>2 DEF Moves, Edited, Started, PreparedNow, Retried, GivenUp, Rechecked,
       Imported, Reexported, LocalSaved, Finished, SameServer
  <2>2. ASSUME NEW x \in Devices \ {d} PROVE DeviceNew(x)'
    <3>1. Same(x) /\ SameData(x) /\ DeviceNew(x)
      BY <1>2, <1>d, <2>2
      DEF Moves, Edited, Started, PreparedNow, Retried, GivenUp, Rechecked,
          Imported, Reexported, LocalSaved, Finished, Only
    <3> QED
      BY <2>1, <3>1 DEF DeviceNew, New, Same, SameData
  <2>3. CASE Edited(d)
    <3>1. local'[d] \in Edits => local'[d] \notin held[Server]
      BY <2>3, EditIsNew
    <3> QED
      BY <1>d, <2>1, <2>2, <2>3, <3>1 DEF NewInv, DeviceNew, New, Edited, Same
  <2>4. CASE Started(d)
    BY <1>d, <2>1, <2>2, <2>4 DEF NewInv, DeviceNew, New, Started, SameData, At
  <2>5. CASE PreparedNow(d)
    BY <1>d, <2>1, <2>2, <2>5 DEF NewInv, DeviceNew, New, PreparedNow, SameData, At
  <2>6. CASE Retried(d) \/ GivenUp(d)
    <3>1. lbase[d] # Absent => New(local[d], lbase[d])
      BY <1>d, <2>6 DEF DeviceNew, New, Retried, GivenUp, At
    <3> QED
      BY <1>d, <2>1, <2>2, <2>6, <3>1
      DEF NewInv, DeviceNew, New, Retried, GivenUp, SameData, At
  <2>7. CASE Rechecked(d)
    BY <1>d, <2>1, <2>2, <2>7 DEF NewInv, DeviceNew, New, Rechecked, SameData, At
  <2>8. CASE Imported(d) \/ Reexported(d)
    BY <1>d, <2>1, <2>2, <2>8
    DEF NewInv, DeviceNew, New, Imported, Reexported, SameData, At
  <2>9. CASE LocalSaved(d)
    BY <1>d, <1>n, <2>1, <2>2, <2>9
    DEF NewInv, DeviceNew, New, LocalSaved, BaselineForProjection, At
  <2>10. CASE Finished(d)
    BY <1>d, <2>1, <2>2, <2>10 DEF NewInv, DeviceNew, New, Finished, At
  <2> QED
    BY <1>2, <2>3, <2>4, <2>5, <2>6, <2>7, <2>8, <2>9, <2>10 DEF Moves
<1> QED
  BY <1>1, <1>2

LEMMA HistoryStep ==
  MaxFailures = 0 =>
    (TypeOK /\ TypeOK' /\ CurrentOK /\ HeldInv /\ NewInv /\ [Next]_vars
       => (HeldInv /\ NewInv)')
<1> SUFFICES ASSUME MaxFailures = 0, TypeOK, TypeOK', CurrentOK, HeldInv, NewInv, [Next]_vars
             PROVE  (HeldInv /\ NewInv)'
  OBVIOUS
<1>1. CASE UNCHANGED vars
  BY <1>1 DEF vars, HeldInv, HeldEdits, DeviceHeld, NewInv, DeviceNew, New, Late,
     At, Prepared
<1>2. ASSUME NEW d \in Devices, Moves(d) PROVE (HeldInv /\ NewInv)'
  BY <1>2, HeldStep, NewStep
<1> QED
  BY <1>1, <1>2, StepMoves

LEMMA HistoryInit == Init => HeldInv /\ NewInv
<1> SUFFICES ASSUME Init PROVE HeldInv /\ NewInv
  OBVIOUS
<1>1. /\ \A x \in Devices \cup {Server} : held[x] = {}
      /\ remote = Absent /\ Missing \notin Edits /\ Absent \notin Edits
      /\ \A d \in Devices : local[d] = Missing /\ sync[d] = Idle
  BY SyncAssumption DEF Init, Edits
<1> QED
  BY <1>1 DEF Idle, HeldInv, HeldEdits, DeviceHeld, NewInv, DeviceNew, New, Late, At

LEMMA HistoryHolds == MaxFailures = 0 => (Spec => [](HeldInv /\ NewInv))
<1> SUFFICES ASSUME MaxFailures = 0 PROVE Spec => [](HeldInv /\ NewInv)
  OBVIOUS
<1>1. TypeOK /\ TypeOK' /\ CurrentOK /\ HeldInv /\ NewInv /\ [Next]_vars
        => (HeldInv /\ NewInv)'
  BY HistoryStep
<1> QED
  BY <1>1, HistoryInit, SyncTypeCorrect, CurrentHolds, PTL DEF Spec

(* As long as no sync is cut short, the server never takes back a value that
   was replaced or deleted: what a device uploads was never there, because what
   differs from its baseline was edited after its last export.  Any devices,
   conflicts and retries, and edits at any time.  (The baselines of _select.) *)
THEOREM NothingComesBack ==
  MaxFailures = 0 => (Spec => NoResurrection)
<1> SUFFICES ASSUME MaxFailures = 0 PROVE Spec => NoResurrection
  OBVIOUS
<1>1. TypeOK /\ CurrentOK /\ HeldInv /\ NewInv /\ [Next]_vars
        => [remote' # remote /\ remote' \in Edits => remote' \notin held[Server]]_vars
  <2> SUFFICES ASSUME TypeOK, CurrentOK, HeldInv, NewInv, Next,
                      remote' # remote, remote' \in Edits
               PROVE  remote' \notin held[Server]
    BY DEF vars
  <2>1. PICK d \in Devices : Moves(d)
    BY StepMoves DEF vars
  <2>2. CommittedNow(d)
    BY <2>1 DEF Moves, Edited, Started, PreparedNow, Retried, GivenUp, Rechecked,
       Imported, Reexported, LocalSaved, Finished, SameServer
  <2> QED
    BY <2>2, CommitBringsNew
<1> QED
  BY <1>1, HistoryHolds, SyncTypeCorrect, CurrentHolds, PTL DEF Spec, NoResurrection

-----------------------------------------------------------------------------
(* Why no sync undoes an edit *)

\* Overrides always have a value for the wire or none; a setting has no value
\* only as long as it never had one.
DeviceBlank(d) ==
  /\ ~Removable /\ local[d] = Missing => held[d] = {}
  /\ Removable => local[d] # Gap /\ sync[d].exported # Gap

BlankInv == \A d \in Devices : DeviceBlank(d)

\* A value that d has had.
Known(d, value) == value \in Edits \cap held[d]

\* Where the server has a value that a device has had, it is the value of the
\* device's baselines, or of the sync that is about to save them.
DeviceBack(d) ==
  /\ sync[d].phase \in {"idle", "exported", "prepared"} /\ Known(d, remote)
       => base[d] = remote /\ lbase[d] = remote
  /\ Late(d) /\ Known(d, remote) => sync[d].merged = remote
  /\ Known(d, sync[d].merged) =>
       /\ sync[d].phase \in {"committed", "saving"}
            => sync[d].exported \in {sync[d].merged, Gap}
       /\ sync[d].phase \in {"importing", "imported"}
            => local[d] \in {sync[d].merged, Gap}
       /\ At(d, "saved") => lbase[d] = sync[d].merged

BackInv == \A d \in Devices : DeviceBack(d)

LEMMA BlankStep ==
  ASSUME TypeOK, BlankInv, NEW d \in Devices, Moves(d)
  PROVE  BlankInv'
<1> USE SyncAssumption, GapAssumption
<1>t. /\ local[d] \in LocalValues /\ sync[d].merged \in WireValues
      /\ Missing \notin Edits /\ Gap \notin WireValues
  BY DEF TypeOK, Syncs, Edits, WireValues
<1>d. DeviceBlank(d) /\ \A x \in Devices : DeviceBlank(x)
  BY DEF BlankInv
<1>1. ASSUME NEW x \in Devices \ {d} PROVE DeviceBlank(x)'
  <2>1. Same(x) /\ SameData(x)
    BY <1>1
    DEF Moves, Edited, Started, PreparedNow, CommittedNow, Retried, GivenUp,
        Rechecked, Imported, Reexported, LocalSaved, Finished, Only
  <2> QED
    BY <1>d, <2>1 DEF DeviceBlank, Same, SameData
<1>2. DeviceBlank(d)'
  <2>1. CASE Edited(d)
    BY <1>d, <1>t, <2>1 DEF Edited, Same, DeviceBlank, Blank, TypeOK
  <2>2. CASE Imported(d)
    <3>1. local'[d] = Missing /\ ~Removable => local[d] = Missing /\ local'[d] = local[d]
      BY <1>t, <2>2 DEF Imported
    <3>2. Removable => local'[d] # Gap
      BY <1>d, <1>t, <2>2 DEF Imported, DeviceBlank
    <3> QED
      BY <1>d, <1>t, <2>2, <3>1, <3>2 DEF Imported, DeviceBlank
  <2>3. CASE ~Edited(d) /\ ~Imported(d)
    <3>1. /\ local'[d] = local[d] /\ held'[d] = held[d]
          /\ sync'[d].exported \in {sync[d].exported, local[d], Missing}
      BY <2>3
      DEF Moves, Started, PreparedNow, CommittedNow, Retried, GivenUp,
          Rechecked, Reexported, LocalSaved, Finished, SameData
    <3> QED
      BY <1>d, <3>1 DEF DeviceBlank
  <2> QED
    BY <2>1, <2>2, <2>3
<1> QED
  BY <1>1, <1>2 DEF BlankInv

\* A payload with a value the device has had is what the device exported.
LEMMA MergedIsExported ==
  ASSUME TypeOK, HeldInv, BackInv, NEW d \in Devices, CommittedNow(d),
         Known(d, sync[d].merged)
  PROVE  sync[d].exported \in {sync[d].merged, Gap}
<1> DEFINE merged == sync[d].merged
           exported == sync[d].exported
<1>1. merged = Prepared(d, exported, remote) /\ At(d, "prepared")
  BY DEF CommittedNow, HeldInv, DeviceHeld
<1>2. CASE remote = Absent
  BY <1>1, <1>2, WireValue DEF Prepared, Known
<1>3. CASE remote # Absent /\ merged = remote
  <2>1. base[d] = remote /\ lbase[d] = remote /\ remote # Missing /\ lbase[d] # Absent
    BY <1>1, <1>3, SyncAssumption DEF BackInv, DeviceBack, Known, At, Edits
  <2>2. Select(remote, remote, exported, remote) = remote
    BY <1>1, <1>3, <2>1 DEF Prepared
  <2>3. exported # Gap => exported = remote
    BY <2>1, <2>2, SyncAssumption DEF Select, LocalEdited, Wire
  <2> QED
    BY <1>3, <2>3
<1>4. CASE remote # Absent /\ merged # remote
  <2>1. LET m == Prepared(d, exported, remote) IN
         \/ remote # Absent /\ m = remote
         \/ remote = Absent /\ m = Wire(exported)
         \/ /\ remote # Absent /\ lbase[d] # Absent
            /\ LocalEdited(base[d], lbase[d], exported, remote)
            /\ m = exported /\ exported # Gap /\ exported # lbase[d]
    BY PreparedValues
  <2> QED
    BY <1>1, <1>4, <2>1
<1> QED
  BY <1>2, <1>3, <1>4

LEMMA BackStep ==
  ASSUME TypeOK, TypeOK', HeldInv, NewInv, BlankInv, BackInv,
         EditPhases \cap {"importing", "imported"} = {},
         NEW d \in Devices, Moves(d)
  PROVE  BackInv'
<1> USE SyncAssumption, GapAssumption
<1>d. DeviceBack(d) /\ HeldEdits /\ DeviceHeld(d) /\ DeviceBlank(d)
      /\ \A x \in Devices : DeviceBack(x)
  BY DEF HeldInv, BackInv, BlankInv
<1>n. Missing \notin Edits /\ Gap \notin Edits /\ Absent \notin Edits
  BY DEF Edits
<1>1. ASSUME NEW x \in Devices \ {d} PROVE DeviceBack(x)'
  <2>1. Same(x) /\ SameData(x)
    BY <1>1
    DEF Moves, Edited, Started, PreparedNow, CommittedNow, Retried, GivenUp,
        Rechecked, Imported, Reexported, LocalSaved, Finished, Only
  <2>2. Known(x, remote)' => remote' = remote
    <3>1. CASE CommittedNow(d) /\ remote' # remote /\ remote' \in Edits
      <4>1. remote' \notin held[Server] /\ remote' \in held[d]
        BY <3>1, CommitBringsNew
      <4>2. held[d] \cap held[x] \subseteq held[Server]
        BY <1>1, <1>d DEF HeldEdits
      <4> QED
        BY <2>1, <4>1, <4>2 DEF Known, SameData
    <3>2. CASE CommittedNow(d) /\ ~(remote' # remote /\ remote' \in Edits)
      BY <3>2 DEF Known
    <3>3. CASE ~CommittedNow(d)
      BY <3>3
      DEF Moves, Edited, Started, PreparedNow, Retried, GivenUp, Rechecked,
          Imported, Reexported, LocalSaved, Finished, SameServer
    <3> QED
      BY <3>1, <3>2, <3>3
  <2>3. \A value : (value \in Edits \cap held'[x]) <=> Known(x, value)
    BY <2>1 DEF Known, SameData
  <2> QED
    BY <1>d, <2>1, <2>2, <2>3 DEF DeviceBack, Known, Same, SameData, Late, At
<1>2. DeviceBack(d)'
  <2>1. CASE Edited(d)
    <3>1. local'[d] \in Edits =>
            local'[d] \notin held[Server] /\ local'[d] \notin held[d]
      BY <2>1, EditIsNew
    <3>2. /\ remote \in Edits => remote \in held[Server]
          /\ Late(d) /\ sync[d].merged \in Edits => sync[d].merged \in held[Server]
      BY <1>d DEF HeldEdits, DeviceHeld
    <3>3. /\ Known(d, remote)' => Known(d, remote)
          /\ Late(d) /\ Known(d, sync[d].merged)' => Known(d, sync[d].merged)
      BY <2>1, <3>1, <3>2 DEF Edited, Known, Same, SameServer
    <3>4. sync[d].phase \notin {"importing", "imported"}
      BY <2>1 DEF Edited
    <3> QED
      BY <1>d, <2>1, <3>3, <3>4 DEF DeviceBack, Edited, Same, SameServer, Late, At
  <2>2. CASE Started(d) \/ PreparedNow(d) \/ Retried(d) \/ GivenUp(d)
    <3>1. /\ sync[d].phase \in {"idle", "exported", "prepared"}
          /\ sync'[d].phase \in {"idle", "exported", "prepared"}
          /\ SameData(d) /\ SameServer
      BY <2>2 DEF Started, PreparedNow, Retried, GivenUp, At
    <3> QED
      BY <1>d, <3>1 DEF DeviceBack, Known, SameData, SameServer, Late, At
  <2>3. CASE CommittedNow(d)
    <3>1. Known(d, sync[d].merged) => sync[d].exported \in {sync[d].merged, Gap}
      BY <2>3, MergedIsExported
    <3>2. /\ sync'[d].phase = "committed" /\ sync'[d].exported = sync[d].exported
          /\ sync'[d].merged = sync[d].merged /\ remote' = sync[d].merged
          /\ held'[d] = held[d]
      BY <2>3 DEF CommittedNow, SameData
    <3> QED
      BY <3>1, <3>2 DEF DeviceBack, Known, Late, At
  <2>4. CASE Rechecked(d)
    <3>1. /\ sync'[d].phase \in {"importing", "saving"} /\ At(d, "committed")
          /\ sync'[d].merged = sync[d].merged /\ remote' = remote
          /\ local'[d] = local[d] /\ held'[d] = held[d]
          /\ \/ sync'[d].exported = sync[d].exported /\ sync'[d].phase = "saving"
             \/ /\ sync'[d].exported = local[d]
                /\ Wire(local[d]) = Wire(sync[d].exported)
      BY <2>4 DEF Rechecked, SameData, SameServer
    <3>2. /\ Late(d) /\ Known(d, remote) => sync[d].merged = remote
          /\ Known(d, sync[d].merged) => sync[d].exported \in {sync[d].merged, Gap}
          /\ Known(d, sync[d].merged) => ~(~Removable /\ local[d] = Missing)
          /\ Removable => sync[d].exported # Gap
      BY <1>d, <3>1 DEF DeviceBack, DeviceBlank, Known, At
    <3>3. ASSUME Known(d, sync[d].merged), Wire(local[d]) = Wire(sync[d].exported)
          PROVE  local[d] \in {sync[d].merged, Gap}
      BY <1>n, <3>2, <3>3 DEF Wire, Known
    <3> QED
      BY <3>1, <3>2, <3>3 DEF DeviceBack, Known, Late, At
  <2>5. CASE Imported(d)
    <3>1. /\ sync'[d].phase = "imported" /\ At(d, "importing")
          /\ sync'[d].merged = sync[d].merged /\ remote' = remote
          /\ held'[d] = held[d] \cup ({local'[d]} \cap Edits)
          /\ \/ /\ local[d] = Gap \/ (sync[d].merged = Missing /\ ~Removable)
                /\ local'[d] = local[d]
             \/ local[d] # Gap /\ local'[d] = sync[d].merged
      BY <2>5 DEF Imported, SameServer
    <3>2. /\ Known(d, remote) => sync[d].merged = remote
          /\ Known(d, sync[d].merged) => local[d] \in {sync[d].merged, Gap}
          /\ local[d] \in Edits => local[d] \in held[d]
      BY <1>d, <3>1 DEF DeviceBack, DeviceHeld, Late, At
    <3> QED
      BY <1>n, <3>1, <3>2 DEF DeviceBack, Known, Late, At
  <2>6. CASE Reexported(d)
    <3>1. /\ sync'[d].phase = "saving" /\ At(d, "imported")
          /\ sync'[d].exported = local[d]
          /\ sync'[d].merged = sync[d].merged /\ remote' = remote
          /\ held'[d] = held[d]
      BY <2>6 DEF Reexported, SameServer, SameData
    <3> QED
      BY <1>d, <3>1 DEF DeviceBack, Known, Late, At
  <2>7. CASE LocalSaved(d)
    <3>1. /\ sync'[d].phase = "saved" /\ At(d, "saving")
          /\ sync'[d].merged = sync[d].merged /\ remote' = remote
          /\ held'[d] = held[d]
          /\ lbase'[d] = BaselineForProjection(sync[d].exported, sync[d].merged)
      BY <2>7 DEF LocalSaved, SameServer
    <3>2. Known(d, sync[d].merged) => lbase'[d] = sync[d].merged
      BY <1>d, <3>1 DEF DeviceBack, At, BaselineForProjection
    <3> QED
      BY <1>d, <3>1, <3>2 DEF DeviceBack, Known, Late, At
  <2>8. CASE Finished(d)
    <3>1. /\ sync'[d].phase \in {"idle", "exported"} /\ At(d, "saved")
          /\ remote' = remote /\ held'[d] = held[d]
          /\ lbase'[d] = lbase[d] /\ base'[d] = sync[d].merged
          /\ sync'[d].merged = Missing
      BY <2>8 DEF Finished, SameServer
    <3>2. Known(d, remote) => sync[d].merged = remote /\ lbase[d] = sync[d].merged
      BY <1>d, <3>1 DEF DeviceBack, Known, Late, At
    <3> QED
      BY <1>n, <3>1, <3>2 DEF DeviceBack, Known, Late, At
  <2> QED
    BY <2>1, <2>2, <2>3, <2>4, <2>5, <2>6, <2>7, <2>8 DEF Moves
<1> QED
  BY <1>1, <1>2 DEF BackInv

LEMMA BackInit == Init => BlankInv /\ BackInv
<1> SUFFICES ASSUME Init PROVE BlankInv /\ BackInv
  OBVIOUS
<1>1. /\ \A d \in Devices : held[d] = {} /\ local[d] = Missing /\ sync[d] = Idle
  BY DEF Init
<1>2. Idle.exported = Missing /\ Missing # Gap
  BY GapAssumption DEF Idle
<1> QED
  BY <1>1, <1>2 DEF BlankInv, DeviceBlank, BackInv, DeviceBack, Known

\* A step that takes a device's value back would break what its sync knows.
LEMMA NoStepUndoes ==
  ASSUME TypeOK, TypeOK', HeldInv, BackInv, NEW d \in Devices, NEW x \in Devices,
         Moves(d), local'[x] # local[x], local'[x] \in Edits
  PROVE  local'[x] \notin held[x]
<1>1. x = d /\ (Edited(d) \/ Imported(d))
  BY DEF Moves, Edited, Started, PreparedNow, CommittedNow, Retried, GivenUp,
     Rechecked, Imported, Reexported, LocalSaved, Finished, Only, SameData
<1>2. CASE Edited(d)
  BY <1>1, <1>2, EditIsNew
<1>3. CASE Imported(d)
  <2>1. At(d, "importing") /\ local'[d] = sync[d].merged /\ local[d] # Gap
    BY <1>1, <1>3 DEF Imported
  <2>2. Known(d, sync[d].merged) => local[d] \in {sync[d].merged, Gap}
    BY <2>1 DEF BackInv, DeviceBack, At
  <2> QED
    BY <1>1, <2>1, <2>2 DEF Known
<1> QED
  BY <1>1, <1>2, <1>3

(* As long as no sync is cut short, and the user does not edit between the
   import and the export after it, no sync takes a setting of the user's back to
   a value it had before on this device: what the server has of a device's own
   values is in its baselines, so that the merge keeps a later one.  Any devices,
   conflicts and retries.  (requiresRetry and the local baseline of
   _finalizeSuccessfulCommit.) *)
THEOREM NoEditIsUndone ==
  /\ MaxFailures = 0
  /\ EditPhases \cap {"importing", "imported"} = {}
  => (Spec => NoUndo)
<1> SUFFICES ASSUME MaxFailures = 0, EditPhases \cap {"importing", "imported"} = {}
             PROVE  Spec => NoUndo
  OBVIOUS
<1>1. TypeOK /\ TypeOK' /\ CurrentOK /\ HeldInv /\ NewInv /\ BlankInv /\ BackInv
        /\ [Next]_vars => (BlankInv /\ BackInv)'
  <2> SUFFICES ASSUME TypeOK, TypeOK', CurrentOK, HeldInv, NewInv, BlankInv, BackInv,
                      [Next]_vars
               PROVE  (BlankInv /\ BackInv)'
    OBVIOUS
  <2>1. CASE UNCHANGED vars
    BY <2>1 DEF vars, BlankInv, DeviceBlank, BackInv, DeviceBack, Known, Late, At
  <2>2. ASSUME NEW d \in Devices, Moves(d) PROVE (BlankInv /\ BackInv)'
    BY <2>2, BlankStep, BackStep
  <2> QED
    BY <2>1, <2>2, StepMoves
<1>2. TypeOK /\ TypeOK' /\ CurrentOK /\ HeldInv /\ BackInv /\ [Next]_vars
        => [\A d \in Devices :
              local'[d] # local[d] /\ local'[d] \in Edits => local'[d] \notin held[d]]_vars
  <2> SUFFICES ASSUME TypeOK, TypeOK', CurrentOK, HeldInv, BackInv, Next,
                      NEW x \in Devices, local'[x] # local[x], local'[x] \in Edits
               PROVE  local'[x] \notin held[x]
    BY DEF vars
  <2>1. PICK d \in Devices : Moves(d)
    BY StepMoves DEF vars
  <2> QED
    BY <2>1, NoStepUndoes
<1> QED
  BY <1>1, <1>2, BackInit, HistoryHolds, SyncTypeCorrect, CurrentHolds, PTL
  DEF Spec, NoUndo

=============================================================================
