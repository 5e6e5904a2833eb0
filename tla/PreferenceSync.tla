---------------------------- MODULE PreferenceSync -----------------------------
(***************************************************************************)
(* One preference on several devices that synchronize through one server   *)
(* object, as CrossDeviceSyncEngine does it (cross_device_sync_engine.dart *)
(* and the loop around it in sync_server.dart): export, download and merge,*)
(* conditional upload, re-export and comparison, import, re-export, local  *)
(* baseline, remote baseline.  The user may edit between any two of them.  *)
(*                                                                         *)
(* Each edit is a number of its own, in the order of time, so that a value *)
(* tells who set it and when.  The rest of the payload is the budget       *)
(* "noise": other data may ask for an upload, or differ at the comparison. *)
(***************************************************************************)
EXTENDS Naturals, PreferenceMerge

CONSTANTS Devices,
          Absent,        \* no file, or nothing on the server
          Server,        \* the name of the server in held
          MaxEdits,      \* bound: edits that set a value
          MaxNoise,      \* bound: interferences of other data
          MaxFailures,   \* bound: syncs that an error or a crash cuts short
          MaxConflictRetries,
          Removable,     \* an override that can be removed, or a setting that cannot
          EditPhases     \* the phases of a sync in which the user may edit

Phases == {"idle", "exported", "prepared", "committed", "importing",
           "imported", "saving", "saved"}
Edits == 1 .. MaxEdits

ASSUME SyncAssumption ==
  /\ MaxEdits \in Nat /\ MaxNoise \in Nat /\ MaxFailures \in Nat
  /\ MaxConflictRetries \in Nat
  /\ Missing \notin Nat /\ Gap \notin Nat /\ Absent \notin Nat \cup {Missing, Gap}
  /\ Removable \in BOOLEAN /\ EditPhases \subseteq Phases
  /\ Server \notin Devices

VARIABLES local,    \* device -> the setting
          lbase,    \* device -> file of the local baseline
          base,     \* device -> the key in the remote baseline (envelope)
          remote,   \* the key in the object on the server
          sync,     \* device -> the sync that runs
          used,     \* how much of each bound is used up
          held      \* history: the edits each device and the server have had

vars == <<local, lbase, base, remote, sync, used, held>>

WireValues == Edits \cup {Missing}
LocalValues == WireValues \cup {Gap}

\* The sync that a device runs; the fields it does not need have a fixed value.
Syncs == [phase     : Phases,
          importing : BOOLEAN,      \* two-way, not only an upload
          exported  : LocalValues,  \* the export to go by
          seen      : WireValues \cup {Absent},
          merged    : WireValues,
          current   : BOOLEAN,      \* nobody wrote since the download
          conflicts : 0 .. MaxConflictRetries,
          again     : BOOLEAN,      \* the second run of sync_server's loop
          retry     : BOOLEAN]      \* local data changed

TypeOK ==
  /\ local \in [Devices -> LocalValues]
  /\ lbase \in [Devices -> WireValues \cup {Absent}]
  /\ base \in [Devices -> WireValues]
  /\ remote \in WireValues \cup {Absent}
  /\ sync \in [Devices -> Syncs]
  /\ used \in [edits : 0 .. MaxEdits, noise : 0 .. MaxNoise, failures : 0 .. MaxFailures]
  /\ held \in [Devices \cup {Server} -> SUBSET Edits]

Idle == [phase |-> "idle", importing |-> FALSE, exported |-> Missing,
         seen |-> Absent, merged |-> Missing, current |-> FALSE,
         conflicts |-> 0, again |-> FALSE, retry |-> FALSE]

\* Devices that have never synchronized; nothing is on the server.
Init ==
  /\ local = [d \in Devices |-> Missing]
  /\ lbase = [d \in Devices |-> Absent]
  /\ base = [d \in Devices |-> Missing]
  /\ remote = Absent
  /\ sync = [d \in Devices |-> Idle]
  /\ used = [edits |-> 0, noise |-> 0, failures |-> 0]
  /\ held = [x \in Devices \cup {Server} |-> {}]

-----------------------------------------------------------------------------
At(d, phase) == sync[d].phase = phase

\* x comes to hold value.
Hold(x, value) == held' = [held EXCEPT ![x] = @ \cup ({value} \cap Edits)]

\* The edit that sets no value: removing the key, or choosing something that
\* has no counterpart on the wire.
Blank == IF Removable THEN Missing ELSE Gap

\* The user edits the preference.
Edit(d) ==
  /\ sync[d].phase \in EditPhases
  /\ used.edits < MaxEdits
  /\ used' = [used EXCEPT !.edits = @ + 1]
  /\ \E value \in {used'.edits, Blank} :
       local' = [local EXCEPT ![d] = value] /\ Hold(d, value)
  /\ UNCHANGED <<lbase, base, remote, sync>>

\* A two-way sync, or one that only uploads, begins with an export.
Start(d, importing) ==
  /\ At(d, "idle")
  /\ sync' = [sync EXCEPT ![d] =
                [Idle EXCEPT !.phase = "exported", !.importing = importing,
                             !.exported = local[d]]]
  /\ UNCHANGED <<local, lbase, base, remote, used, held>>

\* The payload to upload.  Without a local baseline the remote value counts as
\* the last one, and the local value as unedited.
Prepared(d, exported, seen) ==
  IF seen = Absent THEN Wire(exported)
  ELSE IF lbase[d] = Absent THEN Select(seen, Wire(exported), exported, seen)
  ELSE Select(base[d], lbase[d], exported, seen)

\* _prepareSyncPayload reads the server and the files, and merges.
Prepare(d) ==
  /\ At(d, "exported")
  /\ sync' = [sync EXCEPT ![d] =
                [@ EXCEPT !.phase = "prepared", !.seen = remote, !.current = TRUE,
                          !.merged = Prepared(d, sync[d].exported, remote)]]
  /\ UNCHANGED <<local, lbase, base, remote, used, held>>

\* The sync once the server has its payload.
Committed(s) == [s EXCEPT !.phase = "committed", !.seen = Absent,
                          !.current = FALSE, !.conflicts = 0]

\* Mutant of Upload: the revision is not sent.
UploadBlindly(d) ==
  /\ At(d, "prepared")
  /\ sync[d].merged # sync[d].seen
  /\ remote' = sync[d].merged
  /\ Hold(Server, sync[d].merged)
  /\ sync' = [x \in Devices |->
                IF x = d THEN Committed(sync[d])
                ELSE [sync[x] EXCEPT !.current = FALSE]]
  /\ UNCHANGED <<local, lbase, base, used>>

\* The conditional write succeeds: nobody wrote since the download.
Upload(d) ==
  /\ At(d, "prepared") /\ sync[d].current
  /\ \/ sync[d].merged # sync[d].seen /\ UNCHANGED used
     \/ used.noise < MaxNoise /\ used' = [used EXCEPT !.noise = @ + 1]
  /\ remote' = sync[d].merged
  /\ Hold(Server, sync[d].merged)
  /\ sync' = [x \in Devices |->
                IF x = d THEN Committed(sync[d])
                ELSE [sync[x] EXCEPT !.current = FALSE]]
  /\ UNCHANGED <<local, lbase, base>>

\* _confirmNoOpRemote: the server has the payload already and still has it.
SkipUpload(d) ==
  /\ At(d, "prepared") /\ sync[d].current
  /\ sync[d].merged = sync[d].seen
  /\ sync' = [sync EXCEPT ![d] = Committed(@)]
  /\ UNCHANGED <<local, lbase, base, remote, used, held>>

\* SyncConflictException: another device wrote since the download.
Conflict(d) ==
  /\ At(d, "prepared") /\ ~sync[d].current
  /\ sync' = [sync EXCEPT ![d] =
                IF sync[d].conflicts < MaxConflictRetries
                THEN [@ EXCEPT !.phase = "exported", !.exported = local[d],
                               !.conflicts = sync[d].conflicts + 1]
                ELSE Idle]
  /\ UNCHANGED <<local, lbase, base, remote, used, held>>

\* Mutant of Recheck: the merged payload is imported in any case.
RecheckIgnored(d) ==
  /\ At(d, "committed")
  /\ sync' = [sync EXCEPT ![d].phase = IF sync[d].importing
                                       THEN "importing" ELSE "saving"]
  /\ UNCHANGED <<local, lbase, base, remote, used, held>>

\* _finalizeSuccessfulCommit exports again.  A payload made from another state
\* is not imported, and the baseline stays with what was exported before.
Recheck(d) ==
  /\ At(d, "committed")
  /\ \E noisy \in BOOLEAN :
       LET changed == noisy \/ Wire(local[d]) # Wire(sync[d].exported)
       IN  /\ noisy => used.noise < MaxNoise
           /\ used' = [used EXCEPT !.noise = IF noisy THEN @ + 1 ELSE @]
           /\ sync' = [sync EXCEPT ![d] =
                [@ EXCEPT !.retry = changed,
                          !.exported = IF changed THEN sync[d].exported ELSE local[d],
                          !.phase = IF sync[d].importing /\ ~changed
                                    THEN "importing" ELSE "saving"]]
  /\ UNCHANGED <<local, lbase, base, remote, held>>

\* Mutant of Import: only settings that have no value are imported.
ImportUnset(d) ==
  /\ At(d, "importing")
  /\ LET value == IF local[d] = Missing THEN sync[d].merged ELSE local[d]
     IN  local' = [local EXCEPT ![d] = value] /\ Hold(d, value)
  /\ sync' = [sync EXCEPT ![d].phase = "imported"]
  /\ UNCHANGED <<lbase, base, remote, used>>

\* The importer keeps local gaps; it removes absent overrides only.
Import(d) ==
  /\ At(d, "importing")
  /\ LET keeps == local[d] = Gap \/ (sync[d].merged = Missing /\ ~Removable)
         value == IF keeps THEN local[d] ELSE sync[d].merged
     IN  local' = [local EXCEPT ![d] = value] /\ Hold(d, value)
  /\ sync' = [sync EXCEPT ![d].phase = "imported"]
  /\ UNCHANGED <<lbase, base, remote, used>>

\* The export after the import, which becomes the local baseline as it is.
Reexport(d) ==
  /\ At(d, "imported")
  /\ sync' = [sync EXCEPT ![d] =
                [@ EXCEPT !.phase = "saving", !.exported = local[d]]]
  /\ UNCHANGED <<local, lbase, base, remote, used, held>>

\* Mutant of SaveLocalBaseline: the uploaded value, imported or not.
SaveMergedBaseline(d) ==
  /\ At(d, "saving")
  /\ lbase' = [lbase EXCEPT ![d] = sync[d].merged]
  /\ sync' = [sync EXCEPT ![d].phase = "saved"]
  /\ UNCHANGED <<local, base, remote, used, held>>

SaveLocalBaseline(d) ==
  /\ At(d, "saving")
  /\ lbase' = [lbase EXCEPT ![d] =
                 BaselineForProjection(sync[d].exported, sync[d].merged)]
  /\ sync' = [sync EXCEPT ![d].phase = "saved"]
  /\ UNCHANGED <<local, base, remote, used, held>>

\* The remote baseline is saved last.  Data that changed meanwhile is
\* synchronized once more at once, and left to the next sync after that.
Finish(d) ==
  /\ At(d, "saved")
  /\ base' = [base EXCEPT ![d] = sync[d].merged]
  /\ sync' = [sync EXCEPT ![d] =
                IF sync[d].retry /\ ~sync[d].again
                THEN [Idle EXCEPT !.phase = "exported", !.exported = local[d],
                                  !.importing = sync[d].importing, !.again = TRUE]
                ELSE Idle]
  /\ UNCHANGED <<local, lbase, remote, used, held>>

\* An error ends the sync, or the process ends; the answer to an upload that
\* the server applied may be lost.
Fail(d) ==
  /\ ~At(d, "idle")
  /\ used.failures < MaxFailures
  /\ used' = [used EXCEPT !.failures = @ + 1]
  /\ sync' = [sync EXCEPT ![d] = Idle]
  /\ UNCHANGED <<local, lbase, base, remote, held>>

Step(d) ==
  \/ Prepare(d) \/ Upload(d) \/ SkipUpload(d) \/ Conflict(d) \/ Recheck(d)
  \/ Import(d) \/ Reexport(d) \/ SaveLocalBaseline(d) \/ Finish(d)

Next ==
  \E d \in Devices :
    \/ Edit(d)
    \/ \E importing \in BOOLEAN : Start(d, importing)
    \/ Step(d)
    \/ Fail(d)

Spec == Init /\ [][Next]_vars

\* A sync that runs goes on, and two-way syncs are started again and again.
FairSpec ==
  Spec /\ \A d \in Devices : WF_vars(Step(d)) /\ SF_vars(Start(d, TRUE))

-----------------------------------------------------------------------------
(* Properties *)

(* A sync never takes the user's setting back to a value it had before on
   this device: what replaces it was set elsewhere.  (requiresRetry and the
   local baseline of _finalizeSuccessfulCommit.) *)
NoUndo ==
  [][\A d \in Devices :
       local'[d] # local[d] /\ local'[d] \in Edits => local'[d] \notin held[d]]_vars

(* The server never takes back a value that was replaced or deleted: no
   device uploads an old projection as if it were an edit.  (The baselines of
   _select.) *)
NoResurrection ==
  [][remote' # remote /\ remote' \in Edits => remote' \notin held[Server]]_vars

(* The server's value is only ever replaced by a device whose merge read it,
   whatever devices and retries there are.  (The revision that storage.upload
   and _confirmNoOpRemote compare.) *)
NoBlindOverwrite ==
  [][remote' # remote => \E d \in Devices :
       /\ At(d, "prepared") /\ sync'[d].phase = "committed"
       /\ sync[d].seen = remote /\ sync[d].merged = remote']_vars

(* A setting that is on the server stays there: a device whose own value the
   wire format cannot represent, or that has none yet, never deletes it.
   (locallyUnrepresentableKeys, baselineForProjection, first contact.) *)
GapsKeepRemote ==
  [][~Removable /\ remote \in Edits => remote' \in Edits]_vars

(* An edit that differs from the local baseline does not stay off the server:
   it is uploaded, or its user or another device replaces it.  No outcome of
   conflict, comparison, retry or failure leaves it taken for synchronized when
   it is not. *)
EditsArePublished ==
  \A d \in Devices :
    local[d] \in Edits \ held[Server] /\ lbase[d] \notin {Absent, local[d]}
      ~> local[d] \notin Edits \ held[Server]

(* Once edits and failures are over all devices come to show the server's
   value, but for those whose own value the wire format cannot represent. *)
Converges ==
  <>[](remote \in Edits => \A d \in Devices : local[d] \in {remote, Gap})

=============================================================================
