--------------------------- MODULE RestoreLifecycle ---------------------------
(***************************************************************************)
(* The files that carry a manual restore, a Download-only and a sync over  *)
(* a crash.  RestoreSyncCoordinator runs the three one at a time, and      *)
(* AtomicFile makes the replacement or deletion of one file indivisible,   *)
(* so an operation is the sequence of the places it changes, and an error  *)
(* or the end of the process may cut it short between any two of them.     *)
(*                                                                         *)
(* Contents are the set of restored backups whose data they include.  A    *)
(* preference baseline is identified by the contents it was projected      *)
(* with.                                                                   *)
(***************************************************************************)
EXTENDS Naturals, Sequences

CONSTANTS Backups,  \* backup files the user may restore
          None,     \* an absent file, or no data on the server
          Torn      \* a library in the middle of a replacement

ASSUME LifecycleAssumption ==
  /\ None # Torn /\ {None, Torn} \cap Backups = {}
  /\ None \notin {"preparing", "ready"}
  /\ \A c \in SUBSET Backups : None # c /\ Torn # c

VARIABLES store,    \* what each place holds
          op,       \* the operation that runs
          todo      \* the changes it has still to make

vars == <<store, op, todo>>

PendingFiles == {"payload", "pendingPrefs", "pendingSources"}
AccountFiles == {"envelope", "prefs", "sources"}
Places == PendingFiles \cup AccountFiles \cup {"marker", "stage", "library", "server"}
Contents == SUBSET Backups

TypeOK ==
  /\ DOMAIN store = Places
  /\ store["marker"] \in {None, "preparing", "ready"}
  /\ store["payload"] \in Backups \cup {None}
  /\ \A p \in Places \ {"marker", "payload", "library"} :
       store[p] \in {None} \cup Contents
  /\ store["library"] \in {Torn} \cup Contents
  /\ op \in {"idle", "restore", "download", "sync"}
  /\ \A i \in DOMAIN todo : todo[i].at \in Places
  /\ op = "idle" <=> todo = <<>>

\* A new device, or one on which a version without the marker restored b.
Init ==
  /\ \E server \in {None, {}}, pending \in Backups \cup {None} :
       store = [p \in Places |->
                  CASE p = "server" -> server
                    [] p = "payload" -> pending
                    [] p = "library" -> {pending} \ {None}
                    [] OTHER -> None]
  /\ op = "idle" /\ todo = <<>>

-----------------------------------------------------------------------------
(* The pending store's phase *)

\* _requireCompletePreparingState: nothing a sync of the restore needs misses.
Complete == \A f \in PendingFiles : store[f] # None

\* _resolvePhase: "blocked" where it throws.
Phase ==
  CASE store["marker"] = "preparing" -> "preparing"
    [] store["marker"] = "ready" -> IF Complete THEN "ready" ELSE "blocked"
    [] OTHER -> IF store["payload"] = None THEN "absent" ELSE "ready"

\* ensureReadyForSync, and ensureNoIncompleteDownload for an upload.
Syncable == Phase \in {"absent", "ready"} /\ store["stage"] = None

-----------------------------------------------------------------------------
(* What the operations change, in order *)

Put(place, value) == [at |-> place, put |-> value]
Delete(place) == Put(place, None)

\* Mutant of RestoreChanges: only the preference baseline is captured.
RestoreSkipsSources(b) ==
  << Put("marker", "preparing"),
     Delete("pendingPrefs"), Delete("pendingSources"), Put("payload", b),
     Put("library", Torn), Put("library", {b}),
     Put("pendingPrefs", {b}), Put("marker", "ready") >>

\* beginPreparing, the import, the two projections, markReady.
RestoreChanges(b) ==
  << Put("marker", "preparing"),
     Delete("pendingPrefs"), Delete("pendingSources"), Put("payload", b),
     Put("library", Torn), Put("library", {b}),
     Put("pendingPrefs", {b}), Put("pendingSources", {b}),
     Put("marker", "ready") >>

\* Mutant of DownloadChanges: staged when the import is over.
DownloadStagesLate(d) ==
  << Put("library", Torn), Put("library", d),
     Delete("prefs"), Delete("sources"), Put("stage", d),
     Put("prefs", d), Put("sources", d), Put("envelope", d),
     Delete("stage"), Delete("prefs"), Delete("sources") >>

\* The stage store keeps media records, so that saving and clearing it deletes
\* the baselines in its directory: those of the account store.
DownloadChanges(d) ==
  << Delete("prefs"), Delete("sources"), Put("stage", d),
     Put("library", Torn), Put("library", d),
     Put("prefs", d), Put("sources", d), Put("envelope", d),
     Delete("stage"), Delete("prefs"), Delete("sources") >>

PendingCleared ==
  << Delete("payload"), Delete("pendingPrefs"), Delete("pendingSources"),
     Delete("marker") >>

\* Upload, import (not when only uploading), baselines, envelope, and the
\* pending restore is consumed.  A routine import takes the newer of two
\* records, so that a part of it leaves a library that is whole.
SyncChanges(m, import) ==
  << Put("server", m) >>
  \o (IF import THEN << Put("library", m) >> ELSE << >>)
  \o << Put("prefs", m), Put("sources", m), Put("envelope", m) >>
  \o PendingCleared

-----------------------------------------------------------------------------
(* Actions *)

Begin(name, changes) == op = "idle" /\ op' = name /\ todo' = changes

StartRestore(b) == Begin("restore", RestoreChanges(b)) /\ UNCHANGED store

\* Download-only: not while a restore is unfinished, and there is remote data.
StartDownload ==
  /\ Phase \in {"absent", "ready"} /\ store["server"] # None
  /\ Begin("download", DownloadChanges(store["server"]))
  /\ UNCHANGED store

\* What is uploaded: the remote data and the pending restore.  The library's
\* own records are among them.
Merged ==
  (IF store["server"] = None THEN {} ELSE store["server"])
    \cup ({store["payload"]} \ {None})

StartSync(import) ==
  /\ Syncable
  /\ Begin("sync", SyncChanges(Merged, import))
  /\ UNCHANGED store

\* markReady throws when something misses.
MayApply(change) ==
  change.at = "marker" /\ change.put = "ready" =>
    store["marker"] = "preparing" /\ Complete

\* The next change is made; the operation ends with the last.
Apply ==
  /\ todo # <<>> /\ MayApply(Head(todo))
  /\ store' = [store EXCEPT ![Head(todo).at] = Head(todo).put]
  /\ todo' = Tail(todo)
  /\ op' = IF Len(todo) = 1 THEN "idle" ELSE op

\* An error ends the operation, or the process ends.
Interrupt ==
  /\ op # "idle"
  /\ op' = "idle" /\ todo' = <<>>
  /\ UNCHANGED store

Next ==
  \/ \E b \in Backups : StartRestore(b)
  \/ StartDownload
  \/ \E import \in BOOLEAN : StartSync(import)
  \/ Apply
  \/ Interrupt

Spec == Init /\ [][Next]_vars

-----------------------------------------------------------------------------
(* Properties *)

\* Whenever a sync would be let in, it finds a library no replacement left
\* half done, and everything that library shows has its complete payload on the
\* server or pending: a partial restore or Download-only is never uploaded, and
\* fields the database cannot hold are not lost (restore.dart:369-371,
\* chimahon_deferred_payload_store.dart:121-123).
SyncSeesWhole ==
  Syncable => /\ store["library"] # Torn
              /\ store["library"] \subseteq
                   {store["payload"]} \cup
                   (IF store["server"] = None THEN {} ELSE store["server"])

\* A restore that is marked ready has the projection baselines of its own
\* payload, whatever earlier restore was cut short or replaced
\* (chimahon_deferred_payload_store.dart:471-473).
ReadyIsWhole ==
  store["marker"] = "ready" /\ Complete =>
    /\ store["pendingPrefs"] = {store["payload"]}
    /\ store["pendingSources"] = {store["payload"]}

\* A restore that reaches markReady passes its check: it does not fail after
\* the library was replaced and leave sync blocked for good.
RestoreCanFinish ==
  op = "restore" /\ Len(todo) = 1 => MayApply(Head(todo))

\* A pending restore that was ready is dropped by a sync only when the server,
\* both baselines and the envelope include it; until then each retry finds it
\* (cross_device_sync_engine.dart:504-507).
RestoreAcknowledged ==
  [][LET b == store["payload"] IN
     op = "sync" /\ b # None /\ store'["payload"] # b =>
       \A p \in AccountFiles \cup {"server"} :
         store[p] # None /\ b \in store[p]]_vars

\* The envelope of the account, the base of the next three-way merge, is
\* replaced when both baselines that go with it are in place
\* (cross_device_sync_engine.dart:504, sync_server.dart:766-768).
EnvelopeActivatedLast ==
  [][store'["envelope"] # store["envelope"] =>
       /\ store["prefs"] = store'["envelope"]
       /\ store["sources"] = store'["envelope"]]_vars

\* A Download-only that runs to its end leaves the envelope together with its
\* companion baselines (sync_server.dart:766-768).  The code does not: see
\* DownloadChanges.
DownloadKeepsBaselines ==
  [][op = "download" /\ Len(todo) = 1 /\ todo' = <<>> /\ store' # store =>
       \A f \in AccountFiles : store'[f] # None]_vars

=============================================================================
