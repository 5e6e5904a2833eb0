------------------------------ MODULE AtomicFile ------------------------------
(***************************************************************************)
(* _atomicWrite, _deleteFileAndPrevious and _loadBackup of                 *)
(* FileChimahonDeferredPayloadStore (and _readMarker, which reads the same *)
(* way): a file is replaced by a rename; where a rename cannot replace     *)
(* (Windows) the old file steps aside as ".previous" meanwhile.  One       *)
(* action is one file system call; the app may die or the call may fail    *)
(* at each of them.  The bytes are valid once written (flushed before the  *)
(* rename), so quarantine of corrupt files is left out.                    *)
(***************************************************************************)
CONSTANTS Values, Absent, Windows

ASSUME FileAssumption == Absent \notin Values /\ Windows \in BOOLEAN

VARIABLES file,      \* the file
          previous,  \* its ".previous" neighbour
          step,      \* the next call of the operation under way
          new        \* the value it writes, Absent for a delete

fileVars == <<file, previous, step, new>>

FileTypeOK ==
  /\ file \in Values \cup {Absent}
  /\ previous \in Values \cup {Absent}
  /\ new \in Values \cup {Absent}
  /\ step \in {"idle", "drop", "aside", "rename", "rename aside", "clean",
               "delete previous", "delete", "return"}

FileInit == file = Absent /\ previous = Absent /\ step = "idle" /\ new = Absent

-----------------------------------------------------------------------------
(* _atomicWrite: the temporary file holds v, flushed *)

BeginWrite(v) ==
  /\ step = "idle"
  /\ new' = v
  /\ step' = IF Windows /\ file # Absent THEN "drop" ELSE "rename"
  /\ UNCHANGED <<file, previous>>

\* A stale ".previous" is removed ...
DropPrevious ==
  /\ step = "drop"
  /\ previous' = Absent
  /\ step' = "aside"
  /\ UNCHANGED <<file, new>>

\* ... the file is renamed to ".previous" ...
Aside ==
  /\ step = "aside"
  /\ previous' = file /\ file' = Absent
  /\ step' = "rename aside"
  /\ UNCHANGED new

\* ... and the temporary file to the file.
Rename ==
  /\ step \in {"rename", "rename aside"}
  /\ file' = new
  /\ step' = IF step = "rename aside" THEN "clean" ELSE "return"
  /\ UNCHANGED <<previous, new>>

\* The rename fails: what stepped aside is put back, the exception goes on.
RollBack ==
  /\ step = "rename aside"
  /\ IF file = Absent /\ previous # Absent
     THEN file' = previous /\ previous' = Absent
     ELSE UNCHANGED <<file, previous>>
  /\ step' = "idle"
  /\ new' = Absent

Clean ==
  /\ step = "clean"
  /\ previous' = Absent
  /\ step' = "return"
  /\ UNCHANGED <<file, new>>

-----------------------------------------------------------------------------
(* _deleteFileAndPrevious *)

\* Mutant of BeginDelete: only the file itself is deleted.
BeginDeleteFile ==
  /\ step = "idle"
  /\ step' = "delete"
  /\ new' = Absent
  /\ UNCHANGED <<file, previous>>

BeginDelete ==
  /\ step = "idle"
  /\ step' = "delete previous"
  /\ new' = Absent
  /\ UNCHANGED <<file, previous>>

DeletePrevious ==
  /\ step = "delete previous"
  /\ previous' = Absent
  /\ step' = "delete"
  /\ UNCHANGED <<file, new>>

DeleteFile ==
  /\ step = "delete"
  /\ file' = Absent
  /\ step' = "return"
  /\ UNCHANGED <<previous, new>>

-----------------------------------------------------------------------------
Return ==
  /\ step = "return"
  /\ step' = "idle" /\ new' = Absent
  /\ UNCHANGED <<file, previous>>

\* A call fails, or the app dies; the temporary file is never read.
CallFails ==
  /\ step # "idle"
  /\ step' = "idle" /\ new' = Absent
  /\ UNCHANGED <<file, previous>>

FileNext ==
  \/ \E v \in Values : BeginWrite(v)
  \/ DropPrevious \/ Aside \/ Rename \/ RollBack \/ Clean
  \/ BeginDelete \/ DeletePrevious \/ DeleteFile
  \/ Return \/ CallFails

FileSpec == FileInit /\ [][FileNext]_fileVars

-----------------------------------------------------------------------------
(* Properties *)

\* _loadBackup: only a missing file makes ".previous" count.
Loaded == IF file # Absent THEN file ELSE previous

\* Where the two files are at each step: a file steps aside only if there is
\* one, nothing stale is left when a delete takes the file itself, and what an
\* operation returns for has taken effect.
FilesInv ==
  /\ FileTypeOK
  /\ step \in {"drop", "aside"} => file # Absent
  /\ step = "rename aside" => file = Absent
  /\ step = "clean" => file = new
  /\ step = "delete" => previous = Absent
  /\ step = "return" => Loaded = new
  /\ step \in {"drop", "aside", "rename", "rename aside", "clean"} => new # Absent
  /\ step \in {"idle", "delete previous", "delete"} => new = Absent

\* The operation under way, as DurableValue sees it.
Intent == IF step = "idle" THEN {} ELSE {new}

Durable == INSTANCE DurableValue WITH value <- Loaded, intent <- Intent

\* Whatever call fails and wherever the app dies, also again and again, a load
\* returns the old value or the new one; a deleted value never comes back from
\* a ".previous" left by an earlier accident; an operation that returns has
\* taken effect (chimahon_deferred_payload_store.dart:338-343, 402-404).
ImplementsDurableValue == Durable!Spec

=============================================================================
