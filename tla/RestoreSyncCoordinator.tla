------------------------ MODULE RestoreSyncCoordinator ------------------------
(***************************************************************************)
(* ChimahonRestoreSyncCoordinator: manual restores, syncs and previews     *)
(* exclude one another by a chain of promises (_runExclusive), and a sync  *)
(* that was queued re-reads its preference when its turn comes             *)
(* (runQueuedChimahonSync).  Calls are numbered as they are made, so the   *)
(* predecessor a call awaits (_tail) is the call before it.                *)
(***************************************************************************)
EXTENDS Integers

CONSTANTS MaxCalls,  \* bound: calls
          Settings,  \* sync preferences: backend and whether it is automatic
          Enabled,   \* those with Chimahon sync as the mode
          Automatic  \* those of them with a sync schedule

ASSUME CoordinatorAssumption ==
  /\ MaxCalls \in Nat
  /\ Enabled \subseteq Settings /\ Automatic \subseteq Enabled

VARIABLES tail,      \* the calls made: the last of them is _tail
          kind,      \* what each call does
          state,     \* where it is
          setting,   \* the sync preference now
          used       \* the preference a running sync works with

callVars == <<tail, kind, state, setting, used>>

Calls == 1..MaxCalls
Kinds == {"restore", "preview", "sync", "scheduled sync"}
NoSetting == "none"
ASSUME SettingAssumption == NoSetting \notin Settings

CallsTypeOK ==
  /\ tail \in 0..MaxCalls
  /\ kind \in [Calls -> Kinds]
  /\ state \in [Calls -> {"not made", "queued", "running", "released"}]
  /\ setting \in Settings
  /\ used \in [Calls -> Settings \cup {NoSetting}]
  /\ \A c \in Calls : state[c] = "not made" <=> c > tail

CallsInit ==
  /\ tail = 0
  /\ kind = [c \in Calls |-> "restore"]
  /\ state = [c \in Calls |-> "not made"]
  /\ setting \in Settings
  /\ used = [c \in Calls |-> NoSetting]

\* predecessor = _tail; _tail = release.future
Call(k) ==
  /\ tail < MaxCalls
  /\ tail' = tail + 1
  /\ kind' = [kind EXCEPT ![tail + 1] = k]
  /\ state' = [state EXCEPT ![tail + 1] = "queued"]
  /\ UNCHANGED <<setting, used>>

\* Mutant of MyTurn: awaits the first call only.
AnyTurn(c) == state[c] = "queued" /\ (c > 1 => state[1] = "released")

\* await predecessor: a failed operation releases as well.
MyTurn(c) == state[c] = "queued" /\ (c > 1 => state[c - 1] = "released")

Wanted(k, s) == CASE k = "sync" -> s \in Enabled
                  [] k = "scheduled sync" -> s \in Automatic
                  [] OTHER -> TRUE

\* Mutant of Run: what the preference says now is not looked at.
RunBlindly(c) ==
  /\ MyTurn(c)
  /\ state' = [state EXCEPT ![c] = "running"]
  /\ used' = [used EXCEPT ![c] = setting]
  /\ UNCHANGED <<tail, kind, setting>>

\* The operation starts, or a sync nobody wants any more returns at once.
Run(c) ==
  /\ MyTurn(c)
  /\ IF Wanted(kind[c], setting)
     THEN /\ state' = [state EXCEPT ![c] = "running"]
          /\ used' = [used EXCEPT ![c] = setting]
     ELSE /\ state' = [state EXCEPT ![c] = "released"]
          /\ UNCHANGED used
  /\ UNCHANGED <<tail, kind, setting>>

\* Mutant of Release: a restore leaves its promise open.
ReleaseUnlessRestore(c) ==
  /\ state[c] = "running" /\ kind[c] # "restore"
  /\ state' = [state EXCEPT ![c] = "released"]
  /\ UNCHANGED <<tail, kind, setting, used>>

\* It returns or throws: the finally block completes the promise.
Release(c) ==
  /\ state[c] = "running"
  /\ state' = [state EXCEPT ![c] = "released"]
  /\ UNCHANGED <<tail, kind, setting, used>>

\* The user changes the sync settings, whatever runs.
ChangeSetting ==
  /\ setting' \in Settings \ {setting}
  /\ UNCHANGED <<tail, kind, state, used>>

CallsNext ==
  \/ \E k \in Kinds : Call(k)
  \/ \E c \in Calls : Run(c) \/ Release(c)
  \/ ChangeSetting

\* Continuations run, and operations end: network calls time out, a
\* confirmation dialog is answered.
CallsFairness == \A c \in Calls : WF_callVars(Run(c)) /\ WF_callVars(Release(c))

CallsSpec == CallsInit /\ [][CallsNext]_callVars /\ CallsFairness

-----------------------------------------------------------------------------
(* Properties *)

\* No sync looks at the phase of a pending restore while a restore changes it,
\* and no two syncs commit at once (chimahon_restore_sync_coordinator.dart:5-7).
MutualExclusion ==
  \A c, d \in Calls : state[c] = "running" /\ state[d] = "running" => c = d

\* The chain holds back every later call until the earlier ones are over.
InOrder ==
  \A c, d \in Calls : c < d /\ state[d] \in {"running", "released"}
                        => state[c] = "released"

\* Whatever waits, there is a call that runs or whose turn it is: the calls do not
\* all wait for one another.
SomeoneMoves ==
  (\E c \in Calls : state[c] = "queued")
    => \E c \in Calls : state[c] = "running" \/ MyTurn(c)

\* A sync that waited works with the preference of the moment it starts: it
\* does not contact a backend chosen before, and a scheduled one does not run
\* after automatic sync was turned off (chimahon_queued_sync_gate.dart:6-10).
StartsAsWanted ==
  [][\A c \in Calls :
       state[c] # "running" /\ state'[c] = "running"
         => used'[c] = setting /\ Wanted(kind[c], setting)]_callVars

\* Every call gets its turn and ends, even behind calls that fail.
CallsEnd == \A c \in Calls : state[c] = "queued" ~> state[c] = "released"

=============================================================================
