----------------------------- MODULE DownloadGate -----------------------------
(***************************************************************************)
(* The gate every download passes before it does network work              *)
(* (src/lib/services/download_manager/download_gate.dart).  One singleton  *)
(* on the main isolate: each method runs to its end without interleaving,  *)
(* so acquire, release and the timer callback are one action each, and the *)
(* _dispatch they end with is part of them.                                *)
(***************************************************************************)
EXTENDS Integers, Sequences, FiniteSets, Functions

CONSTANTS Downloads,   \* download ids (equal to chapter ids)
          SourceOf,    \* chapterSourceKey; an unresolved source is one of its own
          Settings,    \* values the "concurrent downloads" setting may have
          Orders       \* orders the user may drag the queue into

ASSUME GateAssumption ==
  /\ IsFiniteSet(Downloads)
  /\ DOMAIN SourceOf = Downloads
  /\ Settings \subseteq Int
  /\ Orders \subseteq Seq(Downloads)
  \* an order never names a download twice: ids are the rows' primary key
  /\ \A order \in Orders : \A i, j \in DOMAIN order :
       order[i] = order[j] => i = j

VARIABLES waiters,        \* _waiters
          active,         \* _active
          activeSources,  \* _activeSources
          maxConcurrent,  \* _maxConcurrent
          launching,      \* granted, the start delay has not elapsed
          running,        \* completer completed, not released yet
          queueOrder      \* Settings.downloadQueueOrder

gateVars == <<waiters, active, activeSources, maxConcurrent, launching, running>>
vars == <<waiters, active, activeSources, maxConcurrent, launching, running,
          queueOrder>>

holders == launching \cup running

TypeOK ==
  /\ waiters \in Seq(Downloads)
  /\ active \in Nat
  /\ activeSources \subseteq Range(SourceOf)
  /\ maxConcurrent \in Nat \ {0}
  /\ launching \subseteq Downloads
  /\ running \subseteq Downloads
  /\ queueOrder \in Orders

Init ==
  /\ waiters = <<>>
  /\ active = 0
  /\ activeSources = {}
  /\ maxConcurrent = 1
  /\ launching = {}
  /\ running = {}
  /\ queueOrder \in Orders

-----------------------------------------------------------------------------

Place(seq, d) == CHOOSE i \in DOMAIN seq : seq[i] = d

\* _reorderWaiters' sort key: the place in the saved order; a download the
\* order does not name keeps its place in the line, behind all that it names.
Rank(line, d) ==
  IF d \in Range(queueOrder)
  THEN Place(queueOrder, d)
  ELSE Len(queueOrder) + Place(line, d)

Ahead(line, d, e) == Rank(line, d) < Rank(line, e)

\* Sequences of exactly the downloads S in the order the sort gives them.
LineUps(line, S) ==
  {s \in [1..Cardinality(S) -> S] :
     /\ Range(s) = S
     /\ \A i, j \in DOMAIN s : i < j => Ahead(line, s[i], s[j])}

\* Faulty: the scan stops at a waiter whose source is busy.
ScanHeadOnly(line, count, sources, G) ==
  \A d \in Range(line) :
    LET ahead == {e \in Range(line) : Ahead(line, e, d)} IN
    d \in G <=> /\ ahead \subseteq G
                /\ count + Cardinality(ahead) < maxConcurrent'
                /\ SourceOf[d] \notin sources
                /\ \A e \in ahead : SourceOf[e] # SourceOf[d]

\* Faulty: one slot too many.
ScanOffByOne(line, count, sources, G) ==
  \A d \in Range(line) :
    LET granted == {e \in G : Ahead(line, e, d)} IN
    d \in G <=> /\ count + Cardinality(granted) <= maxConcurrent'
                /\ SourceOf[d] \notin sources
                /\ \A e \in granted : SourceOf[e] # SourceOf[d]

\* The scan of _dispatch: a waiter is granted iff, when the scan reaches it,
\* a slot is still free and its source is idle.
Scan(line, count, sources, G) ==
  \A d \in Range(line) :
    LET granted == {e \in G : Ahead(line, e, d)} IN
    d \in G <=> /\ count + Cardinality(granted) < maxConcurrent'
                /\ SourceOf[d] \notin sources
                /\ \A e \in granted : SourceOf[e] # SourceOf[d]

\* _dispatch on the line, with count slots and sources in use.
Dispatch(line, count, sources) ==
  \/ /\ count >= maxConcurrent'
     /\ waiters' = line
     /\ active' = count
     /\ activeSources' = sources
     /\ UNCHANGED launching
  \/ /\ count < maxConcurrent'
     /\ \E G \in SUBSET Range(line) :
          /\ Scan(line, count, sources, G)
          /\ waiters' \in LineUps(line, Range(line) \ G)
          /\ active' = count + Cardinality(G)
          /\ activeSources' = sources \cup {SourceOf[d] : d \in G}
          /\ launching' = launching \cup G

\* acquire: a download asks once, scheduleDownload refuses a second attempt
\* for the same id while one is in the gate.
Acquire(d, setting) ==
  /\ d \notin Range(waiters) \cup holders
  /\ maxConcurrent' = IF setting < 1 THEN 1 ELSE setting
  /\ Dispatch(Append(waiters, d), active, activeSources)
  /\ UNCHANGED <<running, queueOrder>>

\* The start delay has elapsed and the waiter's completer completes.
Launch(d) ==
  /\ d \in launching
  /\ launching' = launching \ {d}
  /\ running' = running \cup {d}
  /\ UNCHANGED <<waiters, active, activeSources, maxConcurrent, queueOrder>>

\* Faulty: the slot is given back, nobody is woken.
ReleaseWithoutDispatch(d) ==
  /\ d \in running
  /\ running' = running \ {d}
  /\ active' = IF active > 0 THEN active - 1 ELSE active
  /\ activeSources' = activeSources \ {SourceOf[d]}
  /\ UNCHANGED <<waiters, maxConcurrent, launching, queueOrder>>

Release(d) ==
  /\ d \in running
  /\ running' = running \ {d}
  /\ UNCHANGED <<maxConcurrent, queueOrder>>
  /\ Dispatch(waiters,
              IF active > 0 THEN active - 1 ELSE active,
              activeSources \ {SourceOf[d]})

\* The user drags the queue (DownloadQueueOrder.setOrder); nothing is
\* dispatched until the next acquire or release reads the order again.
SetOrder(order) ==
  /\ order # queueOrder
  /\ queueOrder' = order
  /\ UNCHANGED gateVars

Next ==
  \/ \E d \in Downloads : \/ \E setting \in Settings : Acquire(d, setting)
                          \/ Launch(d)
                          \/ Release(d)
  \/ \E order \in Orders : SetOrder(order)

\* Timers fire and a download that owns a slot ends (its finally releases).
Fairness == \A d \in Downloads : WF_vars(Launch(d)) /\ WF_vars(Release(d))

Spec == Init /\ [][Next]_vars /\ Fairness

-----------------------------------------------------------------------------
(* Properties *)

\* The gate as its callers see it: who waits and who owns a slot.
Slots == INSTANCE DownloadSlots WITH
           waiting <- Range(waiters), holding <- holders, limit <- maxConcurrent

\* The queue, the counter, the source set and the start delay implement the
\* promise of DownloadSlots: every acquire and release of the code is one
\* request or finish there, a timer or a drag is none.
ImplementsSlots == Slots!Spec

\* The counter and the source set agree with the downloads that own a slot:
\* no acquire, release or reorder leaks a slot or a source, which would
\* throttle every later download until the app restarts.
SlotsAccounted ==
  /\ active = Cardinality(holders)
  /\ activeSources = {SourceOf[d] : d \in holders}
  /\ launching \cap running = {}

\* A source never has two downloads past the gate (#645).
SourceIsSerial ==
  \A d, e \in holders : SourceOf[d] = SourceOf[e] => d = e

\* A download is at one place of the line, or past the gate, never both.
WaitsOnce ==
  /\ \A i, j \in DOMAIN waiters : waiters[i] = waiters[j] => i = j
  /\ Range(waiters) \cap holders = {}

\* No free slot is left unused: whoever waits is held back by the limit or by
\* a download of its own source.  There is no timer that dispatches again, so
\* a waiter wrongly passed over would wait for an unrelated release.
NoIdleSlot ==
  \A d \in Range(waiters) :
    active >= maxConcurrent \/ SourceOf[d] \in activeSources

\* A slot is handed out only below the limit in force.  The limit may drop
\* under the number of running downloads; then none starts until enough end.
GrantsBelowLimit ==
  [][launching' \ holders # {} => active' <= maxConcurrent']_vars

\* Slots go out in the user's order (#514): whoever is passed over for a
\* download ranked behind it has its source busy.
GrantsFollowOrder ==
  [][\A d \in launching' \ holders, e \in Range(waiters') :
       \A i, j \in DOMAIN queueOrder :
         queueOrder[i] = e /\ queueOrder[j] = d /\ i < j
           => \E f \in holders' : SourceOf[f] = SourceOf[e]]_vars

=============================================================================
