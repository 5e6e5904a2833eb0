---------------------------- MODULE DownloadQueue ----------------------------
(***************************************************************************)
(* The life of download records: taps, cancels, queue sweeps and download  *)
(* attempts on the main isolate, all sharing the write queue of the        *)
(* database (download_provider.dart, download_repository.dart,             *)
(* db_write_queue.dart, download_gate.dart, chapter_extensions.dart).      *)
(*                                                                         *)
(* Reads are synchronous and see what is committed; writes are queued and  *)
(* commit later, in order.  What runs between two awaits is one action.    *)
(* Events (a tap, a timer, a network or worker answer) are delivered only  *)
(* when no continuation is ready.  A queue of synchronous transactions has *)
(* drained by then; it has not if an asynchronous write of another         *)
(* repository (manga_repository.dart:337, 359, 391) is at its head, which  *)
(* SlowWrites allows.                                                      *)
(***************************************************************************)
EXTENDS Integers, Sequences, FiniteSets, SequencesExt

CONSTANTS Chapters,    \* chapter ids, which are also record and download ids
          SourceOf,    \* the source of each chapter
          Novels,      \* the chapters fetched as one page of text
          Limit,       \* the concurrency setting
          SlowWrites,  \* another writer may hold the queue across events
          MaxRequests  \* bound: taps, cancels, sweeps and restarts together

ASSUME QueueAssumption ==
  /\ IsFiniteSet(Chapters)
  /\ Novels \subseteq Chapters
  /\ Limit \in Nat \ {0}
  /\ SlowWrites \in BOOLEAN
  /\ MaxRequests \in Nat

VARIABLES rec,      \* the committed Download row of each chapter
          ops,      \* dbWriteQueue: the writes not committed yet
          claims,   \* downloadChapter calls whose enqueue has committed
          attempt,  \* where the scheduled attempt of a chapter is
          sweep,    \* what processDownloads read as pending
          waiting, holding, limit,  \* the download gate
          asleep,   \* history: why a queued record has no attempt
          requests  \* taps, cancels, sweeps and restarts so far

gateVars == <<waiting, holding, limit>>
vars == <<rec, ops, claims, attempt, sweep, waiting, holding, limit, asleep,
          requests>>

\* The gate is used as DownloadSlots promises it; DownloadGate implements it.
Gate == INSTANCE DownloadSlots WITH Downloads <- Chapters

\* "queued": isStartDownload, "failed": not started, "done": isDownload.
Records == {"absent", "queued", "failed", "done"}

\* Between claim and unscheduleDownload a chapter is in scheduledDownloads.
Phases == {"none", "waiting", "network", "preparing", "transferring",
           "finalizing", "failing", "saving", "leaving"}

\* "enqueue" and "resume" are one write: enqueue, called by a tap or a sweep.
Write == [kind : {"enqueue", "resume", "progress", "complete", "fail", "delete"},
          chapter : Chapters]
Enqueues == {"enqueue", "resume"}

TypeOK ==
  /\ rec \in [Chapters -> Records]
  /\ ops \in Seq(Write)
  /\ claims \in [Chapters -> Nat]
  /\ attempt \in [Chapters -> Phases]
  /\ sweep \subseteq Chapters
  /\ waiting \subseteq Chapters /\ holding \subseteq Chapters
  /\ limit \in Nat \ {0}
  /\ asleep \in [Chapters -> {"no", "wifi", "empty", "restart"}]
  /\ requests \in 0..MaxRequests

Init ==
  /\ rec = [c \in Chapters |-> "absent"]
  /\ ops = <<>>
  /\ claims = [c \in Chapters |-> 0]
  /\ attempt = [c \in Chapters |-> "none"]
  /\ sweep = {}
  /\ Gate!Init
  /\ asleep = [c \in Chapters |-> "no"]
  /\ requests = 0

-----------------------------------------------------------------------------
(* The database and its write queue *)

Queue(kind, c) == ops' = Append(ops, [kind |-> kind, chapter |-> c])

\* isDownloadCancelled
Cancelled(c) == rec[c] = "absent"

\* _enqueueSync keeps completed and active entries.
\* Progress and completion are read-modify-write inside the transaction; the
\* failure mark puts the record markDownloadFailed read before it queued.
Committed(op, r) ==
  CASE op.kind \in Enqueues -> IF r \in {"queued", "done"} THEN r ELSE "queued"
    [] op.kind = "progress" -> IF r = "done" THEN "queued" ELSE r
    [] op.kind = "complete" -> IF r = "absent" THEN r ELSE "done"
    [] op.kind = "fail"     -> "failed"
    [] op.kind = "delete"   -> "absent"

\* The write at the head commits and the future of its caller completes.
Commit ==
  /\ ops # <<>>
  /\ LET op == Head(ops)
         c == op.chapter
     IN  /\ rec' = [rec EXCEPT ![c] = Committed(op, @)]
         /\ claims' = [claims EXCEPT ![c] =
                         IF op.kind \in Enqueues THEN @ + 1 ELSE @]
         /\ attempt' = [attempt EXCEPT ![c] =
                          IF op.kind = "fail" THEN "leaving" ELSE @]
         /\ asleep' = [asleep EXCEPT ![c] =
                         IF op.kind = "delete" THEN "no" ELSE @]
  /\ ops' = Tail(ops)
  /\ UNCHANGED <<sweep, gateVars, requests>>

\* Continuations run before any event; the write queue has drained by the
\* next event unless another writer holds it.
Event ==
  /\ \A c \in Chapters : claims[c] = 0 /\ attempt[c] \notin {"failing", "leaving"}
  /\ ops = <<>> \/ SlowWrites

-----------------------------------------------------------------------------
(* A download attempt: downloadChapter *)

Goto(c, phase) == attempt' = [attempt EXCEPT ![c] = phase]

AttemptStep(c, from, to) ==
  /\ attempt[c] = from
  /\ Goto(c, to)
  /\ UNCHANGED <<rec, claims, sweep, gateVars, requests>>

\* After enqueue: scheduleDownload refuses while an attempt is scheduled; a
\* chapter found downloaded is left alone; else the attempt enters the gate.
Claim(c) ==
  /\ claims[c] > 0
  /\ claims' = [claims EXCEPT ![c] = @ - 1]
  /\ \/ /\ attempt[c] # "none"
        /\ UNCHANGED <<attempt, gateVars, asleep>>
     \/ /\ attempt[c] = "none" /\ rec[c] = "done"
        /\ Goto(c, "leaving")
        /\ UNCHANGED <<gateVars, asleep>>
     \/ /\ attempt[c] = "none" /\ rec[c] # "done"
        /\ Goto(c, "waiting")
        /\ limit' = Limit
        /\ Gate!Request(c)
        /\ asleep' = [asleep EXCEPT ![c] = "no"]
  /\ UNCHANGED <<rec, ops, sweep, requests>>

\* The gate's future completes; a download cancelled meanwhile bails out.
Start(c) ==
  /\ Event
  /\ c \in holding
  /\ AttemptStep(c, "waiting", IF Cancelled(c) THEN "leaving" ELSE "network")
  /\ UNCHANGED <<ops, asleep>>

Connected(c) ==
  /\ Event
  /\ AttemptStep(c, "network", "preparing")
  /\ UNCHANGED <<ops, asleep>>

\* Downloads are limited to Wi-Fi: the record stays queued for a later sweep.
WifiRefused(c) ==
  /\ Event
  /\ AttemptStep(c, "network", "leaving")
  /\ asleep' = [asleep EXCEPT ![c] = "wifi"]
  /\ UNCHANGED ops

\* Pages or videos are resolved; a download cancelled meanwhile bails out.
Prepared(c) ==
  /\ Event
  /\ AttemptStep(c, "preparing", IF Cancelled(c) THEN "leaving" ELSE "transferring")
  /\ UNCHANGED <<ops, asleep>>

\* setProgress: the write is queued and not awaited.  Bound: one at a time.
EmitProgress(c) ==
  /\ Event
  /\ AttemptStep(c, "transferring", "transferring")
  /\ ~ \E i \in DOMAIN ops : ops[i] = [kind |-> "progress", chapter |-> c]
  /\ Queue("progress", c)
  /\ UNCHANGED asleep

\* The files are there.  A novel is marked complete at once; the others are
\* finalized (finalizeDownload) unless cancelled.
Transferred(c) ==
  /\ Event
  /\ \/ /\ c \in Novels
        /\ AttemptStep(c, "transferring", "leaving")
        /\ Queue("complete", c)
     \/ /\ c \notin Novels
        /\ AttemptStep(c, "transferring",
                       IF Cancelled(c) THEN "leaving" ELSE "finalizing")
        /\ UNCHANGED ops
  /\ UNCHANGED asleep

\* The extension answers with an empty page: nothing is written or marked.
EmptyNovel(c) ==
  /\ Event
  /\ c \in Novels
  /\ AttemptStep(c, "transferring", "leaving")
  /\ asleep' = [asleep EXCEPT ![c] = "empty"]
  /\ UNCHANGED ops

Finalized(c) ==
  /\ Event
  /\ AttemptStep(c, "finalizing", "leaving")
  /\ Queue("complete", c)
  /\ UNCHANGED asleep

\* An exception, the start deadline, or the answer of a cancelled worker.
Fails(c) ==
  /\ Event
  /\ \E from \in {"network", "preparing", "transferring", "finalizing"} :
       AttemptStep(c, from, "failing")
  /\ UNCHANGED <<ops, asleep>>

\* Mutant of MarkFailed: the failure is swallowed.
MarkFailedSilently(c) ==
  /\ AttemptStep(c, "failing", "leaving")
  /\ UNCHANGED <<ops, asleep>>

\* markDownloadFailed: reads the record, then queues the put of what it read.
MarkFailed(c) ==
  /\ \/ /\ rec[c] \in {"absent", "done"}
        /\ AttemptStep(c, "failing", "leaving")
        /\ UNCHANGED ops
     \/ /\ rec[c] \notin {"absent", "done"}
        /\ AttemptStep(c, "failing", "saving")
        /\ Queue("fail", c)
  /\ UNCHANGED asleep

\* Mutants of Leave: the slot is kept; the attempt stays scheduled.
LeaveWithSlot(c) ==
  /\ attempt[c] = "leaving"
  /\ Goto(c, "none")
  /\ UNCHANGED <<rec, ops, claims, sweep, gateVars, asleep, requests>>
LeaveScheduled(c) ==
  /\ attempt[c] = "leaving" /\ c \in holding
  /\ Gate!Finish(c)
  /\ UNCHANGED <<rec, ops, claims, attempt, sweep, asleep, requests>>

\* The finally block: releases the slot if one was acquired, unschedules.
Leave(c) ==
  /\ attempt[c] = "leaving"
  /\ Goto(c, "none")
  /\ IF c \in holding THEN Gate!Finish(c) ELSE UNCHANGED gateVars
  /\ UNCHANGED <<rec, ops, claims, sweep, asleep, requests>>

-----------------------------------------------------------------------------
(* The user and the app *)

Request ==
  /\ Event
  /\ requests < MaxRequests
  /\ requests' = requests + 1
  /\ UNCHANGED <<rec, claims, attempt, gateVars, asleep>>

\* downloadChapter starts with the enqueue.
Tap(c) == Request /\ Queue("enqueue", c) /\ UNCHANGED sweep

\* cancelDownloads: the worker is told (its answer is Fails), the row deleted.
Cancel(c) ==
  /\ rec[c] # "absent"
  /\ Request
  /\ Queue("delete", c)
  /\ UNCHANGED sweep

\* processDownloads: the query for pending records runs elsewhere ...
SweepRead ==
  /\ sweep = {}
  /\ Request
  /\ sweep' = {c \in Chapters : rec[c] = "queued"}
  /\ UNCHANGED ops

\* Mutant of SweepFire: what was read is started, cancelled meanwhile or not.
SweepFireStale ==
  /\ Event
  /\ sweep # {}
  /\ LET fired == {c \in sweep : attempt[c] = "none"}
     IN  ops' = ops \o [i \in 1..Cardinality(fired) |->
                          [kind |-> "resume", chapter |-> SetToSeq(fired)[i]]]
  /\ sweep' = {}
  /\ UNCHANGED <<rec, claims, attempt, gateVars, asleep, requests>>

\* ... and each that still has its chapter link and no attempt is started.
SweepFire ==
  /\ Event
  /\ sweep # {}
  /\ LET fired == {c \in sweep : rec[c] # "absent" /\ attempt[c] = "none"}
     IN  ops' = ops \o [i \in 1..Cardinality(fired) |->
                          [kind |-> "resume", chapter |-> SetToSeq(fired)[i]]]
  /\ sweep' = {}
  /\ UNCHANGED <<rec, claims, attempt, gateVars, asleep, requests>>

\* The app is killed and started again: only committed rows survive.
Restart ==
  /\ requests < MaxRequests
  /\ requests' = requests + 1
  /\ ops' = <<>>
  /\ claims' = [c \in Chapters |-> 0]
  /\ attempt' = [c \in Chapters |-> "none"]
  /\ sweep' = {}
  /\ waiting' = {} /\ holding' = {} /\ limit' = 1
  /\ asleep' = [c \in Chapters |-> "restart"]
  /\ UNCHANGED rec

System(c) ==
  \/ Claim(c) \/ Start(c) \/ Connected(c) \/ WifiRefused(c) \/ Prepared(c)
  \/ EmitProgress(c) \/ Transferred(c) \/ EmptyNovel(c) \/ Finalized(c)
  \/ Fails(c) \/ MarkFailed(c) \/ Leave(c)

Next ==
  \/ Commit \/ SweepRead \/ SweepFire \/ Restart
  \/ \E c \in Chapters : System(c) \/ Tap(c) \/ Cancel(c)

\* Continuations and commits happen; timers fire; connectivity, resolving a
\* source (45 s), a transfer and finalizing all end one way or another.
Ends(c) == Connected(c) \/ WifiRefused(c) \/ Prepared(c) \/ Transferred(c)
           \/ EmptyNovel(c) \/ Finalized(c) \/ Fails(c)

Fairness ==
  /\ WF_vars(Commit)
  /\ \A c \in Chapters :
       /\ WF_vars(Claim(c)) /\ WF_vars(MarkFailed(c)) /\ WF_vars(Leave(c))
       /\ WF_vars(Start(c))
       /\ SF_vars(Ends(c))

Spec == Init /\ [][Next]_vars /\ Fairness

-----------------------------------------------------------------------------
(* Properties *)

\* The phases in which an attempt talks to its source.
Busy(c) == attempt[c] \in {"network", "preparing", "transferring", "finalizing",
                           "failing", "saving"}

\* The gate is told the truth: whoever waits there or owns a slot there is an
\* attempt that is still alive, and whoever works owns a slot.  Otherwise a
\* slot leaks and downloads stop, or the limit is exceeded
\* (download_provider.dart:704).
SlotsMatchAttempts ==
  /\ \A c \in waiting \cup holding : attempt[c] # "none"
  /\ \A c \in waiting : attempt[c] = "waiting"
  /\ \A c \in Chapters : Busy(c) => c \in holding

\* However downloads were started - taps, sweeps, again after a failure - two
\* chapters of one source are never fetched at once
\* (download_provider.dart:87-89).
SourceFetchesAreSerial ==
  \A c, d \in Chapters :
    c # d /\ SourceOf[c] = SourceOf[d] => ~ (Busy(c) /\ Busy(d))

\* An attempt, a request or a completion is still on its way to the record.
Pending(c) ==
  \/ attempt[c] # "none" \/ claims[c] > 0
  \/ \E i \in DOMAIN ops : ops[i].chapter = c
                         /\ ops[i].kind \in Enqueues \cup {"complete"}

\* A queued record with nobody working on it, nor about to, waits for the
\* next sweep for a known reason; none is forgotten because a request found
\* an attempt that was about to leave (scheduleDownload returning false).
NoForgottenDownload ==
  \A c \in Chapters : rec[c] = "queued" /\ ~ Pending(c) => asleep[c] # "no"

\* A completed download stays completed until it is deleted: neither another
\* tap, nor a late progress write, nor a failure mark takes it back.
CompletedSticks ==
  [][\A c \in Chapters : rec[c] = "done" => rec'[c] \in {"done", "absent"}]_vars

\* A cancelled download does not reappear by itself: only a new tap creates
\* its record again, never a progress, completion or failure write of the
\* attempt that was cancelled, nor a sweep that read the queue before.
CancelledStaysGone ==
  [][\A c \in Chapters :
       rec[c] = "absent" /\ rec'[c] # "absent" => Head(ops).kind = "enqueue"]_vars

\* Every attempt ends and gives its slot back, whatever fails or is cancelled.
AttemptsEnd == \A c \in Chapters : attempt[c] # "none" ~> attempt[c] = "none"

\* The failure mark of an attempt does not bring a cancelled record back
\* (download_gate.dart:65-68, "bail instead of resurrecting it").
FailureKeepsCancelled ==
  [][\A c \in Chapters :
       rec[c] = "absent" /\ rec'[c] # "absent" => Head(ops).kind # "fail"]_vars

=============================================================================
