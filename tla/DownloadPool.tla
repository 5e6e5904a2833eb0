----------------------------- MODULE DownloadPool -----------------------------
(***************************************************************************)
(* DownloadIsolatePool: a fixed set of worker isolates that execute file   *)
(* and HLS downloads (download_isolate_pool.dart).                         *)
(*                                                                         *)
(* A submission ends with one terminal message on a port of its own.  A    *)
(* cancelled task that runs is stopped by killing its isolate, which is    *)
(* then replaced.  What the main isolate does between two events is one    *)
(* action; progress messages and the content of downloads are left out.    *)
(***************************************************************************)
EXTENDS Integers, Sequences, FiniteSets, SequencesExt

CONSTANTS Tasks,      \* task ids: a chapter, or m3u8_ and a chapter
          Workers,    \* worker indices
          NoTask,
          MaxBroken,  \* bound: isolates that crash, start-ups that fail
          MaxSubmits  \* bound: submissions

ASSUME PoolAssumption ==
  /\ IsFiniteSet(Workers)
  /\ NoTask \notin Tasks
  /\ MaxBroken \in Nat /\ MaxSubmits \in Nat

VARIABLES pool,       \* "down", "starting" or "ready"
          flag,       \* downloadTaskCancellation
          client,     \* where the submission of a task is
          port,       \* terminal messages sent to a submitter, not delivered
          queue,      \* _taskQueue
          available,  \* _availableWorkers, a set in insertion order
          running,    \* the task each worker executes (_runningTasks)
          reply,      \* what a worker answered, not delivered yet
          dead,       \* isolates that exited while idle: nobody noticed
          respawning, \* workers whose replacement isolate starts
          lost,       \* workers whose replacement did not start
          broken, submits

vars == <<pool, flag, client, port, queue, available, running, reply, dead,
          respawning, lost, broken, submits>>

Messages == {"complete", "error"}

TypeOK ==
  /\ pool \in {"down", "starting", "ready"}
  /\ flag \in [Tasks -> {"absent", "active", "cancelled"}]
  /\ client \in [Tasks -> {"idle", "preparing", "listening", "settled"}]
  /\ port \in [Tasks -> Seq(Messages)]
  /\ queue \in Seq(Tasks)
  /\ available \in Seq(Workers)
  /\ running \in [Workers -> Tasks \cup {NoTask}]
  /\ reply \in [Workers -> Messages \cup {"none"}]
  /\ dead \subseteq Workers
  /\ respawning \subseteq Workers
  /\ lost \subseteq Workers
  /\ broken \in 0..MaxBroken
  /\ submits \in 0..MaxSubmits
  /\ \A t \in Tasks : flag[t] = "absent" <=> client[t] \in {"idle", "settled"}

Init ==
  /\ pool = "down"
  /\ flag = [t \in Tasks |-> "absent"]
  /\ client = [t \in Tasks |-> "idle"]
  /\ port = [t \in Tasks |-> <<>>]
  /\ queue = <<>>
  /\ available = <<>>
  /\ running = [w \in Workers |-> NoTask]
  /\ reply = [w \in Workers |-> "none"]
  /\ dead = {} /\ respawning = {} /\ lost = {}
  /\ broken = 0 /\ submits = 0

\* Submitters that waited for the pool continue before any other event.
Event == pool = "ready" => \A t \in Tasks : client[t] # "preparing"

-----------------------------------------------------------------------------
(* Handing out tasks *)

\* _processQueue: the tasks q, in order, to the free workers idle, in order;
\* r is who executes what already.
ProcessQueue(q, idle, r) ==
  LET n == IF Len(q) < Len(idle) THEN Len(q) ELSE Len(idle)
  IN  /\ queue' = SubSeq(q, n + 1, Len(q))
      /\ available' = SubSeq(idle, n + 1, Len(idle))
      /\ running' = [w \in Workers |->
           IF \E i \in 1..n : idle[i] = w
           THEN q[CHOOSE i \in 1..n : idle[i] = w] ELSE r[w]]

Send(t, m) == port' = [port EXCEPT ![t] = Append(@, m)]

Enqueue(t) == ProcessQueue(Append(queue, t), available, running)

-----------------------------------------------------------------------------
(* The pool starts *)

\* initialize: one attempt at a time, shared by whoever waits for it.
Initialize ==
  /\ pool = "down"
  /\ pool' = "starting"
  /\ UNCHANGED <<flag, client, port, queue, available, running, reply, dead,
                 respawning, lost, broken, submits>>

\* _initialize spawns every worker.
Initialized ==
  /\ pool = "starting"
  /\ pool' = "ready"
  /\ available' = SetToSeq(Workers)
  /\ UNCHANGED <<flag, client, port, queue, running, reply, dead, respawning,
                 lost, broken, submits>>

\* A worker cannot be spawned: those that were are disposed of, whoever waits
\* gets the exception, the next submission tries again.
InitializeFails ==
  /\ pool = "starting"
  /\ broken < MaxBroken
  /\ broken' = broken + 1
  /\ pool' = "down"
  /\ flag' = [t \in Tasks |-> IF client[t] = "preparing" THEN "absent" ELSE flag[t]]
  /\ client' = [t \in Tasks |->
                  IF client[t] = "preparing" THEN "settled" ELSE client[t]]
  /\ UNCHANGED <<port, queue, available, running, reply, dead, respawning, lost,
                 submits>>

-----------------------------------------------------------------------------
(* A task *)

\* submitFileDownload, submitM3u8Download on a pool that is not ready.
SubmitEarly(t) ==
  /\ client[t] = "idle" /\ pool # "ready"
  /\ submits < MaxSubmits
  /\ submits' = submits + 1
  /\ pool' = "starting"
  /\ flag' = [flag EXCEPT ![t] = "active"]
  /\ client' = [client EXCEPT ![t] = "preparing"]
  /\ UNCHANGED <<port, queue, available, running, reply, dead, respawning, lost,
                 broken>>

\* ... and on one that is: the task is queued at once.
Submit(t) ==
  /\ Event
  /\ client[t] = "idle" /\ pool = "ready"
  /\ submits < MaxSubmits
  /\ submits' = submits + 1
  /\ flag' = [flag EXCEPT ![t] = "active"]
  /\ client' = [client EXCEPT ![t] = "listening"]
  /\ Enqueue(t)
  /\ UNCHANGED <<pool, port, reply, dead, respawning, lost, broken>>

\* The rest of a submission that waited for the pool.
Proceed(t) ==
  /\ client[t] = "preparing" /\ pool = "ready"
  /\ \/ /\ flag[t] = "cancelled"
        /\ flag' = [flag EXCEPT ![t] = "absent"]
        /\ client' = [client EXCEPT ![t] = "settled"]
        /\ UNCHANGED <<queue, available, running>>
     \/ /\ flag[t] # "cancelled"
        /\ client' = [client EXCEPT ![t] = "listening"]
        /\ Enqueue(t)
        /\ UNCHANGED flag
  /\ UNCHANGED <<pool, port, reply, dead, respawning, lost, broken, submits>>

\* The isolate of w ends the task: the last pages are there, or an exception.
Answer(w) ==
  /\ running[w] # NoTask /\ w \notin dead /\ reply[w] = "none"
  /\ \E m \in Messages : reply' = [reply EXCEPT ![w] = m]
  /\ UNCHANGED <<pool, flag, client, port, queue, available, running, dead,
                 respawning, lost, broken, submits>>

\* The answer reaches the main isolate: it is passed on, the worker is free.
Forward(w) ==
  /\ Event
  /\ running[w] # NoTask /\ reply[w] # "none"
  /\ Send(running[w], reply[w])
  /\ reply' = [reply EXCEPT ![w] = "none"]
  /\ ProcessQueue(queue, Append(available, w), [running EXCEPT ![w] = NoTask])
  /\ UNCHANGED <<pool, flag, client, dead, respawning, lost, broken, submits>>

\* _cancelCurrent: the isolate is killed, its answer is dropped, the submitter
\* gets an error and a replacement is started.
Kill(w) ==
  /\ running' = [running EXCEPT ![w] = NoTask]
  /\ reply' = [reply EXCEPT ![w] = "none"]
  /\ dead' = dead \ {w}
  /\ respawning' = respawning \cup {w}

\* _taskQueue.removeWhere: a task is queued at most once.
Without(q, t) ==
  IF t \in Range(q) THEN RemoveAt(q, CHOOSE i \in DOMAIN q : q[i] = t) ELSE q

\* Mutant of CancelTask: only queued tasks are cancelled.
CancelQueuedTask(t) ==
  /\ flag' = [flag EXCEPT ![t] = IF @ = "absent" THEN @ ELSE "cancelled"]
  /\ queue' = Without(queue, t)
  /\ IF t \in Range(queue) THEN Send(t, "error") ELSE UNCHANGED port
  /\ UNCHANGED <<running, reply, dead, respawning>>

CancelTask(t) ==
  /\ flag' = [flag EXCEPT ![t] = IF @ = "absent" THEN @ ELSE "cancelled"]
  /\ queue' = Without(queue, t)
  /\ IF t \in Range(queue) \cup Range(running) THEN Send(t, "error")
                                               ELSE UNCHANGED port
  /\ \/ \E w \in Workers : running[w] = t /\ Kill(w)
     \/ t \notin Range(running) /\ UNCHANGED <<running, reply, dead, respawning>>

\* The user cancels.
Cancel(t) ==
  /\ Event
  /\ client[t] \in {"preparing", "listening"}
  /\ CancelTask(t)
  /\ UNCHANGED <<pool, client, available, lost, broken, submits>>

\* The terminal message reaches the submitter, who closes the port.
Deliver(t) ==
  /\ Event
  /\ client[t] = "listening" /\ port[t] # <<>>
  /\ flag' = [flag EXCEPT ![t] = "absent"]
  /\ client' = [client EXCEPT ![t] = "settled"]
  /\ port' = [port EXCEPT ![t] = <<>>]
  /\ UNCHANGED <<pool, queue, available, running, reply, dead, respawning, lost,
                 broken, submits>>

\* MDownloader.close, M3u8Downloader.close: called when the download ended, in
\* whatever way; the same chapter may be downloaded again.
Close(t) ==
  /\ Event
  /\ client[t] = "settled"
  /\ CancelTask(t)
  /\ client' = [client EXCEPT ![t] = "idle"]
  /\ UNCHANGED <<pool, available, lost, broken, submits>>

-----------------------------------------------------------------------------
(* Isolates come and go *)

\* Mutant of Crash: the exit frees the worker and tells nobody.
CrashSilently(w) ==
  /\ Event
  /\ pool = "ready" /\ w \notin respawning \cup lost \cup dead
  /\ broken < MaxBroken
  /\ broken' = broken + 1
  /\ running[w] # NoTask /\ reply[w] = "none" /\ Kill(w)
  /\ UNCHANGED <<pool, flag, client, port, queue, available, lost, submits>>

\* An isolate crashes.  In the middle of a task its exit cancels the task;
\* after it nobody notices, and the worker stays available.
Crash(w) ==
  /\ Event
  /\ pool = "ready" /\ w \notin respawning \cup lost \cup dead
  /\ broken < MaxBroken
  /\ broken' = broken + 1
  /\ \/ /\ running[w] # NoTask /\ reply[w] = "none"
        /\ Send(running[w], "error")
        /\ Kill(w)
     \/ /\ running[w] = NoTask \/ reply[w] # "none"
        /\ dead' = dead \cup {w}
        /\ UNCHANGED <<port, running, reply, respawning>>
  /\ UNCHANGED <<pool, flag, client, queue, available, lost, submits>>

Respawned(w) ==
  /\ Event
  /\ w \in respawning
  /\ respawning' = respawning \ {w}
  /\ ProcessQueue(queue, Append(available, w), running)
  /\ UNCHANGED <<pool, flag, client, port, reply, dead, lost, broken, submits>>

\* The replacement does not start within 30 seconds: the callback of executeTask
\* throws before it returns the worker.
RespawnFails(w) ==
  /\ Event
  /\ w \in respawning
  /\ broken < MaxBroken
  /\ broken' = broken + 1
  /\ respawning' = respawning \ {w}
  /\ lost' = lost \cup {w}
  /\ UNCHANGED <<pool, flag, client, port, queue, available, running, reply, dead,
                 submits>>

Next ==
  \/ Initialize \/ Initialized \/ InitializeFails
  \/ \E t \in Tasks : \/ SubmitEarly(t) \/ Submit(t) \/ Proceed(t) \/ Cancel(t)
                      \/ Deliver(t) \/ Close(t)
  \/ \E w \in Workers : \/ Answer(w) \/ Forward(w) \/ Crash(w) \/ Respawned(w)
                        \/ RespawnFails(w)

\* Messages are delivered, downloads time out and end, isolates start or fail
\* to within 30 seconds.
Fairness ==
  /\ WF_vars(Initialized \/ InitializeFails)
  /\ \A t \in Tasks : WF_vars(Proceed(t)) /\ WF_vars(Deliver(t))
  /\ \A w \in Workers : /\ WF_vars(Answer(w)) /\ WF_vars(Forward(w))
                        /\ WF_vars(Respawned(w) \/ RespawnFails(w))

Spec == Init /\ [][Next]_vars /\ Fairness

-----------------------------------------------------------------------------
(* Properties *)

\* Every worker of a started pool is free once, executing, being replaced or
\* known to be lost: none is used twice and none leaks, whatever is cancelled
\* and whichever isolate crashes (download_isolate_pool.dart:257-270).
WorkersAccounted ==
  pool = "ready" =>
    /\ \A i, j \in DOMAIN available : available[i] = available[j] => i = j
    /\ \A w \in Workers :
         Cardinality({k \in {"free", "busy", "respawning", "lost"} :
                        \/ k = "free" /\ w \in Range(available)
                        \/ k = "busy" /\ running[w] # NoTask
                        \/ k = "respawning" /\ w \in respawning
                        \/ k = "lost" /\ w \in lost}) = 1

Places(t) == Cardinality({i \in DOMAIN queue : queue[i] = t})
             + Cardinality({w \in Workers : running[w] = t}) + Len(port[t])

\* A submission that listens will get exactly one terminal message: its task
\* is queued once, or executed by one worker, or the message is under way.
\* No task is queued or handed to a worker for a submitter who is gone
\* (download_isolate_pool.dart:403-445).
OneAnswer ==
  \A t \in Tasks : Places(t) = IF client[t] = "listening" THEN 1 ELSE 0

\* A cancelled task is stopped at once, wherever the cancel found it.
CancelStops ==
  \A t \in Tasks : flag[t] = "cancelled" => t \notin Range(queue) \cup Range(running)

\* No task is queued while a worker is free.
NoIdleWorker == queue # <<>> => available = <<>>

\* A cancelled submission settles, even on a worker that died unnoticed: the
\* slot its chapter holds in the gate is given back
\* (download_isolate_pool.dart:412-413).
CancelSettles ==
  \A t \in Tasks : flag[t] = "cancelled" ~> flag[t] = "absent"

\* Every submission settles, unless no worker is left or its task went to a
\* worker whose isolate had exited while it was idle
\* (download_isolate_pool.dart:155-172).
TaskSettles ==
  \A t \in Tasks :
    client[t] = "listening" ~> \/ client[t] # "listening" \/ lost = Workers
                               \/ \E w \in dead : running[w] = t

=============================================================================
