---------------------------- MODULE MCDownloadGate ----------------------------
(***************************************************************************)
(* DownloadGate on four downloads: two of one source, one of another, and  *)
(* one whose source cannot be resolved (a key of its own).                 *)
(*                                                                         *)
(* A user taps "download" finitely often: at most MaxRequests times.       *)
(* Without that bound two downloads of one source that are queued again    *)
(* for ever can keep a third one, ranked behind them, waiting for ever.    *)
(***************************************************************************)
EXTENDS DownloadGate, TLC

CONSTANTS d1, d2, d3, d4

MCDownloads == {d1, d2, d3, d4}
MCSourceOf == (d1 :> "mangadex") @@ (d2 :> "mangadex") @@ (d3 :> "comick")
                @@ (d4 :> "chapter-4")
MCSettings == {0, 2}
\* No order yet, an order that lists everything, and one saved before d1 and
\* d4 were queued.
MCOrders == {<<>>, <<d4, d2, d3, d1>>, <<d3, d2>>}

-----------------------------------------------------------------------------
CONSTANT MaxRequests
VARIABLE requests

RequestOnce(d, setting) ==
  /\ requests < MaxRequests
  /\ requests' = requests + 1
  /\ Acquire(d, setting)

LiveInit == Init /\ requests = 0
LiveNext ==
  \/ \E d \in Downloads : \E setting \in Settings : RequestOnce(d, setting)
  \/ /\ \/ \E d \in Downloads : Launch(d) \/ Release(d)
        \/ \E order \in Orders : SetOrder(order)
     /\ UNCHANGED requests

LiveSpec == LiveInit /\ [][LiveNext]_<<vars, requests>> /\ Fairness

\* Every download that waits in the gate is started: no wake-up is lost when
\* slots and sources free up in whatever order the downloads end, however
\* the limit is changed and the queue is dragged meanwhile.
WaiterStarts ==
  \A d \in Downloads : d \in Range(waiters) ~> d \in running

=============================================================================
