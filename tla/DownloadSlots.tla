---------------------------- MODULE DownloadSlots ----------------------------
(***************************************************************************)
(* What the download gate promises to its callers, without its queue, its  *)
(* counters or its start delay (src/lib/services/download_manager/         *)
(* download_gate.dart:96-101): a download holds at most one slot, a source *)
(* is strictly serial, a slot is only handed out below the limit, and no   *)
(* slot is left idle while a download that could use it waits.             *)
(***************************************************************************)
EXTENDS Integers, FiniteSets

CONSTANTS Downloads,   \* chapter ids, which are also download ids
          SourceOf     \* the source each download belongs to

VARIABLES waiting,     \* downloads that asked for a slot
          holding,     \* downloads that own a slot
          limit        \* the concurrency limit last asked for

vars == <<waiting, holding, limit>>

Init == waiting = {} /\ holding = {} /\ limit = 1

SourcesOf(S) == {SourceOf[d] : d \in S}

Serial(S) == \A d, e \in S : SourceOf[d] = SourceOf[e] => d = e

\* Hand out slots to a part G of the downloads W that want one while H holds:
\* sources stay serial, the limit bounds every hand-out, nobody who could be
\* served is left behind.
Serve(W, H, l) ==
  \E G \in SUBSET W :
    /\ Serial(H \cup G)
    /\ G # {} => Cardinality(H \cup G) <= l
    /\ \A d \in W \ G : \/ Cardinality(H \cup G) >= l
                        \/ SourceOf[d] \in SourcesOf(H \cup G)
    /\ holding' = H \cup G
    /\ waiting' = W \ G

Request(d) ==
  /\ d \notin waiting \cup holding
  /\ limit' \in Nat \ {0}
  /\ Serve(waiting \cup {d}, holding, limit')

Finish(d) ==
  /\ d \in holding
  /\ Serve(waiting, holding \ {d}, limit)
  /\ UNCHANGED limit

Next == \E d \in Downloads : Request(d) \/ Finish(d)

Spec == Init /\ [][Next]_vars

=============================================================================
