------------------------- MODULE DownloadQueueProofs -------------------------
(***************************************************************************)
(* For any chapters, sources and limit: the gate knows every attempt, a    *)
(* source is fetched serially, and, when the write queue drains before     *)
(* each event, no download is forgotten and no cancelled record comes      *)
(* back.                                                                   *)
(***************************************************************************)
EXTENDS DownloadQueue, FiniteSetTheorems, TLAPS

IsOp(i, kinds, c) == ops[i].kind \in kinds /\ ops[i].chapter = c

\* The failure marks that are not committed yet: one for each attempt that
\* waits for it.
FailsWait ==
  \A i \in 1..Len(ops) : ops[i].kind = "fail" =>
    /\ attempt[ops[i].chapter] = "saving"
    /\ \A j \in 1..Len(ops) : IsOp(j, {"fail"}, ops[i].chapter) => i = j

\* The gate and the attempts, whoever holds the write queue.
SlotInv ==
  /\ TypeOK /\ SlotsMatchAttempts
  /\ waiting \cap holding = {}
  /\ Gate!Serial(holding)
  /\ FailsWait

\* A progress write, a completion or a delete is alone in the write queue, and
\* nothing that runs before the next event adds to it.
AloneInQueue ==
  \A i \in 1..Len(ops) : ops[i].kind \in {"progress", "complete", "delete"} =>
    Len(ops) = 1 /\ \A c \in Chapters : claims[c] = 0 /\ attempt[c] # "failing"

\* What the writes in the queue still find.
WritesFind ==
  \A i \in 1..Len(ops) :
    LET c == ops[i].chapter
    IN  /\ ops[i].kind = "resume" => rec[c] # "absent"
        /\ ops[i].kind = "fail" => rec[c] \notin {"absent", "done"}
        /\ ops[i].kind = "progress" => attempt[c] = "transferring"
        /\ ops[i].kind = "complete" => attempt[c] \in {"none", "leaving"}

\* A chapter is enqueued once at a time.
OneEnqueue ==
  /\ \A c \in Chapters : claims[c] \in {0, 1}
  /\ \A i \in 1..Len(ops) : ops[i].kind \in Enqueues =>
       /\ claims[ops[i].chapter] = 0
       /\ \A j \in 1..Len(ops) : IsOp(j, Enqueues, ops[i].chapter) => i = j

\* An attempt that ends is not asked for again before it is gone.
EndsAlone ==
  \A c \in Chapters :
    /\ attempt[c] \in {"leaving", "failing", "saving"} =>
         claims[c] = 0 /\ ~ \E i \in 1..Len(ops) : IsOp(i, Enqueues, c)
    /\ attempt[c] = "saving" => \E i \in 1..Len(ops) : IsOp(i, {"fail"}, c)

\* Nothing is downloaded that is there already.
NoneTwice ==
  \A c \in Chapters :
    attempt[c] \in {"waiting", "network", "preparing", "transferring", "finalizing"} =>
      rec[c] # "done"

\* A queued record whose attempt is over is asked for again, about to be
\* complete, or asleep for a reason.
Remembered ==
  \A c \in Chapters : rec[c] = "queued" /\ attempt[c] \in {"none", "leaving"} =>
    \/ asleep[c] # "no" \/ claims[c] > 0
    \/ \E i \in 1..Len(ops) : IsOp(i, Enqueues \cup {"complete"}, c)

\* What holds between two events when the write queue drains before each.
QuietInv ==
  /\ AloneInQueue /\ WritesFind /\ OneEnqueue /\ EndsAlone /\ NoneTwice /\ Remembered

-----------------------------------------------------------------------------
(* The write queue *)

Kinds == {"enqueue", "resume", "progress", "complete", "fail", "delete"}

\* The operations of some kinds are those of before, n places further back.
KeepsOps(kinds, n) ==
  \A i \in 1..Len(ops') :
    ops'[i].kind \in kinds => i + n \in 1..Len(ops) /\ ops[i + n] = ops'[i]

\* An operation is added at the end.
LEMMA QueueAdds ==
  ASSUME TypeOK, NEW kind \in Kinds, NEW c \in Chapters, Queue(kind, c)
  PROVE  /\ ops' \in Seq(Write)
         /\ Len(ops) \in Nat /\ Len(ops') = Len(ops) + 1
         /\ \A i \in 1..Len(ops) : ops'[i] = ops[i]
         /\ ops'[Len(ops) + 1].kind = kind /\ ops'[Len(ops) + 1].chapter = c
         /\ KeepsOps(Kinds \ {kind}, 0)
<1> DEFINE o == [kind |-> kind, chapter |-> c]
<1>1. o \in Write /\ o.kind = kind /\ o.chapter = c
  BY DEF Write, Kinds
<1>2. ops \in Seq(Write) /\ ops' = Append(ops, o)
  BY DEF TypeOK, Queue
<1> HIDE DEF o
<1>3. /\ ops' \in Seq(Write) /\ Len(ops) \in Nat /\ Len(ops') = Len(ops) + 1
      /\ \A i \in 1..Len(ops) : ops'[i] = ops[i]
      /\ ops'[Len(ops) + 1] = o
  BY <1>1, <1>2
<1>4. KeepsOps(Kinds \ {kind}, 0)
  <2> SUFFICES ASSUME NEW i \in 1..Len(ops'), ops'[i].kind # kind
               PROVE  i + 0 \in 1..Len(ops) /\ ops[i + 0] = ops'[i]
    BY DEF KeepsOps
  <2>1. i # Len(ops) + 1
    BY <1>1, <1>3
  <2>2. i \in 1..Len(ops) /\ i + 0 = i
    BY <1>3, <2>1
  <2> QED BY <1>3, <2>2
<1> QED BY <1>1, <1>3, <1>4

\* The operation at the head goes.
LEMMA QueueRemoves ==
  ASSUME TypeOK, ops # <<>>, ops' = Tail(ops)
  PROVE  /\ ops' \in Seq(Write)
         /\ Len(ops) \in Nat \ {0} /\ Len(ops') = Len(ops) - 1
         /\ Head(ops) = ops[1] /\ ops[1] \in Write /\ 1 \in 1..Len(ops)
         /\ \A i \in 1..Len(ops') : i + 1 \in 1..Len(ops) /\ ops'[i] = ops[i + 1]
         /\ KeepsOps(Kinds, 1)
<1>1. ops \in Seq(Write)
  BY DEF TypeOK
<1>2. /\ ops' \in Seq(Write)
      /\ Len(ops) \in Nat \ {0} /\ Len(ops') = Len(ops) - 1
      /\ Head(ops) = ops[1] /\ ops[1] \in Write /\ 1 \in 1..Len(ops)
      /\ \A i \in 1..Len(ops') : ops'[i] = ops[i + 1]
  BY <1>1
<1>3. \A i \in 1..Len(ops') : i + 1 \in 1..Len(ops)
  BY <1>2
<1> QED BY <1>2, <1>3 DEF KeepsOps

\* A sequence of a finite set names each element once.
LEMMA SetToSeqOnce ==
  ASSUME NEW S, IsFiniteSet(S)
  PROVE  /\ Cardinality(S) \in Nat
         /\ SetToSeq(S) \in [1..Cardinality(S) -> S]
         /\ \A i, j \in 1..Cardinality(S) : SetToSeq(S)[i] = SetToSeq(S)[j] => i = j
<1> DEFINE n == Cardinality(S)
<1>1. n \in Nat /\ ExistsBijection(1..n, S)
  BY FS_CardinalityType
<1>2. \E f \in [1..n -> S] : IsInjective(f)
  BY <1>1 DEF ExistsBijection, Bijection, Injection, IsInjective
<1>3. SetToSeq(S) \in [1..n -> S] /\ IsInjective(SetToSeq(S))
  BY <1>2 DEF SetToSeq
<1> QED BY <1>1, <1>3 DEF IsInjective

\* One sequence after another.
LEMMA Concatenated ==
  ASSUME NEW S, NEW s \in Seq(S), NEW t \in Seq(S)
  PROVE  /\ s \o t \in Seq(S) /\ Len(s) \in Nat
         /\ Len(s \o t) = Len(s) + Len(t)
         /\ \A i \in 1..(Len(s) + Len(t)) :
              (s \o t)[i] = IF i <= Len(s) THEN s[i] ELSE t[i - Len(s)]
  OBVIOUS

\* What a sweep starts.
Fired == {c \in sweep : rec[c] # "absent" /\ attempt[c] = "none"}

\* A sweep adds requests for chapters that have a record and no attempt, one
\* for each.
LEMMA SweepAdds ==
  ASSUME QueueAssumption, TypeOK, SweepFire
  PROVE  /\ ops' \in Seq(Write)
         /\ KeepsOps(Kinds \ {"resume"}, 0)
         /\ Len(ops) \in Nat
         /\ \A i \in 1..Len(ops') :
              \/ i \in 1..Len(ops) /\ ops'[i] = ops[i]
              \/ ops'[i].kind = "resume" /\ ops'[i].chapter \in Fired
         /\ \A i, j \in 1..Len(ops') :
              ops = <<>> /\ ops'[i].chapter = ops'[j].chapter => i = j
<1> DEFINE n == Cardinality(Fired)
           f == SetToSeq(Fired)
           s == [i \in 1..n |-> [kind |-> "resume", chapter |-> f[i]]]
<1>1. ops \in Seq(Write) /\ ops' = ops \o s /\ Fired \subseteq Chapters
  BY DEF TypeOK, SweepFire, Fired
<1>2. IsFiniteSet(Fired)
  BY <1>1, FS_Subset DEF QueueAssumption
<1>3. /\ n \in Nat /\ f \in [1..n -> Fired]
      /\ \A i, j \in 1..n : f[i] = f[j] => i = j
  BY <1>2, SetToSeqOnce
<1> HIDE DEF n, f
<1>4. /\ s \in Seq(Write) /\ Len(s) = n
      /\ \A i \in 1..n : s[i].kind = "resume" /\ s[i].chapter = f[i]
  <2>1. \A i \in 1..n : [kind |-> "resume", chapter |-> f[i]] \in Write
    BY <1>1, <1>3 DEF Write
  <2> QED BY <1>3, <2>1
<1> HIDE DEF s
<1>5. /\ ops' \in Seq(Write) /\ Len(ops) \in Nat /\ Len(ops') = Len(ops) + n
      /\ \A i \in 1..Len(ops) : ops'[i] = ops[i]
      /\ \A i \in 1..Len(ops') : i > Len(ops) => ops'[i] = s[i - Len(ops)]
  <2>1. /\ ops' \in Seq(Write) /\ Len(ops) \in Nat /\ Len(ops') = Len(ops) + n
    BY <1>1, <1>4, Concatenated
  <2>2. \A i \in 1..Len(ops') : ops'[i] = IF i <= Len(ops) THEN ops[i] ELSE s[i - Len(ops)]
    BY <1>1, <1>4, <2>1, Concatenated
  <2> QED BY <2>1, <2>2, <1>3
<1>6. ASSUME NEW i \in 1..Len(ops'), ~(i \in 1..Len(ops))
      PROVE  /\ ops'[i].kind = "resume" /\ i - Len(ops) \in 1..n
             /\ ops'[i].chapter = f[i - Len(ops)]
  <2>1. i > Len(ops) /\ i - Len(ops) \in 1..n
    BY <1>3, <1>5, <1>6
  <2> QED BY <1>4, <1>5, <2>1
<1>7. \A i \in 1..Len(ops') :
        \/ i \in 1..Len(ops) /\ ops'[i] = ops[i]
        \/ ops'[i].kind = "resume" /\ ops'[i].chapter \in Fired
  BY <1>3, <1>5, <1>6
<1>8. KeepsOps(Kinds \ {"resume"}, 0)
  <2> SUFFICES ASSUME NEW i \in 1..Len(ops'), ops'[i].kind # "resume"
               PROVE  i + 0 \in 1..Len(ops) /\ ops[i + 0] = ops'[i]
    BY DEF KeepsOps
  <2>1. i \in 1..Len(ops) /\ ops'[i] = ops[i] /\ i + 0 = i
    BY <1>7
  <2> QED BY <2>1
<1>9. ASSUME NEW i \in 1..Len(ops'), NEW j \in 1..Len(ops'),
             ops = <<>>, ops'[i].chapter = ops'[j].chapter
      PROVE  i = j
  <2>1. Len(ops) = 0
    BY <1>9
  <2>2. i \in 1..n /\ j \in 1..n /\ f[i] = f[j]
    <3>1. ~(i \in 1..Len(ops)) /\ ~(j \in 1..Len(ops)) /\ i - Len(ops) = i
          /\ j - Len(ops) = j
      BY <2>1
    <3> QED BY <3>1, <1>6, <1>9
  <2> QED BY <2>2, <1>3
<1> QED BY <1>5, <1>7, <1>8, <1>9

-----------------------------------------------------------------------------
(* The gate and the attempts *)

LEMMA FailsWaitKeeps ==
  ASSUME FailsWait, NEW n \in {0, 1}, KeepsOps({"fail"}, n),
         \A i \in 1..Len(ops') : ops'[i].kind = "fail" =>
           attempt'[ops'[i].chapter] = "saving"
  PROVE  FailsWait'
<1> SUFFICES ASSUME NEW i \in 1..Len(ops'), ops'[i].kind = "fail",
                    NEW j \in 1..Len(ops'), ops'[j].kind = "fail",
                    ops'[j].chapter = ops'[i].chapter
             PROVE  i = j
  BY DEF FailsWait, IsOp
<1>1. /\ i + n \in 1..Len(ops) /\ ops[i + n] = ops'[i]
      /\ j + n \in 1..Len(ops) /\ ops[j + n] = ops'[j]
  BY DEF KeepsOps
<1>2. i + n = j + n
  BY <1>1 DEF FailsWait, IsOp
<1> QED BY <1>2

\* An attempt moves on and keeps its slot.
LEMMA MoveKeepsSlots ==
  ASSUME SlotInv, NEW c \in Chapters, NEW from \in Phases, NEW to \in Phases,
         attempt[c] = from, Goto(c, to), from # "none", to # "none", to # "waiting",
         from = "waiting" => c \in holding, from # "leaving",
         UNCHANGED gateVars
  PROVE  SlotsMatchAttempts' /\ (waiting \cap holding = {})' /\ Gate!Serial(holding)'
<1>1. /\ TypeOK /\ SlotsMatchAttempts /\ waiting \cap holding = {}
      /\ Gate!Serial(holding)
  BY DEF SlotInv
<1>2. \A d \in Chapters : attempt'[d] = IF d = c THEN to ELSE attempt[d]
  BY <1>1 DEF Goto, TypeOK
<1>3. waiting' = waiting /\ holding' = holding
  BY DEF gateVars
<1>4. from \in Phases \ {"none", "waiting", "leaving"} => c \in holding
  BY <1>1 DEF SlotsMatchAttempts, Busy, Phases
<1>5. c \in holding /\ c \notin waiting
  BY <1>1, <1>4
<1>6. waiting \subseteq Chapters /\ holding \subseteq Chapters
  BY <1>1 DEF TypeOK
<1>7. SlotsMatchAttempts'
  <2>1. ASSUME NEW d \in waiting \cup holding PROVE attempt'[d] # "none"
    BY <1>1, <1>2, <1>6 DEF SlotsMatchAttempts
  <2>2. ASSUME NEW d \in waiting PROVE attempt'[d] = "waiting"
    BY <1>1, <1>2, <1>5, <1>6 DEF SlotsMatchAttempts
  <2>3. ASSUME NEW d \in Chapters, Busy(d)' PROVE d \in holding
    BY <1>1, <1>2, <1>5, <2>3 DEF SlotsMatchAttempts, Busy
  <2> QED BY <2>1, <2>2, <2>3, <1>3 DEF SlotsMatchAttempts
<1> QED BY <1>1, <1>3, <1>7

\* ... and no failure mark of it is queued, unless it waits for one.
LEMMA MoveKeepsFails ==
  ASSUME SlotInv, NEW c \in Chapters, NEW to \in Phases, attempt[c] # "saving",
         Goto(c, to), KeepsOps({"fail"}, 0)
  PROVE  FailsWait'
<1>1. TypeOK /\ FailsWait
  BY DEF SlotInv
<1>2. \A d \in Chapters : d # c => attempt'[d] = attempt[d]
  BY <1>1 DEF Goto, TypeOK
<1>3. ASSUME NEW i \in 1..Len(ops'), ops'[i].kind = "fail"
      PROVE  attempt'[ops'[i].chapter] = "saving"
  <2>1. i + 0 \in 1..Len(ops) /\ ops[i + 0] = ops'[i]
    BY <1>3 DEF KeepsOps
  <2> DEFINE k == i + 0
  <2>2. k \in 1..Len(ops) /\ ops[k].kind = "fail" /\ ops[k].chapter = ops'[i].chapter
    BY <2>1, <1>3
  <2> HIDE DEF k
  <2>3. ops[k] \in Write
    BY <1>1, <2>2 DEF TypeOK
  <2>4. ops[k].chapter \in Chapters /\ attempt[ops[k].chapter] = "saving"
    BY <1>1, <2>2, <2>3 DEF FailsWait, Write
  <2> QED BY <1>2, <2>2, <2>4
<1> QED BY <1>1, <1>3, FailsWaitKeeps

\* No operation of a kind is new where the queue is as before.
LEMMA SameOps ==
  ASSUME TypeOK, UNCHANGED ops, NEW kinds
  PROVE  KeepsOps(kinds, 0) /\ ops' \in Seq(Write)
<1>1. Len(ops) \in Nat /\ ops \in Seq(Write)
  BY DEF TypeOK
<1>2. \A i \in 1..Len(ops) : i + 0 = i
  BY <1>1
<1> QED BY <1>1, <1>2 DEF KeepsOps

\* An attempt moves on: the types, the slots and the failure marks.
LEMMA AttemptKeeps ==
  ASSUME SlotInv, NEW c \in Chapters, NEW from \in Phases, NEW to \in Phases,
         AttemptStep(c, from, to), to # "none", to # "waiting",
         from \notin {"none", "leaving", "saving"},
         from = "waiting" => c \in holding,
         \/ UNCHANGED ops
         \/ \E kind \in {"progress", "complete"} : Queue(kind, c),
         asleep' \in [Chapters -> {"no", "wifi", "empty", "restart"}]
  PROVE  SlotInv'
<1>1. TypeOK /\ FailsWait
  BY DEF SlotInv
<1>2. /\ attempt[c] = from /\ Goto(c, to)
      /\ UNCHANGED <<rec, claims, sweep, requests>> /\ UNCHANGED gateVars
  BY DEF AttemptStep
<1>3. SlotsMatchAttempts' /\ (waiting \cap holding = {})' /\ Gate!Serial(holding)'
  BY <1>2, MoveKeepsSlots
<1>4. KeepsOps({"fail"}, 0) /\ ops' \in Seq(Write)
  <2>1. CASE UNCHANGED ops
    BY <1>1, <2>1, SameOps
  <2>2. ASSUME NEW kind \in {"progress", "complete"}, Queue(kind, c)
        PROVE  KeepsOps({"fail"}, 0) /\ ops' \in Seq(Write)
    <3>1. kind \in Kinds /\ kind # "fail"
      BY DEF Kinds
    <3>2. KeepsOps(Kinds \ {kind}, 0) /\ ops' \in Seq(Write)
      BY <1>1, <2>2, <3>1, QueueAdds
    <3> QED BY <3>1, <3>2 DEF KeepsOps, Kinds
  <2> QED BY <2>1, <2>2
<1>5. FailsWait'
  BY <1>2, <1>4, MoveKeepsFails
<1>6. TypeOK'
  <2>1. attempt' \in [Chapters -> Phases]
    BY <1>1, <1>2 DEF TypeOK, Goto
  <2> QED BY <1>1, <1>2, <1>4, <2>1 DEF TypeOK, gateVars
<1> QED BY <1>3, <1>5, <1>6 DEF SlotInv

-----------------------------------------------------------------------------

LEMMA SlotInvInit == QueueAssumption /\ Init => SlotInv
<1> SUFFICES ASSUME QueueAssumption, Init PROVE SlotInv
  OBVIOUS
<1> USE DEF QueueAssumption
<1>1. waiting = {} /\ holding = {} /\ limit = 1
  BY DEF Init, Gate!Init
<1>2. TypeOK
  BY <1>1 DEF Init, TypeOK, Records, Phases
<1>3. SlotsMatchAttempts /\ Gate!Serial(holding)
  BY <1>1 DEF Init, SlotsMatchAttempts, Busy, Gate!Serial
<1>4. FailsWait
  BY DEF Init, FailsWait
<1> QED BY <1>1, <1>2, <1>3, <1>4 DEF SlotInv

\* The gate and the attempts stay as they are.
LEMMA OthersKeepSlots ==
  ASSUME SlotInv, UNCHANGED <<attempt, waiting, holding>>, KeepsOps({"fail"}, 0), TypeOK'
  PROVE  SlotInv'
<1>1. TypeOK /\ FailsWait
  BY DEF SlotInv
<1>2. FailsWait'
  <2>1. ASSUME NEW i \in 1..Len(ops'), ops'[i].kind = "fail"
        PROVE  attempt'[ops'[i].chapter] = "saving"
    <3> DEFINE k == i + 0
    <3>1. k \in 1..Len(ops) /\ ops[k] = ops'[i]
      BY <2>1 DEF KeepsOps
    <3> HIDE DEF k
    <3> QED BY <3>1, <2>1, <1>1 DEF FailsWait
  <2> QED BY <2>1, <1>1, FailsWaitKeeps
<1> QED BY <1>2 DEF SlotInv, SlotsMatchAttempts, Busy

\* A write commits: a failure mark ends its attempt, which waited for it.
LEMMA CommitKeepsSlots ==
  ASSUME SlotInv, Commit
  PROVE  SlotInv'
<1> DEFINE op == Head(ops)
           c == op.chapter
<1>1. TypeOK /\ SlotsMatchAttempts /\ FailsWait
  BY DEF SlotInv
<1>2. /\ ops # <<>> /\ ops' = Tail(ops)
      /\ rec' = [rec EXCEPT ![c] = Committed(op, @)]
      /\ claims' = [claims EXCEPT ![c] = IF op.kind \in Enqueues THEN @ + 1 ELSE @]
      /\ attempt' = [attempt EXCEPT ![c] = IF op.kind = "fail" THEN "leaving" ELSE @]
      /\ asleep' = [asleep EXCEPT ![c] = IF op.kind = "delete" THEN "no" ELSE @]
      /\ UNCHANGED <<sweep, waiting, holding, limit, requests>>
  BY DEF Commit, gateVars
<1>3. /\ ops' \in Seq(Write) /\ op \in Write /\ op = ops[1] /\ 1 \in 1..Len(ops)
      /\ \A i \in 1..Len(ops') : i + 1 \in 1..Len(ops) /\ ops'[i] = ops[i + 1]
      /\ KeepsOps(Kinds, 1) /\ Len(ops') \in Nat
  BY <1>1, <1>2, QueueRemoves
<1> HIDE DEF op
<1>4. c \in Chapters /\ op.kind \in Kinds
  BY <1>3 DEF Write, Kinds
<1> HIDE DEF c
<1>5. op.kind = "fail" => attempt[c] = "saving"
  BY <1>1, <1>3 DEF FailsWait, c
<1>6. /\ attempt' \in [Chapters -> Phases]
      /\ \A d \in Chapters : d # c => attempt'[d] = attempt[d]
      /\ attempt'[c] = IF op.kind = "fail" THEN "leaving" ELSE attempt[c]
  BY <1>1, <1>2, <1>4 DEF TypeOK, Phases
<1>7. TypeOK'
  <2>1. rec' \in [Chapters -> Records]
    <3>1. Committed(op, rec[c]) \in Records
      BY <1>1, <1>4 DEF Committed, Records, TypeOK, Kinds, Enqueues
    <3> QED BY <1>1, <1>2, <3>1 DEF TypeOK
  <2>2. claims' \in [Chapters -> Nat]
    BY <1>1, <1>2, <1>4 DEF TypeOK
  <2>3. asleep' \in [Chapters -> {"no", "wifi", "empty", "restart"}]
    BY <1>1, <1>2, <1>4 DEF TypeOK
  <2> QED BY <1>1, <1>2, <1>3, <1>6, <2>1, <2>2, <2>3 DEF TypeOK
<1>8. FailsWait'
  <2>1. ASSUME NEW i \in 1..Len(ops'), ops'[i].kind = "fail"
        PROVE  attempt'[ops'[i].chapter] = "saving"
    <3>1. /\ i + 1 \in 1..Len(ops) /\ ops[i + 1] = ops'[i] /\ i + 1 # 1
          /\ ops[i + 1] \in Write
      BY <1>3, <2>1, <1>1 DEF TypeOK
    <3> DEFINE k == i + 1
    <3>2. k \in 1..Len(ops) /\ k # 1 /\ ops[k] = ops'[i] /\ ops[k] \in Write
      BY <3>1
    <3> HIDE DEF k
    <3>3. ops[k].chapter \in Chapters /\ attempt[ops[k].chapter] = "saving"
      BY <3>2, <2>1, <1>1 DEF Write, FailsWait
    <3>4. ~(op.kind = "fail" /\ c = ops[k].chapter)
      BY <1>1, <1>3, <2>1, <3>2 DEF FailsWait, IsOp, c
    <3> QED BY <1>6, <3>2, <3>3, <3>4
  <2>2. KeepsOps({"fail"}, 1)
    BY <1>3 DEF KeepsOps, Kinds
  <2> QED BY <1>1, <2>1, <2>2, FailsWaitKeeps
<1>9. SlotsMatchAttempts'
  <2>1. waiting \subseteq Chapters /\ holding \subseteq Chapters
    BY <1>1 DEF TypeOK
  <2>2. \A d \in waiting \cup holding : attempt'[d] # "none"
    BY <1>1, <1>6, <2>1 DEF SlotsMatchAttempts
  <2>3. \A d \in waiting : attempt'[d] = "waiting"
    BY <1>1, <1>5, <1>6, <2>1 DEF SlotsMatchAttempts
  <2>4. \A d \in Chapters : Busy(d)' => d \in holding
    BY <1>1, <1>5, <1>6 DEF SlotsMatchAttempts, Busy
  <2> QED BY <1>2, <2>2, <2>3, <2>4 DEF SlotsMatchAttempts
<1> QED BY <1>2, <1>7, <1>8, <1>9 DEF SlotInv

\* After an enqueue: a new attempt is unknown to the gate until it asks.
LEMMA ClaimKeepsSlots ==
  ASSUME QueueAssumption, SlotInv, NEW c \in Chapters, Claim(c)
  PROVE  SlotInv'
<1> USE DEF QueueAssumption
<1>1. /\ TypeOK /\ SlotsMatchAttempts /\ FailsWait /\ waiting \cap holding = {}
      /\ Gate!Serial(holding)
  BY DEF SlotInv
<1>2. /\ claims[c] > 0 /\ claims' = [claims EXCEPT ![c] = @ - 1]
      /\ UNCHANGED <<rec, ops, sweep, requests>>
  BY DEF Claim
<1>3. claims' \in [Chapters -> Nat]
  BY <1>1, <1>2 DEF TypeOK
<1>4. KeepsOps({"fail"}, 0) /\ ops' \in Seq(Write)
  BY <1>1, <1>2, SameOps
<1>5. CASE attempt[c] # "none"
  <2>1. UNCHANGED <<attempt, waiting, holding, limit, asleep>>
    BY <1>5 DEF Claim, gateVars
  <2>2. TypeOK'
    BY <1>1, <1>2, <1>3, <2>1 DEF TypeOK
  <2> QED BY <2>1, <2>2, <1>4, OthersKeepSlots
<1>6. CASE attempt[c] = "none" /\ rec[c] = "done"
  <2>1. Goto(c, "leaving") /\ UNCHANGED <<waiting, holding, limit, asleep>>
    BY <1>6 DEF Claim, gateVars
  <2>2. /\ attempt' \in [Chapters -> Phases]
        /\ \A d \in Chapters : attempt'[d] = IF d = c THEN "leaving" ELSE attempt[d]
    BY <1>1, <2>1 DEF TypeOK, Goto, Phases
  <2>3. TypeOK'
    BY <1>1, <1>2, <1>3, <2>1, <2>2 DEF TypeOK
  <2>4. FailsWait'
    BY <1>4, <1>6, <2>1, MoveKeepsFails DEF Phases
  <2>5. SlotsMatchAttempts'
    <3>1. c \notin waiting \cup holding
      BY <1>1, <1>6 DEF SlotsMatchAttempts
    <3>2. waiting \subseteq Chapters /\ holding \subseteq Chapters
      BY <1>1 DEF TypeOK
    <3> QED BY <1>1, <2>1, <2>2, <3>1, <3>2 DEF SlotsMatchAttempts, Busy
  <2> QED BY <1>1, <2>1, <2>3, <2>4, <2>5 DEF SlotInv
<1>7. CASE attempt[c] = "none" /\ rec[c] # "done"
  <2>1. /\ Goto(c, "waiting") /\ limit' = Limit /\ Gate!Request(c)
        /\ asleep' = [asleep EXCEPT ![c] = "no"]
    BY <1>7 DEF Claim
  <2>2. /\ attempt' \in [Chapters -> Phases]
        /\ \A d \in Chapters : attempt'[d] = IF d = c THEN "waiting" ELSE attempt[d]
    BY <1>1, <2>1 DEF TypeOK, Goto, Phases
  <2>3. PICK G \in SUBSET (waiting \cup {c}) :
          /\ Gate!Serial(holding \cup G)
          /\ holding' = holding \cup G
          /\ waiting' = (waiting \cup {c}) \ G
    BY <2>1 DEF Gate!Request, Gate!Serve
  <2>4. c \notin waiting \cup holding
    BY <2>1 DEF Gate!Request
  <2>5. waiting \subseteq Chapters /\ holding \subseteq Chapters
    BY <1>1 DEF TypeOK
  <2>6. TypeOK'
    <3>1. asleep' \in [Chapters -> {"no", "wifi", "empty", "restart"}]
      BY <1>1, <2>1 DEF TypeOK
    <3> QED BY <1>1, <1>2, <1>3, <2>1, <2>2, <2>3, <3>1 DEF TypeOK
  <2>7. FailsWait'
    BY <1>4, <1>7, <2>1, MoveKeepsFails DEF Phases
  <2>8. SlotsMatchAttempts'
    <3>1. \A d \in waiting' \cup holding' : attempt'[d] # "none"
      BY <1>1, <2>2, <2>3, <2>5 DEF SlotsMatchAttempts
    <3>2. \A d \in waiting' : attempt'[d] = "waiting"
      BY <1>1, <2>2, <2>3, <2>5 DEF SlotsMatchAttempts
    <3>3. \A d \in Chapters : Busy(d)' => d \in holding'
      BY <1>1, <2>2, <2>3 DEF SlotsMatchAttempts, Busy
    <3> QED BY <3>1, <3>2, <3>3 DEF SlotsMatchAttempts
  <2>9. (waiting \cap holding = {})' /\ Gate!Serial(holding)'
    BY <1>1, <2>3, <2>4
  <2> QED BY <2>6, <2>7, <2>8, <2>9 DEF SlotInv
<1> QED BY <1>5, <1>6, <1>7

\* The finally block: the slot goes with the attempt.
LEMMA LeaveKeepsSlots ==
  ASSUME SlotInv, NEW c \in Chapters, Leave(c)
  PROVE  SlotInv'
<1>1. /\ TypeOK /\ SlotsMatchAttempts /\ FailsWait /\ waiting \cap holding = {}
      /\ Gate!Serial(holding)
  BY DEF SlotInv
<1>2. /\ attempt[c] = "leaving" /\ Goto(c, "none")
      /\ UNCHANGED <<rec, ops, claims, sweep, asleep, requests>>
  BY DEF Leave
<1>3. /\ attempt' \in [Chapters -> Phases]
      /\ \A d \in Chapters : attempt'[d] = IF d = c THEN "none" ELSE attempt[d]
  BY <1>1, <1>2 DEF TypeOK, Goto, Phases
<1>4. KeepsOps({"fail"}, 0) /\ ops' \in Seq(Write)
  BY <1>1, <1>2, SameOps
<1>5. FailsWait'
  BY <1>2, <1>4, MoveKeepsFails DEF Phases
<1>6. c \notin waiting
  BY <1>1, <1>2 DEF SlotsMatchAttempts
<1>7. waiting \subseteq Chapters /\ holding \subseteq Chapters
  BY <1>1 DEF TypeOK
<1>8. /\ waiting' \subseteq waiting /\ holding' \subseteq (holding \cup waiting)
      /\ c \notin waiting' \cup holding'
      /\ holding \ {c} \subseteq holding'
      /\ waiting' \cap holding' = {} /\ Gate!Serial(holding') /\ limit' = limit
  <2>1. CASE c \in holding
    <3>1. Gate!Finish(c)
      BY <1>2, <2>1 DEF Leave
    <3>2. PICK G \in SUBSET waiting :
            /\ Gate!Serial((holding \ {c}) \cup G)
            /\ holding' = (holding \ {c}) \cup G
            /\ waiting' = waiting \ G
      BY <3>1 DEF Gate!Finish, Gate!Serve
    <3>3. limit' = limit
      BY <3>1 DEF Gate!Finish
    <3> QED BY <1>1, <1>6, <3>2, <3>3
  <2>2. CASE c \notin holding
    <3>1. UNCHANGED <<waiting, holding, limit>>
      BY <2>2 DEF Leave, gateVars
    <3> QED BY <1>1, <1>6, <2>2, <3>1
  <2> QED BY <2>1, <2>2
<1>9. TypeOK'
  BY <1>1, <1>2, <1>3, <1>7, <1>8 DEF TypeOK
<1>10. SlotsMatchAttempts'
  <2>1. \A d \in waiting' \cup holding' : attempt'[d] # "none"
    BY <1>1, <1>3, <1>7, <1>8 DEF SlotsMatchAttempts
  <2>2. \A d \in waiting' : attempt'[d] = "waiting"
    BY <1>1, <1>3, <1>7, <1>8 DEF SlotsMatchAttempts
  <2>3. \A d \in Chapters : Busy(d)' => d \in holding'
    BY <1>1, <1>3, <1>8 DEF SlotsMatchAttempts, Busy
  <2> QED BY <2>1, <2>2, <2>3 DEF SlotsMatchAttempts
<1> QED BY <1>5, <1>8, <1>9, <1>10 DEF SlotInv

\* Every step of an attempt.
LEMMA SystemKeepsSlots ==
  ASSUME QueueAssumption, SlotInv, NEW c \in Chapters, System(c)
  PROVE  SlotInv'
<1>1. TypeOK /\ SlotsMatchAttempts
  BY DEF SlotInv
<1>2. asleep \in [Chapters -> {"no", "wifi", "empty", "restart"}]
  BY <1>1 DEF TypeOK
<1>3. CASE Claim(c)
  BY <1>3, ClaimKeepsSlots
<1>4. CASE Leave(c)
  BY <1>4, LeaveKeepsSlots
<1>5. CASE Start(c)
  <2>1. /\ c \in holding /\ UNCHANGED <<ops, asleep>>
        /\ AttemptStep(c, "waiting", "leaving") \/ AttemptStep(c, "waiting", "network")
    BY <1>5 DEF Start
  <2> QED BY <1>2, <2>1, AttemptKeeps DEF Phases
<1>6. CASE Connected(c)
  <2>1. AttemptStep(c, "network", "preparing") /\ UNCHANGED <<ops, asleep>>
    BY <1>6 DEF Connected
  <2> QED BY <1>2, <2>1, AttemptKeeps DEF Phases
<1>7. CASE WifiRefused(c)
  <2>1. /\ AttemptStep(c, "network", "leaving") /\ UNCHANGED ops
        /\ asleep' \in [Chapters -> {"no", "wifi", "empty", "restart"}]
    BY <1>2, <1>7 DEF WifiRefused
  <2> QED BY <2>1, AttemptKeeps DEF Phases
<1>8. CASE Prepared(c)
  <2>1. /\ UNCHANGED <<ops, asleep>>
        /\ AttemptStep(c, "preparing", "leaving") \/ AttemptStep(c, "preparing", "transferring")
    BY <1>8 DEF Prepared
  <2> QED BY <1>2, <2>1, AttemptKeeps DEF Phases
<1>9. CASE EmitProgress(c)
  <2>1. /\ AttemptStep(c, "transferring", "transferring")
        /\ Queue("progress", c) /\ UNCHANGED asleep
    BY <1>9 DEF EmitProgress
  <2> QED BY <1>2, <2>1, AttemptKeeps DEF Phases
<1>10. CASE Transferred(c)
  <2>1. UNCHANGED asleep
    BY <1>10 DEF Transferred
  <2>2. CASE AttemptStep(c, "transferring", "leaving") /\ Queue("complete", c)
    BY <1>2, <2>1, <2>2, AttemptKeeps DEF Phases
  <2>3. CASE /\ UNCHANGED ops
             /\ AttemptStep(c, "transferring", "leaving") \/ AttemptStep(c, "transferring", "finalizing")
    BY <1>2, <2>1, <2>3, AttemptKeeps DEF Phases
  <2> QED BY <1>10, <2>2, <2>3 DEF Transferred
<1>11. CASE EmptyNovel(c)
  <2>1. /\ AttemptStep(c, "transferring", "leaving") /\ UNCHANGED ops
        /\ asleep' \in [Chapters -> {"no", "wifi", "empty", "restart"}]
    BY <1>2, <1>11 DEF EmptyNovel
  <2> QED BY <2>1, AttemptKeeps DEF Phases
<1>12. CASE Finalized(c)
  <2>1. /\ AttemptStep(c, "finalizing", "leaving")
        /\ Queue("complete", c) /\ UNCHANGED asleep
    BY <1>12 DEF Finalized
  <2> QED BY <1>2, <2>1, AttemptKeeps DEF Phases
<1>13. CASE Fails(c)
  <2>1. PICK from \in {"network", "preparing", "transferring", "finalizing"} :
          AttemptStep(c, from, "failing")
    BY <1>13 DEF Fails
  <2>2. UNCHANGED <<ops, asleep>> /\ from \in Phases
    BY <1>13 DEF Fails, Phases
  <2> QED BY <1>2, <2>1, <2>2, AttemptKeeps DEF Phases
<1>14. CASE MarkFailed(c)
  <2>1. UNCHANGED asleep
    BY <1>14 DEF MarkFailed
  <2>2. CASE AttemptStep(c, "failing", "leaving") /\ UNCHANGED ops
    BY <1>2, <2>1, <2>2, AttemptKeeps DEF Phases
  <2>3. CASE AttemptStep(c, "failing", "saving") /\ Queue("fail", c)
    <3>1. /\ attempt[c] = "failing" /\ Goto(c, "saving")
          /\ UNCHANGED <<rec, claims, sweep, requests>> /\ UNCHANGED gateVars
      BY <2>3 DEF AttemptStep
    <3>2. SlotsMatchAttempts' /\ (waiting \cap holding = {})' /\ Gate!Serial(holding)'
      BY <3>1, MoveKeepsSlots DEF Phases
    <3>3. /\ ops' \in Seq(Write) /\ Len(ops) \in Nat /\ Len(ops') = Len(ops) + 1
          /\ \A i \in 1..Len(ops) : ops'[i] = ops[i]
          /\ ops'[Len(ops) + 1].kind = "fail" /\ ops'[Len(ops) + 1].chapter = c
      BY <1>1, <2>3, QueueAdds DEF Kinds
    <3>4. /\ attempt' \in [Chapters -> Phases]
          /\ \A d \in Chapters : attempt'[d] = IF d = c THEN "saving" ELSE attempt[d]
      BY <1>1, <3>1 DEF TypeOK, Goto, Phases
    <3>5. TypeOK'
      BY <1>1, <2>1, <3>1, <3>3, <3>4 DEF TypeOK, gateVars
    <3>6. FailsWait'
      <4>1. FailsWait
        BY DEF SlotInv
      <4>2. \A i \in 1..Len(ops) : ops[i].kind = "fail" =>
              /\ ops[i].chapter \in Chapters /\ ops[i].chapter # c
              /\ attempt[ops[i].chapter] = "saving"
        <5> SUFFICES ASSUME NEW i \in 1..Len(ops), ops[i].kind = "fail"
                     PROVE  /\ ops[i].chapter \in Chapters /\ ops[i].chapter # c
                            /\ attempt[ops[i].chapter] = "saving"
          OBVIOUS
        <5>1. ops[i] \in Write
          BY <1>1 DEF TypeOK
        <5> QED BY <3>1, <4>1, <5>1 DEF FailsWait, Write
      <4>3. 1..Len(ops') = 1..Len(ops) \cup {Len(ops) + 1}
        BY <3>3
      <4>4. ASSUME NEW i \in 1..Len(ops'), ops'[i].kind = "fail"
            PROVE  attempt'[ops'[i].chapter] = "saving"
        BY <3>3, <3>4, <4>2, <4>3, <4>4
      <4>5. ASSUME NEW i \in 1..Len(ops'), ops'[i].kind = "fail",
                   NEW j \in 1..Len(ops'), ops'[j].kind = "fail",
                   ops'[j].chapter = ops'[i].chapter
            PROVE  i = j
        <5>1. CASE i \in 1..Len(ops) /\ j \in 1..Len(ops)
          BY <3>3, <4>1, <4>5, <5>1 DEF FailsWait, IsOp
        <5>2. CASE ~(i \in 1..Len(ops) /\ j \in 1..Len(ops))
          BY <3>3, <4>2, <4>3, <4>5, <5>2
        <5> QED BY <5>1, <5>2
      <4> QED BY <4>4, <4>5 DEF FailsWait, IsOp
    <3> QED BY <3>2, <3>5, <3>6 DEF SlotInv
  <2> QED BY <1>14, <2>2, <2>3 DEF MarkFailed
<1> QED BY <1>3, <1>4, <1>5, <1>6, <1>7, <1>8, <1>9, <1>10, <1>11, <1>12, <1>13,
           <1>14 DEF System

\* Every step keeps the gate and the attempts together.
LEMMA SlotInvStep == QueueAssumption /\ SlotInv /\ [Next]_vars => SlotInv'
<1> SUFFICES ASSUME QueueAssumption, SlotInv, [Next]_vars PROVE SlotInv'
  OBVIOUS
<1>1. TypeOK
  BY DEF SlotInv
<1>2. CASE UNCHANGED vars
  <2>1. UNCHANGED <<rec, ops, claims, attempt, sweep, waiting, holding, limit, asleep,
                    requests>>
    BY <1>2 DEF vars, gateVars
  <2>2. TypeOK'
    BY <1>1, <2>1 DEF TypeOK
  <2> QED BY <1>1, <2>1, <2>2, SameOps, OthersKeepSlots
<1>3. CASE Commit
  BY <1>3, CommitKeepsSlots
<1>4. ASSUME Request, NEW kind \in Kinds \ {"fail"}, NEW c \in Chapters, Queue(kind, c),
             UNCHANGED sweep
      PROVE  SlotInv'
  <2>1. /\ requests < MaxRequests /\ requests' = requests + 1
        /\ UNCHANGED <<rec, claims, attempt, waiting, holding, limit, asleep>>
    BY <1>4 DEF Request, gateVars
  <2>2. ops' \in Seq(Write) /\ KeepsOps(Kinds \ {kind}, 0)
    BY <1>1, <1>4, QueueAdds
  <2>3. KeepsOps({"fail"}, 0)
    BY <2>2, <1>4 DEF KeepsOps, Kinds
  <2>4. TypeOK'
    BY <1>1, <1>4, <2>1, <2>2 DEF TypeOK, QueueAssumption
  <2> QED BY <2>1, <2>3, <2>4, OthersKeepSlots
<1>5. CASE SweepRead
  <2>1. /\ requests < MaxRequests /\ requests' = requests + 1
        /\ UNCHANGED <<rec, claims, attempt, waiting, holding, limit, asleep, ops>>
        /\ sweep' \subseteq Chapters
    BY <1>5 DEF SweepRead, Request, gateVars
  <2>2. TypeOK'
    BY <1>1, <2>1 DEF TypeOK, QueueAssumption
  <2> QED BY <1>1, <2>1, <2>2, SameOps, OthersKeepSlots
<1>6. CASE SweepFire
  <2>1. /\ UNCHANGED <<rec, claims, attempt, waiting, holding, limit, asleep, requests>>
        /\ sweep' = {}
    BY <1>6 DEF SweepFire, gateVars
  <2>2. ops' \in Seq(Write) /\ KeepsOps(Kinds \ {"resume"}, 0)
    BY <1>1, <1>6, SweepAdds
  <2>3. KeepsOps({"fail"}, 0)
    BY <2>2 DEF KeepsOps, Kinds
  <2>4. TypeOK'
    BY <1>1, <2>1, <2>2 DEF TypeOK
  <2> QED BY <2>1, <2>3, <2>4, OthersKeepSlots
<1>7. CASE Restart
  <2>1. /\ requests < MaxRequests /\ requests' = requests + 1
        /\ ops' = <<>> /\ claims' = [c \in Chapters |-> 0]
        /\ attempt' = [c \in Chapters |-> "none"] /\ sweep' = {}
        /\ waiting' = {} /\ holding' = {} /\ limit' = 1
        /\ asleep' = [c \in Chapters |-> "restart"] /\ rec' = rec
    BY <1>7 DEF Restart
  <2>2. TypeOK'
    BY <1>1, <2>1 DEF TypeOK, Phases, QueueAssumption
  <2>3. SlotsMatchAttempts' /\ (waiting \cap holding = {})' /\ Gate!Serial(holding)'
    BY <2>1 DEF SlotsMatchAttempts, Busy, Gate!Serial
  <2>4. FailsWait'
    BY <2>1 DEF FailsWait
  <2> QED BY <2>2, <2>3, <2>4 DEF SlotInv
<1>8. ASSUME NEW c \in Chapters, System(c) \/ Tap(c) \/ Cancel(c)
      PROVE  SlotInv'
  <2>1. CASE System(c)
    BY <2>1, SystemKeepsSlots
  <2>2. CASE Tap(c)
    BY <2>2, <1>4 DEF Tap, Kinds
  <2>3. CASE Cancel(c)
    BY <2>3, <1>4 DEF Cancel, Kinds
  <2> QED BY <1>8, <2>1, <2>2, <2>3
<1> QED BY <1>2, <1>3, <1>5, <1>6, <1>7, <1>8 DEF Next

\* Gate, attempts and failure marks fit together, for any number of chapters.
THEOREM SlotInvHolds == QueueAssumption => (Spec => []SlotInv)
<1> SUFFICES ASSUME QueueAssumption PROVE Spec => []SlotInv
  OBVIOUS
<1>1. Init => SlotInv
  BY SlotInvInit
<1>2. SlotInv /\ [Next]_vars => SlotInv'
  BY SlotInvStep
<1> QED BY <1>1, <1>2, PTL DEF Spec

\* The gate knows every attempt that waits for a slot or owns one, however the
\* write queue drains (download_provider.dart:704).
THEOREM QueueSlots == QueueAssumption => (Spec => []SlotsMatchAttempts)
<1>1. SlotInv => SlotsMatchAttempts
  BY DEF SlotInv
<1> QED BY <1>1, SlotInvHolds, PTL

\* Two chapters of one source are never fetched at once
\* (download_provider.dart:87-89).
THEOREM QueueSerial == QueueAssumption => (Spec => []SourceFetchesAreSerial)
<1>1. SlotInv => SourceFetchesAreSerial
  BY DEF SlotInv, SlotsMatchAttempts, SourceFetchesAreSerial, Gate!Serial
<1> QED BY <1>1, SlotInvHolds, PTL

-----------------------------------------------------------------------------
(* A write queue that drains before each event *)

\* At an event nothing is under way but attempts that talk to the network.
Quiet ==
  /\ ops = <<>>
  /\ \A c \in Chapters : claims[c] = 0 /\ attempt[c] \notin {"failing", "leaving", "saving"}

LEMMA EventIsQuiet ==
  ASSUME ~SlowWrites, QuietInv, Event
  PROVE  Quiet
<1>1. ops = <<>> /\ \A c \in Chapters : claims[c] = 0 /\ attempt[c] \notin {"failing", "leaving"}
  BY DEF Event
<1>2. \A c \in Chapters : attempt[c] # "saving"
  <2>1. 1..Len(ops) = {}
    BY <1>1
  <2> QED BY <2>1 DEF QuietInv, EndsAlone
<1> QED BY <1>1, <1>2 DEF Quiet

LEMMA QuietInvInit == Init => QuietInv
<1> SUFFICES ASSUME Init PROVE QuietInv
  OBVIOUS
<1>1. /\ 1..Len(ops) = {} /\ \A c \in Chapters : claims[c] = 0 /\ attempt[c] = "none"
      /\ \A c \in Chapters : rec[c] = "absent"
  BY DEF Init
<1> QED BY <1>1 DEF QuietInv, AloneInQueue, WritesFind, OneEnqueue, EndsAlone, NoneTwice,
                    Remembered

Active == {"waiting", "network", "preparing", "transferring", "finalizing"}

\* Between two events an attempt moves on and writes nothing.
LEMMA SilentMove ==
  ASSUME TypeOK, QuietInv, Quiet, NEW c \in Chapters, NEW from \in Active,
         NEW to \in Phases \ {"none", "saving"},
         AttemptStep(c, from, to), UNCHANGED ops,
         \A d \in Chapters : d # c => asleep'[d] = asleep[d],
         to = "leaving" => rec[c] # "queued" \/ asleep'[c] # "no"
  PROVE  QuietInv'
<1>1. /\ attempt[c] = from /\ rec' = rec /\ claims' = claims
      /\ \A d \in Chapters : attempt'[d] = IF d = c THEN to ELSE attempt[d]
  BY DEF AttemptStep, Goto, TypeOK
<1>2. /\ 1..Len(ops) = {} /\ 1..Len(ops') = {}
      /\ \A d \in Chapters : claims[d] = 0 /\ attempt[d] \notin {"failing", "leaving", "saving"}
  BY DEF Quiet
<1>3. AloneInQueue' /\ WritesFind' /\ OneEnqueue'
  BY <1>1, <1>2 DEF AloneInQueue, WritesFind, OneEnqueue
<1>4. EndsAlone'
  BY <1>1, <1>2 DEF EndsAlone
<1>5. NoneTwice'
  <2>1. \A d \in Chapters : attempt[d] \in Active => rec[d] # "done"
    BY DEF QuietInv, NoneTwice, Active
  <2> QED BY <1>1, <2>1 DEF NoneTwice, Active
<1>6. Remembered'
  <2>1. \A d \in Chapters : rec[d] = "queued" /\ attempt[d] \in {"none", "leaving"} => asleep[d] # "no"
    BY <1>2 DEF QuietInv, Remembered
  <2> QED BY <1>1, <1>2, <2>1 DEF Remembered
<1> QED BY <1>3, <1>4, <1>5, <1>6 DEF QuietInv

\* ... or queues a progress write or the completion.
LEMMA WritingMove ==
  ASSUME TypeOK, QuietInv, Quiet, NEW c \in Chapters, NEW from \in Active,
         NEW to \in Phases, NEW kind \in Kinds,
         \/ kind = "progress" /\ from = "transferring" /\ to = "transferring"
         \/ kind = "complete" /\ to = "leaving",
         AttemptStep(c, from, to), Queue(kind, c), UNCHANGED asleep
  PROVE  QuietInv'
<1>1. /\ attempt[c] = from /\ rec' = rec /\ claims' = claims
      /\ \A d \in Chapters : attempt'[d] = IF d = c THEN to ELSE attempt[d]
  BY DEF AttemptStep, Goto, TypeOK
<1>2. /\ Len(ops) = 0
      /\ \A d \in Chapters : claims[d] = 0 /\ attempt[d] \notin {"failing", "leaving", "saving"}
  BY DEF Quiet
<1>3. /\ Len(ops') = 1 /\ 1..Len(ops') = {1} /\ ops'[1].kind = kind /\ ops'[1].chapter = c
  <2>1. /\ Len(ops') = Len(ops) + 1
        /\ ops'[Len(ops) + 1].kind = kind /\ ops'[Len(ops) + 1].chapter = c
    BY QueueAdds
  <2>2. Len(ops) + 1 = 1
    BY <1>2
  <2> QED BY <2>1, <2>2
<1>4. AloneInQueue' /\ WritesFind'
  BY <1>1, <1>2, <1>3 DEF AloneInQueue, WritesFind
<1>5. OneEnqueue'
  BY <1>1, <1>2, <1>3 DEF OneEnqueue, Enqueues
<1>6. EndsAlone'
  BY <1>1, <1>2, <1>3 DEF EndsAlone, IsOp, Enqueues
<1>7. NoneTwice'
  <2>1. \A d \in Chapters : attempt[d] \in Active => rec[d] # "done"
    BY DEF QuietInv, NoneTwice, Active
  <2> QED BY <1>1, <2>1 DEF NoneTwice, Active
<1>8. Remembered'
  <2>1. \A d \in Chapters : rec[d] = "queued" /\ attempt[d] \in {"none", "leaving"} => asleep[d] # "no"
    <3>1. 1..Len(ops) = {}
      BY <1>2
    <3> QED BY <1>2, <3>1 DEF QuietInv, Remembered
  <2>2. kind = "complete" => IsOp(1, Enqueues \cup {"complete"}, c)'
    BY <1>3 DEF IsOp
  <2>3. ASSUME NEW d \in Chapters, rec'[d] = "queued", attempt'[d] \in {"none", "leaving"}
        PROVE  \/ asleep'[d] # "no" \/ claims'[d] > 0
               \/ \E i \in 1..Len(ops') : IsOp(i, Enqueues \cup {"complete"}, d)'
    <3>1. CASE d = c
      BY <3>1, <1>1, <1>3, <2>2, <2>3
    <3>2. CASE d # c
      BY <3>2, <1>1, <2>1, <2>3
    <3> QED BY <3>1, <3>2
  <2> QED BY <2>3 DEF Remembered, IsOp
<1> QED BY <1>4, <1>5, <1>6, <1>7, <1>8 DEF QuietInv

\* Requests are queued for chapters whose record is found.
LEMMA Requested ==
  ASSUME QuietInv, Quiet, UNCHANGED <<rec, claims, attempt, asleep>>,
         \A i \in 1..Len(ops') :
           /\ ops'[i].chapter \in Chapters
           /\ ops'[i].kind \in Enqueues \cup {"delete"}
           /\ ops'[i].kind = "resume" => rec[ops'[i].chapter] # "absent"
           /\ ops'[i].kind = "delete" => Len(ops') = 1,
         \A i, j \in 1..Len(ops') : ops'[i].chapter = ops'[j].chapter => i = j
  PROVE  QuietInv'
<1>1. /\ 1..Len(ops) = {}
      /\ \A d \in Chapters : claims[d] = 0 /\ attempt[d] \notin {"failing", "leaving", "saving"}
  BY DEF Quiet
<1>2. AloneInQueue'
  BY <1>1 DEF AloneInQueue, Enqueues
<1>3. WritesFind'
  BY DEF WritesFind, Enqueues
<1>4. OneEnqueue'
  BY <1>1 DEF OneEnqueue, IsOp
<1>5. EndsAlone'
  BY <1>1 DEF EndsAlone
<1>6. NoneTwice'
  BY DEF QuietInv, NoneTwice
<1>7. Remembered'
  BY <1>1 DEF QuietInv, Remembered
<1> QED BY <1>2, <1>3, <1>4, <1>5, <1>6, <1>7 DEF QuietInv

\* A write commits.
LEMMA CommitKeepsQuiet ==
  ASSUME SlotInv, QuietInv, Commit
  PROVE  QuietInv'
<1> DEFINE op == Head(ops)
           c == op.chapter
<1>1. /\ TypeOK /\ FailsWait
      /\ AloneInQueue /\ WritesFind /\ OneEnqueue /\ EndsAlone /\ NoneTwice /\ Remembered
  BY DEF SlotInv, QuietInv
<1>2. /\ ops # <<>> /\ ops' = Tail(ops)
      /\ rec' = [rec EXCEPT ![c] = Committed(op, @)]
      /\ claims' = [claims EXCEPT ![c] = IF op.kind \in Enqueues THEN @ + 1 ELSE @]
      /\ attempt' = [attempt EXCEPT ![c] = IF op.kind = "fail" THEN "leaving" ELSE @]
      /\ asleep' = [asleep EXCEPT ![c] = IF op.kind = "delete" THEN "no" ELSE @]
  BY DEF Commit
<1>3. /\ op \in Write /\ op = ops[1] /\ 1 \in 1..Len(ops)
      /\ Len(ops) \in Nat \ {0} /\ Len(ops') = Len(ops) - 1
      /\ \A i \in 1..Len(ops') : i + 1 \in 1..Len(ops) /\ ops'[i] = ops[i + 1]
  BY <1>1, <1>2, QueueRemoves
<1> HIDE DEF op
<1>4. c \in Chapters /\ op.kind \in Kinds /\ c = ops[1].chapter /\ op.kind = ops[1].kind
  BY <1>3 DEF Write, Kinds
<1> HIDE DEF c
<1>5. /\ rec'[c] = Committed(op, rec[c])
      /\ claims'[c] = IF op.kind \in Enqueues THEN claims[c] + 1 ELSE claims[c]
      /\ attempt'[c] = IF op.kind = "fail" THEN "leaving" ELSE attempt[c]
      /\ asleep'[c] = IF op.kind = "delete" THEN "no" ELSE asleep[c]
      /\ \A d \in Chapters : d # c => /\ rec'[d] = rec[d] /\ claims'[d] = claims[d]
                                      /\ attempt'[d] = attempt[d] /\ asleep'[d] = asleep[d]
  BY <1>1, <1>2, <1>4 DEF TypeOK
<1>6. ASSUME NEW i \in 1..Len(ops')
      PROVE  \E k \in 1..Len(ops) : /\ k # 1 /\ k = i + 1 /\ ops'[i] = ops[k]
                                    /\ ops[k].chapter \in Chapters /\ ops[k].kind \in Kinds
  <2>1. i + 1 \in 1..Len(ops) /\ ops'[i] = ops[i + 1] /\ i + 1 # 1
    BY <1>3
  <2> DEFINE k == i + 1
  <2>2. k \in 1..Len(ops) /\ ops'[i] = ops[k] /\ k # 1 /\ k = i + 1
    BY <2>1
  <2> HIDE DEF k
  <2>3. ops[k] \in Write
    BY <1>1, <2>2 DEF TypeOK
  <2> QED BY <2>2, <2>3 DEF Write, Kinds
<1>7. ASSUME NEW i \in 1..Len(ops')
      PROVE  /\ op.kind \in {"enqueue", "resume", "fail"}
             /\ ops'[i].kind \in {"enqueue", "resume", "fail"}
  <2>1. Len(ops) # 1
    BY <1>3
  <2> QED BY <1>1, <1>3, <1>4, <1>6, <2>1 DEF AloneInQueue, Kinds
<1>8. AloneInQueue'
  BY <1>7 DEF AloneInQueue
<1>9. WritesFind'
  <2> SUFFICES ASSUME NEW i \in 1..Len(ops')
               PROVE  /\ ops'[i].kind = "resume" => rec'[ops'[i].chapter] # "absent"
                      /\ ops'[i].kind = "fail" => rec'[ops'[i].chapter] \notin {"absent", "done"}
    BY <1>7 DEF WritesFind
  <2>1. PICK k \in 1..Len(ops) : /\ k # 1 /\ k = i + 1 /\ ops'[i] = ops[k]
                                 /\ ops[k].chapter \in Chapters /\ ops[k].kind \in Kinds
    BY <1>6
  <2>2. CASE ops[k].chapter # c
    BY <2>1, <2>2, <1>1, <1>5 DEF WritesFind
  <2>3. CASE ops[k].chapter = c
    <3>1. /\ ops[k].kind = "resume" => rec[c] # "absent"
          /\ ops[k].kind = "fail" => rec[c] \notin {"absent", "done"}
      BY <2>3, <1>1 DEF WritesFind
    <3>2. /\ op.kind \in {"enqueue", "resume", "fail"} /\ rec'[c] = Committed(op, rec[c])
      BY <1>5, <1>7
    <3>3. rec[c] \in Records
      BY <1>1, <1>4 DEF TypeOK
    <3> QED BY <2>1, <2>3, <3>1, <3>2, <3>3 DEF Committed, Enqueues, Records
  <2> QED BY <2>2, <2>3
<1>10. OneEnqueue'
  <2>1. ASSUME NEW d \in Chapters PROVE claims'[d] \in {0, 1}
    <3>1. CASE d = c /\ op.kind \in Enqueues
      <4>1. claims[c] = 0
        BY <3>1, <1>1, <1>3, <1>4 DEF OneEnqueue
      <4> QED BY <3>1, <4>1, <1>5
    <3>2. CASE ~(d = c /\ op.kind \in Enqueues)
      BY <3>2, <1>1, <1>5 DEF OneEnqueue
    <3> QED BY <3>1, <3>2
  <2>2. ASSUME NEW i \in 1..Len(ops'), ops'[i].kind \in Enqueues
        PROVE  /\ claims'[ops'[i].chapter] = 0
               /\ \A j \in 1..Len(ops') : IsOp(j, Enqueues, ops[i].chapter)' => i = j
    <3>1. PICK k \in 1..Len(ops) : /\ k # 1 /\ k = i + 1 /\ ops'[i] = ops[k]
                                   /\ ops[k].chapter \in Chapters /\ ops[k].kind \in Kinds
      BY <1>6
    <3>2. ~(op.kind \in Enqueues /\ ops[k].chapter = c)
      BY <2>2, <3>1, <1>1, <1>3, <1>4 DEF OneEnqueue, IsOp
    <3>3. claims[ops[k].chapter] = 0
      BY <2>2, <3>1, <1>1 DEF OneEnqueue
    <3>4. claims'[ops[k].chapter] = 0
      BY <3>1, <3>2, <3>3, <1>5
    <3>5. ASSUME NEW j \in 1..Len(ops'), IsOp(j, Enqueues, ops[i].chapter)'
          PROVE  i = j
      <4>1. PICK l \in 1..Len(ops) : /\ l # 1 /\ l = j + 1 /\ ops'[j] = ops[l]
                                     /\ ops[l].chapter \in Chapters /\ ops[l].kind \in Kinds
        BY <1>6
      <4>2. ops[k].kind \in Enqueues /\ IsOp(l, Enqueues, ops[k].chapter)
        BY <2>2, <3>1, <3>5, <4>1 DEF IsOp
      <4>3. k = l
        BY <3>1, <4>1, <4>2, <1>1 DEF OneEnqueue
      <4> QED BY <3>1, <4>1, <4>3
    <3> QED BY <3>1, <3>4, <3>5
  <2> QED BY <2>1, <2>2 DEF OneEnqueue, IsOp
<1>11. op.kind = "fail" => attempt[c] = "saving"
  BY <1>1, <1>3, <1>4 DEF FailsWait
<1>12. EndsAlone'
  <2> SUFFICES ASSUME NEW d \in Chapters
               PROVE  /\ attempt'[d] \in {"leaving", "failing", "saving"} =>
                           claims'[d] = 0 /\ ~ \E i \in 1..Len(ops') : IsOp(i, Enqueues, d)'
                      /\ attempt'[d] = "saving" => \E i \in 1..Len(ops') : IsOp(i, {"fail"}, d)'
    BY DEF EndsAlone, IsOp
  <2>1. ASSUME attempt'[d] \in {"leaving", "failing", "saving"}
        PROVE  claims'[d] = 0 /\ ~ \E i \in 1..Len(ops') : IsOp(i, Enqueues, d)'
    <3>1. attempt[d] \in {"leaving", "failing", "saving"}
      BY <2>1, <1>5, <1>11
    <3>2. claims[d] = 0 /\ ~ \E i \in 1..Len(ops) : IsOp(i, Enqueues, d)
      BY <3>1, <1>1 DEF EndsAlone
    <3>3. ~(d = c /\ op.kind \in Enqueues)
      BY <3>2, <1>3, <1>4 DEF IsOp
    <3>4. claims'[d] = 0
      BY <3>2, <3>3, <1>5
    <3> QED BY <3>2, <3>4, <1>6 DEF IsOp
  <2>2. ASSUME attempt'[d] = "saving" PROVE \E i \in 1..Len(ops') : IsOp(i, {"fail"}, d)'
    <3>1. attempt[d] = "saving" /\ ~(d = c /\ op.kind = "fail")
      BY <2>2, <1>5
    <3>2. PICK k \in 1..Len(ops) : IsOp(k, {"fail"}, d)
      BY <3>1, <1>1 DEF EndsAlone
    <3>3. k # 1
      BY <3>1, <3>2, <1>4 DEF IsOp
    <3> DEFINE i == k - 1
    <3>4. i \in 1..Len(ops') /\ i + 1 = k
      BY <3>3, <1>3
    <3> HIDE DEF i
    <3>5. ops'[i] = ops[k]
      BY <3>4, <1>3
    <3> QED BY <3>2, <3>4, <3>5 DEF IsOp
  <2> QED BY <2>1, <2>2
<1>13. NoneTwice'
  <2> SUFFICES ASSUME NEW d \in Chapters, attempt'[d] \in Active
               PROVE  rec'[d] # "done"
    BY DEF NoneTwice, Active
  <2>1. attempt[d] = attempt'[d] /\ rec[d] # "done"
    BY <1>1, <1>5 DEF NoneTwice, Active
  <2>2. CASE d # c
    BY <2>1, <2>2, <1>5
  <2>3. CASE d = c
    <3>1. op.kind # "complete"
      BY <2>1, <2>3, <1>1, <1>3, <1>4 DEF WritesFind, Active
    <3> QED BY <2>1, <2>3, <3>1, <1>4, <1>5 DEF Committed, Enqueues, Kinds
  <2> QED BY <2>2, <2>3
<1>14. Remembered'
  <2> SUFFICES ASSUME NEW d \in Chapters, rec'[d] = "queued",
                      attempt'[d] \in {"none", "leaving"}
               PROVE  \/ asleep'[d] # "no" \/ claims'[d] > 0
                      \/ \E i \in 1..Len(ops') : IsOp(i, Enqueues \cup {"complete"}, d)'
    BY DEF Remembered, IsOp
  <2>1. CASE d # c
    <3>1. \/ asleep[d] # "no" \/ claims[d] > 0
          \/ \E k \in 1..Len(ops) : IsOp(k, Enqueues \cup {"complete"}, d)
      BY <2>1, <1>1, <1>5 DEF Remembered
    <3>2. CASE asleep[d] # "no" \/ claims[d] > 0
      BY <2>1, <3>2, <1>5
    <3>3. ASSUME NEW k \in 1..Len(ops), IsOp(k, Enqueues \cup {"complete"}, d)
          PROVE  \E i \in 1..Len(ops') : IsOp(i, Enqueues \cup {"complete"}, d)'
      <4>1. k # 1
        BY <2>1, <3>3, <1>4 DEF IsOp
      <4> DEFINE i == k - 1
      <4>2. i \in 1..Len(ops') /\ i + 1 = k
        BY <4>1, <1>3
      <4> HIDE DEF i
      <4>3. ops'[i] = ops[k]
        BY <4>2, <1>3
      <4> QED BY <3>3, <4>2, <4>3 DEF IsOp
    <3> QED BY <3>1, <3>2, <3>3
  <2>2. CASE d = c
    <3>1. CASE op.kind \in Enqueues
      <4>1. claims[c] \in Nat
        BY <1>1, <1>4 DEF TypeOK
      <4> QED BY <2>2, <3>1, <4>1, <1>5
    <3>2. CASE op.kind = "progress"
      BY <2>2, <3>2, <1>1, <1>3, <1>4, <1>5 DEF WritesFind
    <3>3. CASE op.kind \in {"complete", "fail", "delete"}
      BY <2>2, <3>3, <1>5 DEF Committed, Enqueues
    <3> QED BY <3>1, <3>2, <3>3, <1>4 DEF Kinds, Enqueues
  <2> QED BY <2>1, <2>2
<1> QED BY <1>8, <1>9, <1>10, <1>12, <1>13, <1>14 DEF QuietInv

\* After an enqueue.
LEMMA ClaimKeepsQuiet ==
  ASSUME TypeOK, QuietInv, NEW c \in Chapters, Claim(c)
  PROVE  QuietInv'
<1>1. AloneInQueue /\ WritesFind /\ OneEnqueue /\ EndsAlone /\ NoneTwice /\ Remembered
  BY DEF QuietInv
<1>2. claims[c] > 0 /\ rec' = rec /\ ops' = ops
  BY DEF Claim
<1>3. claims[c] = 1 /\ \A d \in Chapters : claims'[d] = IF d = c THEN 0 ELSE claims[d]
  BY <1>1, <1>2 DEF Claim, OneEnqueue, TypeOK
<1>4. /\ \A i \in 1..Len(ops) : ops[i].kind \notin {"progress", "complete", "delete"}
      /\ \A i \in 1..Len(ops) : ~IsOp(i, Enqueues, c)
  BY <1>1, <1>3 DEF AloneInQueue, OneEnqueue, IsOp
<1>5. /\ \A d \in Chapters : d # c => attempt'[d] = attempt[d] /\ asleep'[d] = asleep[d]
      /\ \/ attempt[c] # "none" /\ attempt'[c] = attempt[c]
         \/ attempt[c] = "none" /\ rec[c] = "done" /\ attempt'[c] = "leaving"
         \/ attempt[c] = "none" /\ rec[c] # "done" /\ attempt'[c] = "waiting"
  BY DEF Claim, Goto, TypeOK
<1>6. attempt[c] \notin {"leaving", "failing", "saving"}
  BY <1>1, <1>3 DEF EndsAlone
<1>7. AloneInQueue' /\ WritesFind'
  <2>1. AloneInQueue'
    BY <1>2, <1>4 DEF AloneInQueue
  <2>2. WritesFind'
    BY <1>1, <1>2, <1>4 DEF WritesFind
  <2> QED BY <2>1, <2>2
<1>8. OneEnqueue'
  <2>1. \A d \in Chapters : claims'[d] \in {0, 1}
    BY <1>1, <1>3 DEF OneEnqueue
  <2>2. ASSUME NEW i \in 1..Len(ops), ops[i].kind \in Enqueues
        PROVE  /\ claims'[ops[i].chapter] = 0
               /\ \A j \in 1..Len(ops) : IsOp(j, Enqueues, ops[i].chapter) => i = j
    <3>1. ops[i] \in Write
      BY DEF TypeOK
    <3> QED BY <2>2, <3>1, <1>1, <1>3 DEF OneEnqueue, Write
  <2> QED BY <2>1, <2>2, <1>2 DEF OneEnqueue, IsOp
<1>9. EndsAlone'
  BY <1>1, <1>2, <1>3, <1>4, <1>5, <1>6 DEF EndsAlone, IsOp
<1>10. NoneTwice'
  BY <1>1, <1>2, <1>5 DEF NoneTwice
<1>11. Remembered'
  <2>1. ASSUME NEW d \in Chapters, rec[d] = "queued", attempt'[d] \in {"none", "leaving"}
        PROVE  \/ asleep'[d] # "no" \/ claims'[d] > 0
               \/ \E i \in 1..Len(ops) : IsOp(i, Enqueues \cup {"complete"}, d)
    <3>1. d # c
      BY <2>1, <1>5, <1>6
    <3> QED BY <2>1, <3>1, <1>1, <1>3, <1>5 DEF Remembered
  <2> QED BY <2>1, <1>2 DEF Remembered, IsOp
<1> QED BY <1>7, <1>8, <1>9, <1>10, <1>11 DEF QuietInv

\* A failed attempt is marked, unless it has no record or a complete one.
LEMMA MarkKeepsQuiet ==
  ASSUME SlotInv, QuietInv, NEW c \in Chapters, MarkFailed(c)
  PROVE  QuietInv'
<1>1. /\ TypeOK /\ FailsWait
      /\ AloneInQueue /\ WritesFind /\ OneEnqueue /\ EndsAlone /\ NoneTwice /\ Remembered
  BY DEF SlotInv, QuietInv
<1>2. /\ attempt[c] = "failing" /\ rec' = rec /\ claims' = claims /\ asleep' = asleep
      /\ \A d \in Chapters : d # c => attempt'[d] = attempt[d]
      /\ \/ rec[c] \in {"absent", "done"} /\ attempt'[c] = "leaving" /\ ops' = ops
         \/ rec[c] \notin {"absent", "done"} /\ attempt'[c] = "saving" /\ Queue("fail", c)
  BY <1>1 DEF MarkFailed, AttemptStep, Goto, TypeOK
<1>3. /\ \A i \in 1..Len(ops) : ops[i].kind \notin {"progress", "complete", "delete"}
      /\ claims[c] = 0 /\ \A i \in 1..Len(ops) : ~IsOp(i, Enqueues, c)
  BY <1>1, <1>2 DEF AloneInQueue, EndsAlone, IsOp
<1>4. NoneTwice'
  BY <1>1, <1>2 DEF NoneTwice
<1>5. CASE attempt'[c] = "leaving"
  <2>1. rec[c] \in {"absent", "done"} /\ ops' = ops
    BY <1>2, <1>5
  <2>2. AloneInQueue' /\ WritesFind'
    BY <1>1, <1>2, <1>3, <2>1 DEF AloneInQueue, WritesFind
  <2>3. OneEnqueue'
    BY <1>1, <1>2, <2>1 DEF OneEnqueue, IsOp
  <2>4. EndsAlone'
    BY <1>1, <1>2, <1>3, <1>5, <2>1 DEF EndsAlone, IsOp
  <2>5. Remembered'
    BY <1>1, <1>2, <2>1 DEF Remembered, IsOp
  <2> QED BY <2>2, <2>3, <2>4, <2>5, <1>4 DEF QuietInv
<1>6. CASE attempt'[c] = "saving"
  <2>1. rec[c] \notin {"absent", "done"} /\ Queue("fail", c)
    BY <1>2, <1>6
  <2> DEFINE last == Len(ops) + 1
  <2>2. /\ Len(ops) \in Nat /\ Len(ops') = last
        /\ \A i \in 1..Len(ops) : ops'[i] = ops[i]
        /\ ops'[last].kind = "fail" /\ ops'[last].chapter = c
    BY <1>1, <2>1, QueueAdds DEF Kinds
  <2>3. 1..Len(ops') = 1..Len(ops) \cup {last} /\ last \in 1..Len(ops')
    BY <2>2
  <2> HIDE DEF last
  <2>4. AloneInQueue'
    BY <1>3, <2>2, <2>3 DEF AloneInQueue
  <2>5. WritesFind'
    <3> SUFFICES ASSUME NEW i \in 1..Len(ops')
                 PROVE  /\ ops'[i].kind = "resume" => rec[ops'[i].chapter] # "absent"
                        /\ ops'[i].kind = "fail" => rec[ops'[i].chapter] \notin {"absent", "done"}
                        /\ ops'[i].kind \notin {"progress", "complete"}
      BY <1>2 DEF WritesFind
    <3>1. CASE i \in 1..Len(ops)
      BY <3>1, <1>1, <1>3, <2>2 DEF WritesFind
    <3>2. CASE i = last
      BY <3>2, <2>1, <2>2
    <3> QED BY <3>1, <3>2, <2>3
  <2>6. OneEnqueue'
    <3> SUFFICES ASSUME NEW i \in 1..Len(ops'), ops'[i].kind \in Enqueues
                 PROVE  /\ claims[ops'[i].chapter] = 0
                        /\ \A j \in 1..Len(ops') :
                             ops'[j].kind \in Enqueues /\ ops'[j].chapter = ops'[i].chapter => i = j
      BY <1>1, <1>2 DEF OneEnqueue, IsOp
    <3>1. \A j \in 1..Len(ops') : ops'[j].kind \in Enqueues => j \in 1..Len(ops) /\ ops'[j] = ops[j]
      BY <2>2, <2>3 DEF Enqueues
    <3> QED BY <3>1, <1>1 DEF OneEnqueue, IsOp
  <2>7. EndsAlone'
    <3> SUFFICES ASSUME NEW d \in Chapters
                 PROVE  /\ attempt'[d] \in {"leaving", "failing", "saving"} =>
                             claims[d] = 0 /\ ~ \E i \in 1..Len(ops') : IsOp(i, Enqueues, d)'
                        /\ attempt'[d] = "saving" => \E i \in 1..Len(ops') : IsOp(i, {"fail"}, d)'
      BY <1>2 DEF EndsAlone, IsOp
    <3>1. \A i \in 1..Len(ops') :
            ops'[i].kind \in Enqueues => i \in 1..Len(ops) /\ ops'[i] = ops[i]
      BY <2>2, <2>3 DEF Enqueues
    <3>2. \A i \in 1..Len(ops) : i \in 1..Len(ops') /\ ops'[i] = ops[i]
      BY <2>2, <2>3
    <3>3. CASE d = c
      BY <3>1, <3>3, <1>3, <2>2, <2>3 DEF IsOp
    <3>4. CASE d # c
      BY <3>1, <3>2, <3>4, <1>1, <1>2 DEF EndsAlone, IsOp
    <3> QED BY <3>3, <3>4
  <2>8. Remembered'
    <3>1. \A i \in 1..Len(ops) : i \in 1..Len(ops') /\ ops'[i] = ops[i]
      BY <2>2, <2>3
    <3> QED BY <3>1, <1>1, <1>2, <1>6 DEF Remembered, IsOp
  <2> QED BY <2>4, <2>5, <2>6, <2>7, <2>8, <1>4 DEF QuietInv
<1> QED BY <1>2, <1>5, <1>6

\* The attempt is gone.
LEMMA LeaveKeepsQuiet ==
  ASSUME TypeOK, QuietInv, NEW c \in Chapters, Leave(c)
  PROVE  QuietInv'
<1>1. AloneInQueue /\ WritesFind /\ OneEnqueue /\ EndsAlone /\ NoneTwice /\ Remembered
  BY DEF QuietInv
<1>2. /\ attempt[c] = "leaving" /\ UNCHANGED <<rec, ops, claims, asleep>>
      /\ \A d \in Chapters : attempt'[d] = IF d = c THEN "none" ELSE attempt[d]
  BY DEF Leave, Goto, TypeOK
<1>3. AloneInQueue'
  BY <1>1, <1>2 DEF AloneInQueue
<1>4. WritesFind'
  <2>1. ASSUME NEW i \in 1..Len(ops)
        PROVE  /\ ops[i].kind = "progress" => attempt'[ops[i].chapter] = "transferring"
               /\ ops[i].kind = "complete" => attempt'[ops[i].chapter] \in {"none", "leaving"}
    <3>1. ops[i].chapter \in Chapters
      <4>1. ops[i] \in Write
        BY DEF TypeOK
      <4> QED BY <4>1 DEF Write
    <3> QED BY <3>1, <1>1, <1>2 DEF WritesFind
  <2> QED BY <2>1, <1>1, <1>2 DEF WritesFind
<1>5. OneEnqueue'
  BY <1>1, <1>2 DEF OneEnqueue, IsOp
<1>6. EndsAlone'
  BY <1>1, <1>2 DEF EndsAlone, IsOp
<1>7. NoneTwice' /\ Remembered'
  BY <1>1, <1>2 DEF NoneTwice, Remembered, IsOp
<1> QED BY <1>3, <1>4, <1>5, <1>6, <1>7 DEF QuietInv

\* Every step of an attempt.
LEMMA SystemKeepsQuiet ==
  ASSUME ~SlowWrites, SlotInv, QuietInv, NEW c \in Chapters, System(c)
  PROVE  QuietInv'
<1>1. TypeOK
  BY DEF SlotInv
<1>2. \A d \in Chapters : attempt[d] \in Active => rec[d] # "done"
  BY DEF QuietInv, NoneTwice, Active
<1>3. CASE Claim(c)
  BY <1>1, <1>3, ClaimKeepsQuiet
<1>4. CASE MarkFailed(c)
  BY <1>4, MarkKeepsQuiet
<1>5. CASE Leave(c)
  BY <1>1, <1>5, LeaveKeepsQuiet
<1>6. ASSUME Event PROVE Quiet
  BY <1>6, EventIsQuiet
<1>7. CASE Start(c)
  <2>1. /\ Quiet /\ UNCHANGED <<ops, asleep>>
        /\ \/ AttemptStep(c, "waiting", "leaving") /\ Cancelled(c)
           \/ AttemptStep(c, "waiting", "network")
    BY <1>6, <1>7 DEF Start
  <2> QED BY <1>1, <2>1, SilentMove DEF Phases, Active, Cancelled
<1>8. CASE Connected(c)
  <2>1. Quiet /\ UNCHANGED <<ops, asleep>> /\ AttemptStep(c, "network", "preparing")
    BY <1>6, <1>8 DEF Connected
  <2> QED BY <1>1, <2>1, SilentMove DEF Phases, Active
<1>9. CASE WifiRefused(c)
  <2>1. /\ Quiet /\ UNCHANGED ops /\ AttemptStep(c, "network", "leaving")
        /\ \A d \in Chapters : d # c => asleep'[d] = asleep[d]
        /\ asleep'[c] # "no"
    BY <1>1, <1>6, <1>9 DEF WifiRefused, TypeOK
  <2> QED BY <1>1, <2>1, SilentMove DEF Phases, Active
<1>10. CASE Prepared(c)
  <2>1. /\ Quiet /\ UNCHANGED <<ops, asleep>>
        /\ \/ AttemptStep(c, "preparing", "leaving") /\ Cancelled(c)
           \/ AttemptStep(c, "preparing", "transferring")
    BY <1>6, <1>10 DEF Prepared
  <2> QED BY <1>1, <2>1, SilentMove DEF Phases, Active, Cancelled
<1>11. CASE EmitProgress(c)
  <2>1. /\ Quiet /\ AttemptStep(c, "transferring", "transferring")
        /\ Queue("progress", c) /\ UNCHANGED asleep
    BY <1>6, <1>11 DEF EmitProgress
  <2> QED BY <1>1, <2>1, WritingMove DEF Phases, Active, Kinds
<1>12. CASE Transferred(c)
  <2>1. Quiet /\ UNCHANGED asleep
    BY <1>6, <1>12 DEF Transferred
  <2>2. CASE AttemptStep(c, "transferring", "leaving") /\ Queue("complete", c)
    BY <1>1, <2>1, <2>2, WritingMove DEF Phases, Active, Kinds
  <2>3. CASE /\ UNCHANGED ops
             /\ \/ AttemptStep(c, "transferring", "leaving") /\ Cancelled(c)
                \/ AttemptStep(c, "transferring", "finalizing")
    BY <1>1, <2>1, <2>3, SilentMove DEF Phases, Active, Cancelled
  <2> QED BY <1>12, <2>2, <2>3 DEF Transferred
<1>13. CASE EmptyNovel(c)
  <2>1. /\ Quiet /\ UNCHANGED ops /\ AttemptStep(c, "transferring", "leaving")
        /\ \A d \in Chapters : d # c => asleep'[d] = asleep[d]
        /\ asleep'[c] # "no"
    BY <1>1, <1>6, <1>13 DEF EmptyNovel, TypeOK
  <2> QED BY <1>1, <2>1, SilentMove DEF Phases, Active
<1>14. CASE Finalized(c)
  <2>1. /\ Quiet /\ AttemptStep(c, "finalizing", "leaving")
        /\ Queue("complete", c) /\ UNCHANGED asleep
    BY <1>6, <1>14 DEF Finalized
  <2> QED BY <1>1, <2>1, WritingMove DEF Phases, Active, Kinds
<1>15. CASE Fails(c)
  <2>1. PICK from \in {"network", "preparing", "transferring", "finalizing"} :
          AttemptStep(c, from, "failing")
    BY <1>15 DEF Fails
  <2>2. Quiet /\ UNCHANGED <<ops, asleep>> /\ from \in Active
    BY <1>6, <1>15 DEF Fails, Active
  <2> QED BY <1>1, <2>1, <2>2, SilentMove DEF Phases
<1> QED BY <1>3, <1>4, <1>5, <1>7, <1>8, <1>9, <1>10, <1>11, <1>12, <1>13, <1>14,
           <1>15 DEF System

LEMMA QuietInvStep ==
  QueueAssumption /\ ~SlowWrites /\ SlotInv /\ QuietInv /\ [Next]_vars => QuietInv'
<1> SUFFICES ASSUME QueueAssumption, ~SlowWrites, SlotInv, QuietInv, [Next]_vars
             PROVE  QuietInv'
  OBVIOUS
<1>1. TypeOK
  BY DEF SlotInv
<1>2. CASE UNCHANGED vars
  BY <1>2 DEF vars, QuietInv, AloneInQueue, WritesFind, OneEnqueue, EndsAlone, NoneTwice,
              Remembered, IsOp
<1>3. CASE Commit
  BY <1>3, CommitKeepsQuiet
<1>4. ASSUME Request, NEW kind \in {"enqueue", "delete"}, NEW c \in Chapters, Queue(kind, c)
      PROVE  QuietInv'
  <2>1. Quiet /\ UNCHANGED <<rec, claims, attempt, asleep>>
    BY <1>4, EventIsQuiet DEF Request
  <2>2. Len(ops) = 0 /\ Len(ops) + 1 = 1
    BY <2>1 DEF Quiet
  <2>3. /\ Len(ops') = Len(ops) + 1
        /\ ops'[Len(ops) + 1].kind = kind /\ ops'[Len(ops) + 1].chapter = c
    BY <1>1, <1>4, QueueAdds DEF Kinds
  <2>4. Len(ops') = 1 /\ 1..Len(ops') = {1} /\ ops'[1].kind = kind /\ ops'[1].chapter = c
    BY <2>2, <2>3
  <2>5. \A i \in 1..Len(ops') :
          /\ ops'[i].chapter \in Chapters
          /\ ops'[i].kind \in Enqueues \cup {"delete"}
          /\ ops'[i].kind = "resume" => rec[ops'[i].chapter] # "absent"
          /\ ops'[i].kind = "delete" => Len(ops') = 1
    BY <1>4, <2>4 DEF Enqueues
  <2>6. \A i, j \in 1..Len(ops') : ops'[i].chapter = ops'[j].chapter => i = j
    BY <2>4
  <2> QED BY <2>1, <2>5, <2>6, Requested
<1>5. CASE SweepRead
  <2>1. Quiet /\ UNCHANGED <<rec, claims, attempt, asleep, ops>>
    BY <1>5, EventIsQuiet DEF SweepRead, Request
  <2>2. 1..Len(ops') = {}
    BY <2>1 DEF Quiet
  <2> QED BY <2>1, <2>2, Requested
<1>6. CASE SweepFire
  <2>1. Quiet /\ UNCHANGED <<rec, claims, attempt, asleep>>
    BY <1>6, EventIsQuiet DEF SweepFire
  <2>2. ops = <<>> /\ 1..Len(ops) = {}
    BY <2>1 DEF Quiet
  <2>3. /\ \A i \in 1..Len(ops') : ops'[i].kind = "resume" /\ ops'[i].chapter \in Fired
        /\ \A i, j \in 1..Len(ops') : ops'[i].chapter = ops'[j].chapter => i = j
    BY <1>1, <1>6, <2>2, SweepAdds
  <2>4. \A c \in Fired : c \in Chapters /\ rec[c] # "absent"
    BY <1>1 DEF Fired, TypeOK
  <2> QED BY <2>1, <2>3, <2>4, Requested DEF Enqueues
<1>7. CASE Restart
  <2>1. /\ 1..Len(ops') = {} /\ rec' = rec
        /\ \A c \in Chapters : claims'[c] = 0 /\ attempt'[c] = "none" /\ asleep'[c] = "restart"
    BY <1>7 DEF Restart
  <2> QED BY <2>1 DEF QuietInv, AloneInQueue, WritesFind, OneEnqueue, EndsAlone, NoneTwice,
                      Remembered
<1>8. ASSUME NEW c \in Chapters, System(c) \/ Tap(c) \/ Cancel(c)
      PROVE  QuietInv'
  BY <1>4, <1>8, SystemKeepsQuiet DEF Tap, Cancel
<1> QED BY <1>2, <1>3, <1>5, <1>6, <1>7, <1>8 DEF Next

-----------------------------------------------------------------------------
(* What follows when the write queue drains before each event *)

\* Where records, the write queue and the attempts stand when the queue drains
\* before each event (dbWriteQueue with synchronous transactions).
THEOREM QuietInvHolds == QueueAssumption /\ ~SlowWrites => (Spec => []QuietInv)
<1> SUFFICES ASSUME QueueAssumption, ~SlowWrites PROVE Spec => []QuietInv
  OBVIOUS
<1>1. Init => QuietInv
  BY QuietInvInit
<1>2. SlotInv /\ QuietInv /\ [Next]_vars => QuietInv'
  BY QuietInvStep
<1> QED BY <1>1, <1>2, SlotInvHolds, PTL DEF Spec

\* A queued record is worked on, asked for again, or asleep for a reason that
\* the next sweep ends (download_provider.dart:77-79).
THEOREM QueueForgetsNothing ==
  QueueAssumption /\ ~SlowWrites => (Spec => []NoForgottenDownload)
<1>1. SlotInv /\ QuietInv => NoForgottenDownload
  <2> SUFFICES ASSUME SlotInv, QuietInv, NEW c \in Chapters, rec[c] = "queued", ~Pending(c)
               PROVE  asleep[c] # "no"
    BY DEF NoForgottenDownload
  <2>1. DOMAIN ops = 1..Len(ops)
    BY DEF SlotInv, TypeOK
  <2>2. /\ attempt[c] = "none" /\ ~(claims[c] > 0)
        /\ ~ \E i \in 1..Len(ops) : IsOp(i, Enqueues \cup {"complete"}, c)
    BY <2>1 DEF Pending, IsOp
  <2> QED BY <2>2 DEF QuietInv, Remembered
<1> QED BY <1>1, SlotInvHolds, QuietInvHolds, PTL

\* What a step does to records: only a commit changes one.
LEMMA RecordsChange ==
  ASSUME SlotInv, QuietInv, Next, NEW c \in Chapters, rec'[c] # rec[c]
  PROVE  /\ ops # <<>> /\ Head(ops).chapter = c /\ rec'[c] = Committed(Head(ops), rec[c])
         /\ Head(ops) = ops[1] /\ 1 \in 1..Len(ops) /\ Head(ops).kind \in Kinds
<1>1. TypeOK
  BY DEF SlotInv
<1>2. CASE Commit
  <2>1. /\ ops # <<>> /\ rec' = [rec EXCEPT ![Head(ops).chapter] = Committed(Head(ops), @)]
    BY <1>2 DEF Commit
  <2>2. Head(ops) \in Write /\ Head(ops) = ops[1] /\ 1 \in 1..Len(ops)
    BY <1>1, <2>1 DEF TypeOK
  <2>3. Head(ops).chapter \in Chapters /\ Head(ops).kind \in Kinds
    BY <2>2 DEF Write, Kinds
  <2>4. Head(ops).chapter = c /\ rec'[c] = Committed(Head(ops), rec[c])
    BY <1>1, <2>1, <2>3 DEF TypeOK
  <2> QED BY <2>1, <2>2, <2>3, <2>4
<1>3. CASE SweepRead \/ SweepFire \/ Restart
  BY <1>3 DEF SweepRead, SweepFire, Restart, Request
<1>4. ASSUME NEW d \in Chapters, Tap(d) \/ Cancel(d) PROVE rec' = rec
  BY <1>4 DEF Tap, Cancel, Request
<1>5. ASSUME NEW d \in Chapters, System(d) PROVE rec' = rec
  <2>1. ASSUME NEW from, NEW to, AttemptStep(d, from, to) PROVE rec' = rec
    BY <2>1 DEF AttemptStep
  <2>2. CASE Claim(d) \/ Leave(d)
    BY <2>2 DEF Claim, Leave
  <2>3. CASE Start(d) \/ Connected(d) \/ WifiRefused(d) \/ Prepared(d) \/ EmitProgress(d)
    BY <2>1, <2>3 DEF Start, Connected, WifiRefused, Prepared, EmitProgress
  <2>4. CASE Transferred(d) \/ EmptyNovel(d) \/ Finalized(d) \/ Fails(d) \/ MarkFailed(d)
    BY <2>1, <2>4 DEF Transferred, EmptyNovel, Finalized, Fails, MarkFailed
  <2> QED BY <1>5, <2>2, <2>3, <2>4 DEF System
<1> QED BY <1>2, <1>3, <1>4, <1>5 DEF Next

\* Only a tap creates a cancelled record again (download_gate.dart:65-68).
THEOREM CancelsHold ==
  QueueAssumption /\ ~SlowWrites => (Spec => CancelledStaysGone)
<1> SUFFICES ASSUME QueueAssumption, ~SlowWrites PROVE Spec => CancelledStaysGone
  OBVIOUS
<1>1. SlotInv /\ QuietInv /\ [Next]_vars =>
        [\A c \in Chapters :
           rec[c] = "absent" /\ rec'[c] # "absent" => Head(ops).kind = "enqueue"]_vars
  <2> SUFFICES ASSUME SlotInv, QuietInv, Next, NEW c \in Chapters,
                      rec[c] = "absent", rec'[c] # "absent"
               PROVE  Head(ops).kind = "enqueue"
    OBVIOUS
  <2>1. /\ ops # <<>> /\ Head(ops).chapter = c /\ rec'[c] = Committed(Head(ops), rec[c])
        /\ Head(ops) = ops[1] /\ 1 \in 1..Len(ops) /\ Head(ops).kind \in Kinds
    BY RecordsChange
  <2>2. Head(ops).kind \notin {"resume", "fail"}
    BY <2>1 DEF QuietInv, WritesFind
  <2> QED BY <2>1, <2>2 DEF Committed, Kinds, Enqueues
<1>2. Spec => []SlotInv /\ []QuietInv
  BY SlotInvHolds, QuietInvHolds
<1> QED BY <1>1, <1>2, PTL DEF Spec, CancelledStaysGone

\* A completed download stays completed until it is deleted
\* (download_repository.dart:83-84).
THEOREM CompletionsHold ==
  QueueAssumption /\ ~SlowWrites => (Spec => CompletedSticks)
<1> SUFFICES ASSUME QueueAssumption, ~SlowWrites PROVE Spec => CompletedSticks
  OBVIOUS
<1>1. SlotInv /\ QuietInv /\ [Next]_vars =>
        [\A c \in Chapters : rec[c] = "done" => rec'[c] \in {"done", "absent"}]_vars
  <2> SUFFICES ASSUME SlotInv, QuietInv, Next, NEW c \in Chapters,
                      rec[c] = "done", rec'[c] # rec[c]
               PROVE  rec'[c] = "absent"
    OBVIOUS
  <2>1. /\ ops # <<>> /\ Head(ops).chapter = c /\ rec'[c] = Committed(Head(ops), rec[c])
        /\ Head(ops) = ops[1] /\ 1 \in 1..Len(ops) /\ Head(ops).kind \in Kinds
    BY RecordsChange
  <2>2. Head(ops).kind # "fail"
    BY <2>1 DEF QuietInv, WritesFind
  <2>3. Head(ops).kind # "progress"
    BY <2>1 DEF QuietInv, WritesFind, NoneTwice
  <2> QED BY <2>1, <2>2, <2>3 DEF Committed, Kinds, Enqueues
<1>2. Spec => []SlotInv /\ []QuietInv
  BY SlotInvHolds, QuietInvHolds
<1> QED BY <1>1, <1>2, PTL DEF Spec, CompletedSticks

=============================================================================
