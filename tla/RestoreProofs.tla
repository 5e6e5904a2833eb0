----------------------------- MODULE RestoreProofs -----------------------------
(***************************************************************************)
(* Proofs about what carries a restore to the next sync: the files of the  *)
(* sync stores (AtomicFile implements DurableValue), the chain of promises *)
(* that makes restores and syncs exclude one another                       *)
(* (RestoreSyncCoordinator), and the sequences of changes a crash may cut  *)
(* short (RestoreLifecycle).                                               *)
(***************************************************************************)
EXTENDS AtomicFile, RestoreSyncCoordinator, RestoreLifecycle, SequenceTheorems,
        WellFoundedInduction, TLAPS


-----------------------------------------------------------------------------
(* One file: AtomicFile *)

\* The files are where the steps expect them.
LEMMA FilesInvInit == FileInit => FilesInv
  BY DEF FileInit, FilesInv, FileTypeOK, Loaded

\* No call of an operation, no failure and no crash breaks FilesInv.
LEMMA FilesInvStep == FilesInv /\ [FileNext]_fileVars => FilesInv'
<1> SUFFICES ASSUME FilesInv, [FileNext]_fileVars PROVE FilesInv'
  OBVIOUS
<1> USE FileAssumption DEF FileAssumption, FilesInv, FileTypeOK, Loaded
<1>1. ASSUME NEW v \in Values, BeginWrite(v) PROVE FilesInv'
  BY <1>1 DEF BeginWrite
<1>2. CASE DropPrevious
  BY <1>2 DEF DropPrevious
<1>3. CASE Aside
  BY <1>3 DEF Aside
<1>4. CASE Rename
  BY <1>4 DEF Rename
<1>5. CASE RollBack
  BY <1>5 DEF RollBack
<1>6. CASE Clean
  BY <1>6 DEF Clean
<1>7. CASE BeginDelete
  BY <1>7 DEF BeginDelete
<1>8. CASE DeletePrevious
  BY <1>8 DEF DeletePrevious
<1>9. CASE DeleteFile
  BY <1>9 DEF DeleteFile
<1>10. CASE Return
  BY <1>10 DEF Return
<1>11. CASE CallFails
  BY <1>11 DEF CallFails
<1>12. CASE UNCHANGED fileVars
  BY <1>12 DEF fileVars
<1> QED
  BY <1>1, <1>2, <1>3, <1>4, <1>5, <1>6, <1>7, <1>8, <1>9, <1>10, <1>11, <1>12
     DEF FileNext

\* FilesInv holds for every set of values, on Windows and elsewhere.
THEOREM FilesCorrect == FileSpec => []FilesInv
  BY FilesInvInit, FilesInvStep, PTL DEF FileSpec

\* Each call changes what a load returns at most as DurableValue allows.
LEMMA DurableStep == FilesInv /\ [FileNext]_fileVars => [Durable!Next]_(Durable!vars)
<1> SUFFICES ASSUME FilesInv, [FileNext]_fileVars
             PROVE  [Durable!Next]_(Durable!vars)
  OBVIOUS
<1> USE FileAssumption DEF FileAssumption, FilesInv, FileTypeOK, Loaded, Intent, Durable!vars
<1>1. ASSUME NEW v \in Values, BeginWrite(v) PROVE Durable!Begin(v)
  BY <1>1 DEF BeginWrite, Durable!Begin
<1>2. CASE DropPrevious
  BY <1>2 DEF DropPrevious
<1>3. CASE Aside
  BY <1>3 DEF Aside
<1>4. CASE Rename
  <2>1. Loaded' = new /\ Intent = {new} /\ Intent' = {new}
    BY <1>4 DEF Rename
  <2> QED
    BY <2>1 DEF Durable!Next, Durable!Take
<1>5. CASE RollBack
  BY <1>5 DEF RollBack, Durable!Next, Durable!Fail
<1>6. CASE Clean
  BY <1>6 DEF Clean
<1>7. CASE BeginDelete
  BY <1>7 DEF BeginDelete, Durable!Next, Durable!Begin
<1>8. CASE DeletePrevious
  <2>1. CASE file = Absent
    BY <1>8, <2>1 DEF DeletePrevious, Durable!Next, Durable!Take
  <2>2. CASE file # Absent
    BY <1>8, <2>2 DEF DeletePrevious
  <2> QED
    BY <2>1, <2>2
<1>9. CASE DeleteFile
  BY <1>9 DEF DeleteFile, Durable!Next, Durable!Take
<1>10. CASE Return
  BY <1>10 DEF Return, Durable!Next, Durable!End
<1>11. CASE CallFails
  BY <1>11 DEF CallFails, Durable!Next, Durable!Fail
<1>12. CASE UNCHANGED fileVars
  BY <1>12 DEF fileVars
<1> QED
  BY <1>1, <1>2, <1>3, <1>4, <1>5, <1>6, <1>7, <1>8, <1>9, <1>10, <1>11, <1>12
     DEF FileNext, Durable!Next

\* A file of the sync stores behaves as one durable value: old or new, never
\* lost, never brought back after a delete, whatever call fails or crash comes.
THEOREM FileIsDurable == FileSpec => ImplementsDurableValue
<1>1. FileInit => Durable!Init
  BY DEF FileInit, Durable!Init, Loaded, Intent
<1> QED
  BY <1>1, DurableStep, FilesCorrect, PTL
     DEF FileSpec, ImplementsDurableValue, Durable!Spec

-----------------------------------------------------------------------------
(* One operation at a time: RestoreSyncCoordinator *)

\* Calls are the natural numbers from 1, each but the first after another.
LEMMA CallNumbers ==
  /\ MaxCalls \in Nat
  /\ \A c \in Calls : c \in Nat /\ c > 0 /\ c <= MaxCalls
  /\ \A c, d \in Calls : c < d => d > 1 /\ d - 1 \in Calls
                                 /\ (c = d - 1 \/ c < d - 1)
<1>1. MaxCalls \in Nat
  BY CoordinatorAssumption DEF CoordinatorAssumption
<1> QED
  BY <1>1 DEF Calls

\* What one more call does to the numbers of the calls made.
LEMMA OneMoreCall ==
  \A n \in 0..MaxCalls : n < MaxCalls =>
    /\ n + 1 \in 0..MaxCalls /\ n + 1 \in Calls /\ n + 1 > n
    /\ ~ (n + 1 > n + 1)
    /\ \A c \in Calls : c # n + 1 => (c > n <=> c > n + 1)
  BY CoordinatorAssumption DEF CoordinatorAssumption, Calls

\* No call is made at first.
LEMMA CallsTypeInit == CallsInit => CallsTypeOK
<1> SUFFICES ASSUME CallsInit PROVE CallsTypeOK
  OBVIOUS
<1>0. tail = 0
  BY DEF CallsInit
<1>1. tail \in 0..MaxCalls /\ \A c \in Calls : c > tail
  BY <1>0, CallNumbers
<1>2. kind \in [Calls -> Kinds]
  BY DEF CallsInit, Kinds
<1> QED
  BY <1>1, <1>2 DEF CallsInit, CallsTypeOK

\* Calls, promises and settings keep their types.
LEMMA CallsTypeStep == CallsTypeOK /\ [CallsNext]_callVars => CallsTypeOK'
<1> SUFFICES ASSUME CallsTypeOK, [CallsNext]_callVars PROVE CallsTypeOK'
  OBVIOUS
<1> USE DEF CallsTypeOK
<1>1. ASSUME NEW k \in Kinds, Call(k) PROVE CallsTypeOK'
  <2>1. tail \in 0..MaxCalls /\ tail < MaxCalls /\ tail' = tail + 1
    BY <1>1 DEF Call
  <2>2. /\ tail' \in 0..MaxCalls /\ tail' \in Calls /\ ~ (tail' > tail')
        /\ \A c \in Calls : c # tail' => (c > tail <=> c > tail')
    BY <2>1, OneMoreCall
  <2>3. kind' \in [Calls -> Kinds] /\ UNCHANGED <<setting, used>>
    BY <1>1 DEF Call
  <2>4. state' = [state EXCEPT ![tail'] = "queued"]
    BY <1>1, <2>1 DEF Call
  <2>5. \A c \in Calls : state'[c] = "not made" <=> c > tail'
    <3> SUFFICES ASSUME NEW c \in Calls
                 PROVE  state'[c] = "not made" <=> c > tail'
      OBVIOUS
    <3>1. CASE c = tail'
      BY <2>2, <2>4, <3>1
    <3>2. CASE c # tail'
      BY <2>2, <2>4, <3>2
    <3> QED
      BY <3>1, <3>2
  <2> QED
    BY <2>2, <2>3, <2>4, <2>5
<1>2. ASSUME NEW c \in Calls, Run(c) PROVE CallsTypeOK'
  BY <1>2 DEF Run, MyTurn
<1>3. ASSUME NEW c \in Calls, Release(c) PROVE CallsTypeOK'
  BY <1>3 DEF Release
<1>4. CASE ChangeSetting
  BY <1>4 DEF ChangeSetting
<1>5. CASE UNCHANGED callVars
  BY <1>5 DEF callVars
<1> QED
  BY <1>1, <1>2, <1>3, <1>4, <1>5 DEF CallsNext

\* The variables keep their types; calls are made in the order of the chain.
THEOREM CoordinatorTypeCorrect == CallsSpec => []CallsTypeOK
  BY CallsTypeInit, CallsTypeStep, PTL DEF CallsSpec

\* The chain is kept: only a call whose predecessor is over can start.
LEMMA OrderStep == CallsTypeOK /\ InOrder /\ [CallsNext]_callVars => InOrder'
<1> SUFFICES ASSUME CallsTypeOK, InOrder, [CallsNext]_callVars PROVE InOrder'
  OBVIOUS
<1> USE DEF CallsTypeOK
<1>1. ASSUME NEW k \in Kinds, Call(k) PROVE InOrder'
  <2> SUFFICES ASSUME NEW c \in Calls, NEW d \in Calls, c < d,
                      state'[d] \in {"running", "released"}
               PROVE  state'[c] = "released"
    BY DEF InOrder
  <2>1. d # tail + 1 /\ state[d] \in {"running", "released"}
    BY <1>1 DEF Call
  <2>2. state[c] = "released"
    BY <2>1 DEF InOrder
  <2>3. tail + 1 \in Calls /\ tail + 1 > tail
    <3>1. tail \in 0..MaxCalls /\ tail < MaxCalls
      BY <1>1 DEF Call
    <3> QED
      BY <3>1, OneMoreCall
  <2>4. state[tail + 1] = "not made"
    BY <2>3
  <2> QED
    BY <1>1, <2>2, <2>4 DEF Call
<1>2. ASSUME NEW r \in Calls, Run(r) PROVE InOrder'
  <2> SUFFICES ASSUME NEW c \in Calls, NEW d \in Calls, c < d,
                      state'[d] \in {"running", "released"}
               PROVE  state'[c] = "released"
    BY DEF InOrder
  <2>1. state[c] = "released" => state'[c] = "released"
    BY <1>2 DEF Run, MyTurn
  <2>2. CASE d # r
    BY <1>2, <2>1, <2>2 DEF Run, InOrder
  <2>3. CASE d = r
    <3>1. d > 1 /\ d - 1 \in Calls /\ (c = d - 1 \/ c < d - 1)
      BY CallNumbers
    <3>2. MyTurn(d)
      BY <1>2, <2>3 DEF Run
    <3>3. state[d - 1] = "released"
      BY <3>1, <3>2 DEF MyTurn
    <3>4. state[c] = "released"
      BY <3>1, <3>3 DEF InOrder
    <3> QED
      BY <3>4, <2>1
  <2> QED
    BY <2>2, <2>3
<1>3. ASSUME NEW r \in Calls, Release(r) PROVE InOrder'
  BY <1>3 DEF Release, InOrder
<1>4. CASE ChangeSetting
  BY <1>4 DEF ChangeSetting, InOrder
<1>5. CASE UNCHANGED callVars
  BY <1>5 DEF callVars, InOrder
<1> QED
  BY <1>1, <1>2, <1>3, <1>4, <1>5 DEF CallsNext

\* Every later call waits until the earlier ones are over.
THEOREM CoordinatorInOrder == CallsSpec => []InOrder
<1>1. CallsInit => InOrder
  BY DEF CallsInit, InOrder
<1> QED
  BY <1>1, OrderStep, CoordinatorTypeCorrect, PTL DEF CallsSpec

\* Restores, syncs and previews never run at once.
THEOREM CoordinatorExcludes == CallsSpec => []MutualExclusion
<1>1. CallsTypeOK /\ InOrder => MutualExclusion
  <2> SUFFICES ASSUME CallsTypeOK, InOrder, NEW c \in Calls, NEW d \in Calls,
                      state[c] = "running", state[d] = "running"
               PROVE  c = d
    BY DEF MutualExclusion
  <2>1. ~ (c < d) /\ ~ (d < c)
    BY DEF InOrder
  <2> QED
    BY <2>1, CoordinatorAssumption DEF CoordinatorAssumption, Calls
<1> QED
  BY <1>1, CoordinatorTypeCorrect, CoordinatorInOrder, PTL

\* A set of numbers that is not empty has a least one.
LEMMA LeastOf ==
  ASSUME NEW T, T \subseteq Nat, T # {}
  PROVE  \E n \in T : \A m \in T : n <= m
<1>1. \E x \in T : \A y \in T : ~ (<<y, x>> \in OpToRel(<, Nat))
  BY NatLessThanWellFounded, WFMin
<1>2. ASSUME NEW x \in Nat, NEW y \in Nat
      PROVE  <<y, x>> \in OpToRel(<, Nat) <=> y < x
  BY DEF OpToRel
<1>3. PICK x \in T : \A y \in T : ~ (<<y, x>> \in OpToRel(<, Nat))
  BY <1>1
<1>4. \A y \in T : ~ (y < x)
  BY <1>2, <1>3
<1> QED
  BY <1>4

\* However many calls there are, and whichever of them fail: while one waits, one
\* runs or has its turn.
THEOREM CoordinatorNeverStuck == CallsSpec => []SomeoneMoves
<1>1. CallsTypeOK => SomeoneMoves
  <2> SUFFICES ASSUME CallsTypeOK, NEW q \in Calls, state[q] = "queued"
               PROVE  \E c \in Calls : state[c] = "running" \/ MyTurn(c)
    BY DEF SomeoneMoves
  <2> DEFINE Waiting == {c \in Calls : state[c] \in {"queued", "running"}}
  <2>0. MaxCalls \in Nat /\ tail \in 0..MaxCalls
    BY CoordinatorAssumption DEF CoordinatorAssumption, CallsTypeOK
  <2>1. Waiting \subseteq Nat /\ Waiting # {}
    BY DEF Calls
  <2>2. PICK c \in Waiting : \A d \in Waiting : c <= d
    BY <2>1, LeastOf
  <2>3. CASE state[c] = "running"
    BY <2>3
  <2>4. CASE state[c] = "queued"
    <3>1. c > 1 => state[c - 1] = "released"
      <4> SUFFICES ASSUME c > 1 PROVE state[c - 1] = "released"
        OBVIOUS
      <4>1. c \in 1..MaxCalls /\ c - 1 \in 1..MaxCalls /\ ~ (c <= c - 1)
        BY <2>0 DEF Calls
      <4>2. c - 1 \notin Waiting
        BY <2>2, <4>1
      <4>3. \A d \in 1..MaxCalls : state[d] = "not made" <=> d > tail
        BY DEF CallsTypeOK, Calls
      <4>4. ~ (c > tail)
        BY <2>4, <4>1, <4>3
      <4>5. ~ (c - 1 > tail)
        BY <2>0, <4>1, <4>4
      <4>6. state[c - 1] # "not made"
        BY <4>1, <4>3, <4>5
      <4> QED
        BY <4>1, <4>2, <4>6 DEF CallsTypeOK, Calls
    <3> QED
      BY <2>4, <3>1 DEF MyTurn
  <2> QED
    BY <2>3, <2>4
<1> QED
  BY <1>1, CoordinatorTypeCorrect, PTL

\* A waiting sync starts with the preference of that moment, and only if that
\* preference still asks for it.
THEOREM CoordinatorStartsAsWanted == CallsSpec => StartsAsWanted
<1> DEFINE Start ==
      \A c \in Calls : state[c] # "running" /\ state'[c] = "running"
                         => used'[c] = setting /\ Wanted(kind[c], setting)
<1>1. CallsTypeOK /\ [CallsNext]_callVars => [Start]_callVars
  <2> SUFFICES ASSUME CallsTypeOK, [CallsNext]_callVars, NEW c \in Calls,
                      state[c] # "running", state'[c] = "running"
               PROVE  used'[c] = setting /\ Wanted(kind[c], setting)
    OBVIOUS
  <2> USE CoordinatorAssumption DEF CoordinatorAssumption, Calls, CallsTypeOK
  <2>1. ASSUME NEW k \in Kinds PROVE ~ Call(k)
    BY DEF Call
  <2>2. ASSUME NEW r \in Calls, Run(r) PROVE r = c /\ used'[r] = setting
                                            /\ Wanted(kind[r], setting)
    BY <2>2 DEF Run, MyTurn
  <2>3. ASSUME NEW r \in Calls PROVE ~ Release(r)
    BY DEF Release
  <2>4. ~ ChangeSetting /\ ~ UNCHANGED callVars
    BY DEF ChangeSetting, callVars
  <2> QED
    BY <2>1, <2>2, <2>3, <2>4 DEF CallsNext
<1> QED
  BY <1>1, CoordinatorTypeCorrect, PTL DEF CallsSpec, StartsAsWanted

-----------------------------------------------------------------------------
(* A restore, a Download-only and a sync over crashes: RestoreLifecycle *)

\* What is left of the changes ch from the k-th on.
Rest(ch, k) == [i \in 1..(Len(ch) - k + 1) |-> ch[i + k - 1]]

\* What the server holds.
OnServer == IF store["server"] = None THEN {} ELSE store["server"]

\* What an accident may leave behind: true between operations and in the
\* middle of each.
StoreInv ==
  /\ store["library"] = Torn =>
       store["marker"] = "preparing" \/ store["stage"] # None
  /\ store["library"] # Torn /\ store["marker"] # "preparing" =>
       store["library"] \subseteq {store["payload"]} \cup OnServer
  /\ ReadyIsWhole

\* A restore of b whose next change is the k-th.
Restoring(b, k) ==
  /\ todo = Rest(RestoreChanges(b), k)
  /\ k > 1 => store["marker"] = "preparing"
  /\ k > 4 => store["payload"] = b
  /\ k > 6 => store["library"] = {b}
  /\ k > 7 => store["pendingPrefs"] = {b}
  /\ k > 8 => store["pendingSources"] = {b}

\* A Download-only of d.
Downloading(d, k) ==
  /\ todo = Rest(DownloadChanges(d), k)
  /\ store["marker"] # "preparing" /\ store["server"] = d
  /\ k \in 4..9 => store["stage"] = d
  /\ k > 5 => store["library"] = d
  /\ k \in 7..8 => store["prefs"] = d
  /\ k = 8 => store["sources"] = d

\* The changes of a sync with an import and of one without.
FullSync(m) == SyncChanges(m, TRUE)
UploadSync(m) == SyncChanges(m, FALSE)

\* A sync that uploads m, imports it or not.
Syncing(m, k) ==
  /\ \/ todo = Rest(FullSync(m), k)
     \/ k = 1 /\ todo = UploadSync(m)
  /\ store["marker"] # "preparing" /\ store["library"] # Torn
  /\ store["payload"] \in m \cup {None} /\ OnServer \subseteq m
  /\ k > 1 => store["server"] = m
  /\ k > 3 => store["prefs"] = m
  /\ k > 4 => store["sources"] = m
  /\ k > 5 => store["envelope"] = m

\* The inductive invariant.
LifecycleInv ==
  /\ TypeOK
  /\ StoreInv
  /\ op = "restore" => \E b \in Backups, k \in 1..9 : Restoring(b, k)
  /\ op = "download" => \E d \in Contents, k \in 1..11 : Downloading(d, k)
  /\ op = "sync" => \E m \in Contents, k \in 1..9 : Syncing(m, k)

\* The changes an operation may make, by place.
Change ==
  [at : {"marker"}, put : {None, "preparing", "ready"}]
    \cup [at : {"payload"}, put : Backups \cup {None}]
    \cup [at : {"library"}, put : {Torn} \cup Contents]
    \cup [at : Places \ {"marker", "payload", "library"}, put : {None} \cup Contents]

\* The rest of a list is a list of what follows.
LEMMA RestIsSeq ==
  ASSUME NEW S, NEW ch \in Seq(S), NEW k \in 1..(Len(ch) + 1)
  PROVE  /\ Rest(ch, k) \in Seq(S)
         /\ Len(Rest(ch, k)) = Len(ch) - k + 1
         /\ \A i \in 1..(Len(ch) - k + 1) : Rest(ch, k)[i] = ch[i + k - 1]
<1>1. Len(ch) \in Nat /\ Len(ch) - k + 1 \in Nat
  OBVIOUS
<1>2. \A i \in 1..(Len(ch) - k + 1) : i + k - 1 \in 1..Len(ch)
  BY <1>1
<1>3. \A i \in 1..Len(ch) : ch[i] \in S
  OBVIOUS
<1>4. Rest(ch, k) \in [1..(Len(ch) - k + 1) -> S]
  BY <1>2, <1>3 DEF Rest
<1> QED
  BY <1>1, <1>4 DEF Rest

\* The next change of the rest, and the rest after it.
LEMMA RestStep ==
  ASSUME NEW S, NEW ch \in Seq(S), NEW k \in 1..Len(ch)
  PROVE  /\ Rest(ch, k) # <<>>
         /\ Head(Rest(ch, k)) = ch[k]
         /\ Tail(Rest(ch, k)) = Rest(ch, k + 1)
         /\ Len(Rest(ch, k)) = 1 <=> k = Len(ch)
<1>1. Len(ch) \in Nat
  OBVIOUS
<1>2. /\ Rest(ch, k) \in Seq(S)
      /\ Len(Rest(ch, k)) = Len(ch) - k + 1
      /\ \A i \in 1..(Len(ch) - k + 1) : Rest(ch, k)[i] = ch[i + k - 1]
  <2>1. k \in 1..(Len(ch) + 1)
    BY <1>1
  <2> QED
    BY <2>1, RestIsSeq
<1>3. /\ Rest(ch, k + 1) \in Seq(S)
      /\ Len(Rest(ch, k + 1)) = Len(ch) - (k + 1) + 1
      /\ \A i \in 1..(Len(ch) - (k + 1) + 1) : Rest(ch, k + 1)[i] = ch[i + (k + 1) - 1]
  <2>1. k + 1 \in 1..(Len(ch) + 1)
    BY <1>1
  <2> QED
    BY <2>1, RestIsSeq
<1>4. Rest(ch, k) # <<>> /\ Head(Rest(ch, k)) = ch[k]
  BY <1>1, <1>2
<1>5. Tail(Rest(ch, k)) = Rest(ch, k + 1)
  <2>1. /\ Tail(Rest(ch, k)) \in Seq(S)
        /\ Len(Tail(Rest(ch, k))) = Len(Rest(ch, k)) - 1
        /\ \A i \in 1..(Len(Rest(ch, k)) - 1) :
              Tail(Rest(ch, k))[i] = Rest(ch, k)[i + 1]
    BY <1>2, <1>4, HeadTailProperties
  <2>2. \A i \in 1..(Len(ch) - k) : Tail(Rest(ch, k))[i] = Rest(ch, k + 1)[i]
    <3> TAKE i \in 1..(Len(ch) - k)
    <3>1. i \in 1..(Len(Rest(ch, k)) - 1) /\ i + 1 \in 1..(Len(ch) - k + 1)
          /\ i \in 1..(Len(ch) - (k + 1) + 1)
      BY <1>1, <1>2
    <3>2. /\ Tail(Rest(ch, k))[i] = Rest(ch, k)[i + 1]
          /\ Rest(ch, k)[i + 1] = ch[(i + 1) + k - 1]
          /\ Rest(ch, k + 1)[i] = ch[i + (k + 1) - 1]
      BY <1>2, <1>3, <2>1, <3>1
    <3>3. (i + 1) + k - 1 = i + (k + 1) - 1
      BY <1>1
    <3> QED
      BY <3>2, <3>3
  <2>3. /\ Len(Tail(Rest(ch, k))) = Len(ch) - k
        /\ Len(Rest(ch, k + 1)) = Len(ch) - k
    <3>1. /\ (Len(ch) - k + 1) - 1 = Len(ch) - k
          /\ Len(ch) - (k + 1) + 1 = Len(ch) - k
      BY <1>1
    <3>2. Len(Tail(Rest(ch, k))) = (Len(ch) - k + 1) - 1
      BY <1>2, <2>1, Zenon
    <3> QED
      BY <1>3, <3>1, <3>2, Zenon
  <2>4. \A i \in 1..Len(Tail(Rest(ch, k))) : Tail(Rest(ch, k))[i] = Rest(ch, k + 1)[i]
    BY <2>2, <2>3
  <2> QED
    BY <1>3, <2>1, <2>3, <2>4, SeqEqual
<1> QED
  BY <1>1, <1>2, <1>4, <1>5

\* One change of a list ch is made.
LEMMA Advance ==
  ASSUME NEW S, NEW ch \in Seq(S), NEW k \in 1..Len(ch),
         todo = Rest(ch, k), op # "idle", Apply
  PROVE  /\ MayApply(ch[k])
         /\ store' = [store EXCEPT ![ch[k].at] = ch[k].put]
         /\ todo' = Rest(ch, k + 1)
         /\ op' = IF k = Len(ch) THEN "idle" ELSE op
         /\ op' = "idle" <=> todo' = <<>>
         /\ \A i \in DOMAIN todo' : todo'[i] \in S
<1>1. Len(ch) \in Nat
  OBVIOUS
<1>2. /\ Head(todo) = ch[k] /\ Tail(todo) = Rest(ch, k + 1)
      /\ Len(todo) = 1 <=> k = Len(ch)
  BY RestStep
<1>3. k + 1 \in 1..(Len(ch) + 1)
  BY <1>1
<1>4. /\ Rest(ch, k + 1) \in Seq(S)
      /\ Len(Rest(ch, k + 1)) = Len(ch) - (k + 1) + 1
  BY <1>3, RestIsSeq
<1>5. Rest(ch, k + 1) = <<>> <=> k = Len(ch)
  BY <1>1, <1>4
<1>6. todo' = Rest(ch, k + 1) /\ op' = IF k = Len(ch) THEN "idle" ELSE op
  BY <1>2 DEF Apply
<1>7. MayApply(ch[k]) /\ store' = [store EXCEPT ![ch[k].at] = ch[k].put]
  BY <1>2 DEF Apply
<1>8. \A i \in DOMAIN todo' : todo'[i] \in S
  BY <1>4, <1>6
<1> QED
  BY <1>5, <1>6, <1>7, <1>8

\* The rest from the first change on is the whole list.
LEMMA RestAll ==
  ASSUME NEW S, NEW ch \in Seq(S)
  PROVE  Rest(ch, 1) = ch
<1>1. Len(ch) \in Nat /\ 1 \in 1..(Len(ch) + 1)
  OBVIOUS
<1>2. /\ Rest(ch, 1) \in Seq(S)
      /\ Len(Rest(ch, 1)) = Len(ch) - 1 + 1
      /\ \A i \in 1..(Len(ch) - 1 + 1) : Rest(ch, 1)[i] = ch[i + 1 - 1]
  BY <1>1, RestIsSeq
<1>3. \A i \in 1..Len(ch) : Rest(ch, 1)[i] = ch[i]
  BY <1>1, <1>2
<1> QED
  BY <1>1, <1>2, <1>3, SeqEqual

\* The changes of a restore, one by one.
LEMMA RestoreList ==
  ASSUME NEW b \in Backups
  PROVE  /\ RestoreChanges(b) \in Seq(Change)
         /\ Len(RestoreChanges(b)) = 9
         /\ RestoreChanges(b)[1] = Put("marker", "preparing")
         /\ RestoreChanges(b)[2] = Put("pendingPrefs", None)
         /\ RestoreChanges(b)[3] = Put("pendingSources", None)
         /\ RestoreChanges(b)[4] = Put("payload", b)
         /\ RestoreChanges(b)[5] = Put("library", Torn)
         /\ RestoreChanges(b)[6] = Put("library", {b})
         /\ RestoreChanges(b)[7] = Put("pendingPrefs", {b})
         /\ RestoreChanges(b)[8] = Put("pendingSources", {b})
         /\ RestoreChanges(b)[9] = Put("marker", "ready")
<1>1. {b} \in Contents
  BY DEF Contents
<1>4. /\ Put("marker", "preparing") \in Change /\ Put("marker", "ready") \in Change
      /\ Put("pendingPrefs", None) \in Change /\ Put("pendingSources", None) \in Change
      /\ Put("payload", b) \in Change /\ Put("library", Torn) \in Change
      /\ Put("library", {b}) \in Change /\ Put("pendingPrefs", {b}) \in Change
      /\ Put("pendingSources", {b}) \in Change
  BY <1>1 DEF Put, Change, Places, PendingFiles, AccountFiles
<1> HIDE DEF Put, Change
<1> QED
  BY <1>4 DEF RestoreChanges, Delete

\* The changes of a Download-only.
LEMMA DownloadList ==
  ASSUME NEW d \in Contents
  PROVE  /\ DownloadChanges(d) \in Seq(Change)
         /\ Len(DownloadChanges(d)) = 11
         /\ DownloadChanges(d)[1] = Put("prefs", None)
         /\ DownloadChanges(d)[2] = Put("sources", None)
         /\ DownloadChanges(d)[3] = Put("stage", d)
         /\ DownloadChanges(d)[4] = Put("library", Torn)
         /\ DownloadChanges(d)[5] = Put("library", d)
         /\ DownloadChanges(d)[6] = Put("prefs", d)
         /\ DownloadChanges(d)[7] = Put("sources", d)
         /\ DownloadChanges(d)[8] = Put("envelope", d)
         /\ DownloadChanges(d)[9] = Put("stage", None)
         /\ DownloadChanges(d)[10] = Put("prefs", None)
         /\ DownloadChanges(d)[11] = Put("sources", None)
<1>3. /\ Put("prefs", None) \in Change /\ Put("sources", None) \in Change
      /\ Put("stage", d) \in Change /\ Put("library", Torn) \in Change
      /\ Put("library", d) \in Change /\ Put("prefs", d) \in Change
      /\ Put("sources", d) \in Change /\ Put("envelope", d) \in Change
      /\ Put("stage", None) \in Change
  BY DEF Put, Change, Places, PendingFiles, AccountFiles
<1> HIDE DEF Put, Change
<1> QED
  BY <1>3 DEF DownloadChanges, Delete

\* A concatenation is known by its parts.
LEMMA ConcatIs ==
  ASSUME NEW S, NEW s \in Seq(S), NEW t \in Seq(S), NEW u \in Seq(S),
         Len(u) = Len(s) + Len(t),
         \A j \in 1..Len(s) : u[j] = s[j],
         \A j \in 1..Len(t) : u[Len(s) + j] = t[j]
  PROVE  s \o t = u
<1>1. Len(s) \in Nat /\ Len(t) \in Nat
  OBVIOUS
<1>2. /\ s \o t \in Seq(S)
      /\ Len(s \o t) = Len(s) + Len(t)
      /\ \A j \in 1..Len(s) + Len(t) :
           (s \o t)[j] = IF j <= Len(s) THEN s[j] ELSE t[j - Len(s)]
  BY ConcatProperties
<1>3. \A j \in 1..Len(u) : (s \o t)[j] = u[j]
  <2> TAKE j \in 1..Len(u)
  <2>1. CASE j <= Len(s)
    BY <1>1, <1>2, <2>1
  <2>2. CASE ~ (j <= Len(s))
    <3>1. j - Len(s) \in 1..Len(t) /\ Len(s) + (j - Len(s)) = j
      BY <1>1, <2>2
    <3>2. (s \o t)[j] = t[j - Len(s)]
      BY <1>1, <1>2, <2>2
    <3>3. u[Len(s) + (j - Len(s))] = t[j - Len(s)]
      BY <3>1
    <3> QED
      BY <3>1, <3>2, <3>3
  <2> QED
    BY <2>1, <2>2
<1> QED
  BY <1>2, <1>3, SeqEqual

\* How the list of a sync is put together: upload, perhaps import, three account
\* files, four deletions.
LEMMA FourParts ==
  ASSUME NEW a, NEW b, NEW c, NEW d, NEW e, NEW f, NEW g, NEW h, NEW i
  PROVE  << a >> \o << b >> \o << c, d, e >> \o << f, g, h, i >>
           = << a, b, c, d, e, f, g, h, i >>
<1> DEFINE S == {a, b, c, d, e, f, g, h, i}
<1>0. /\ a \in S /\ b \in S /\ c \in S /\ d \in S /\ e \in S
      /\ f \in S /\ g \in S /\ h \in S /\ i \in S
  OBVIOUS
<1> HIDE DEF S
<1> USE <1>0
<1>1. << a >> \o << b >> = << a, b >>
  <2> DEFINE s == << a >>
             t == << b >>
             u == << a, b >>
  <2>1. s \in Seq(S) /\ t \in Seq(S) /\ u \in Seq(S)
        /\ Len(s) = 1 /\ Len(t) = 1 /\ Len(u) = 2
    OBVIOUS
  <2>2. /\ u[1] = s[1] /\ u[2] = t[1]
    OBVIOUS
  <2> HIDE DEF s, t, u
  <2>3. /\ Len(u) = Len(s) + Len(t)
        /\ \A j \in 1..Len(s) : u[j] = s[j]
        /\ \A j \in 1..Len(t) : u[Len(s) + j] = t[j]
    BY <2>1, <2>2
  <2>4. s \o t = u
    BY <2>1, <2>3, ConcatIs
  <2> QED
    BY <2>4 DEF s, t, u
<1>2. << a, b >> \o << c, d, e >> = << a, b, c, d, e >>
  <2> DEFINE s == << a, b >>
             t == << c, d, e >>
             u == << a, b, c, d, e >>
  <2>1. s \in Seq(S) /\ t \in Seq(S) /\ u \in Seq(S)
        /\ Len(s) = 2 /\ Len(t) = 3 /\ Len(u) = 5
    OBVIOUS
  <2>2. /\ u[1] = s[1] /\ u[2] = s[2] /\ u[3] = t[1] /\ u[4] = t[2] /\ u[5] = t[3]
    OBVIOUS
  <2> HIDE DEF s, t, u
  <2>3. /\ Len(u) = Len(s) + Len(t)
        /\ \A j \in 1..Len(s) : u[j] = s[j]
        /\ \A j \in 1..Len(t) : u[Len(s) + j] = t[j]
    BY <2>1, <2>2
  <2>4. s \o t = u
    BY <2>1, <2>3, ConcatIs
  <2> QED
    BY <2>4 DEF s, t, u
<1>4. << a, b, c, d, e >> \o << f, g, h, i >> = << a, b, c, d, e, f, g, h, i >>
  <2> DEFINE s == << a, b, c, d, e >>
             t == << f, g, h, i >>
             u == << a, b, c, d, e, f, g, h, i >>
  <2>1. s \in Seq(S) /\ t \in Seq(S) /\ u \in Seq(S)
        /\ Len(s) = 5 /\ Len(t) = 4 /\ Len(u) = 9
    OBVIOUS
  <2>2. /\ u[1] = s[1] /\ u[2] = s[2] /\ u[3] = s[3] /\ u[4] = s[4] /\ u[5] = s[5]
        /\ u[6] = t[1] /\ u[7] = t[2] /\ u[8] = t[3] /\ u[9] = t[4]
    OBVIOUS
  <2> HIDE DEF s, t, u
  <2>3. /\ Len(u) = Len(s) + Len(t)
        /\ \A j \in 1..Len(s) : u[j] = s[j]
        /\ \A j \in 1..Len(t) : u[Len(s) + j] = t[j]
    BY <2>1, <2>2
  <2>4. s \o t = u
    BY <2>1, <2>3, ConcatIs
  <2> QED
    BY <2>4 DEF s, t, u
<1> QED
  BY <1>1, <1>2, <1>4, Zenon

\* ... and without the import.
LEMMA ThreeParts ==
  ASSUME NEW a, NEW c, NEW d, NEW e, NEW f, NEW g, NEW h, NEW i
  PROVE  << a >> \o << >> \o << c, d, e >> \o << f, g, h, i >>
           = << a, c, d, e, f, g, h, i >>
<1> DEFINE S == {a, c, d, e, f, g, h, i}
<1>0. /\ a \in S /\ c \in S /\ d \in S /\ e \in S /\ f \in S
      /\ g \in S /\ h \in S /\ i \in S
  OBVIOUS
<1> HIDE DEF S
<1> USE <1>0
<1>3. << a >> \o << c, d, e >> = << a, c, d, e >>
  <2> DEFINE s == << a >>
             t == << c, d, e >>
             u == << a, c, d, e >>
  <2>1. s \in Seq(S) /\ t \in Seq(S) /\ u \in Seq(S)
        /\ Len(s) = 1 /\ Len(t) = 3 /\ Len(u) = 4
    OBVIOUS
  <2>2. /\ u[1] = s[1] /\ u[2] = t[1] /\ u[3] = t[2] /\ u[4] = t[3]
    OBVIOUS
  <2> HIDE DEF s, t, u
  <2>3. /\ Len(u) = Len(s) + Len(t)
        /\ \A j \in 1..Len(s) : u[j] = s[j]
        /\ \A j \in 1..Len(t) : u[Len(s) + j] = t[j]
    BY <2>1, <2>2
  <2>4. s \o t = u
    BY <2>1, <2>3, ConcatIs
  <2> QED
    BY <2>4 DEF s, t, u
<1>5. << a, c, d, e >> \o << f, g, h, i >> = << a, c, d, e, f, g, h, i >>
  <2> DEFINE s == << a, c, d, e >>
             t == << f, g, h, i >>
             u == << a, c, d, e, f, g, h, i >>
  <2>1. s \in Seq(S) /\ t \in Seq(S) /\ u \in Seq(S)
        /\ Len(s) = 4 /\ Len(t) = 4 /\ Len(u) = 8
    OBVIOUS
  <2>2. /\ u[1] = s[1] /\ u[2] = s[2] /\ u[3] = s[3] /\ u[4] = s[4] /\ u[5] = t[1]
        /\ u[6] = t[2] /\ u[7] = t[3] /\ u[8] = t[4]
    OBVIOUS
  <2> HIDE DEF s, t, u
  <2>3. /\ Len(u) = Len(s) + Len(t)
        /\ \A j \in 1..Len(s) : u[j] = s[j]
        /\ \A j \in 1..Len(t) : u[Len(s) + j] = t[j]
    BY <2>1, <2>2
  <2>4. s \o t = u
    BY <2>1, <2>3, ConcatIs
  <2> QED
    BY <2>4 DEF s, t, u
<1>6. << a >> \o << >> = << a >>
  <2>1. << a >> \in Seq(S)
    OBVIOUS
  <2> QED
    BY <2>1, ConcatEmptySeq
<1> QED
  BY <1>3, <1>5, <1>6, Zenon

\* A sync that does not import makes the changes of one that does but for the
\* second.
LEMMA SyncList ==
  ASSUME NEW m \in Contents
  PROVE  /\ FullSync(m) \in Seq(Change)
         /\ Len(FullSync(m)) = 9
         /\ FullSync(m)[1] = Put("server", m)
         /\ FullSync(m)[2] = Put("library", m)
         /\ FullSync(m)[3] = Put("prefs", m)
         /\ FullSync(m)[4] = Put("sources", m)
         /\ FullSync(m)[5] = Put("envelope", m)
         /\ FullSync(m)[6] = Put("payload", None)
         /\ FullSync(m)[7] = Put("pendingPrefs", None)
         /\ FullSync(m)[8] = Put("pendingSources", None)
         /\ FullSync(m)[9] = Put("marker", None)
         /\ UploadSync(m) \in Seq(Change)
         /\ Len(UploadSync(m)) = 8
         /\ UploadSync(m)[1] = Put("server", m)
         /\ Tail(UploadSync(m)) = Rest(FullSync(m), 3)
<1>3. /\ Put("server", m) \in Change /\ Put("library", m) \in Change
      /\ Put("prefs", m) \in Change /\ Put("sources", m) \in Change
      /\ Put("envelope", m) \in Change /\ Put("payload", None) \in Change
      /\ Put("pendingPrefs", None) \in Change
      /\ Put("pendingSources", None) \in Change /\ Put("marker", None) \in Change
  BY DEF Put, Change, Places, PendingFiles, AccountFiles
<1> HIDE DEF Put, Change
<1> DEFINE a == Put("server", m)
           b == Put("library", m)
           c == Put("prefs", m)
           d == Put("sources", m)
           e == Put("envelope", m)
           f == Put("payload", None)
           g == Put("pendingPrefs", None)
           h == Put("pendingSources", None)
           i == Put("marker", None)
<1>4. FullSync(m) = << a, b, c, d, e, f, g, h, i >>
  <2>1. FullSync(m) = << a >> \o << b >> \o << c, d, e >> \o << f, g, h, i >>
    BY Zenon DEF FullSync, SyncChanges, PendingCleared, Delete
  <2> HIDE DEF a, b, c, d, e, f, g, h, i
  <2>3. << a >> \o << b >> \o << c, d, e >> \o << f, g, h, i >>
          = << a, b, c, d, e, f, g, h, i >>
    BY ONLY FourParts
  <2> QED
    BY <2>1, <2>3
<1>5. UploadSync(m) = << a, c, d, e, f, g, h, i >>
  <2>1. UploadSync(m) = << a >> \o << >> \o << c, d, e >> \o << f, g, h, i >>
    BY Zenon DEF UploadSync, SyncChanges, PendingCleared, Delete
  <2> HIDE DEF a, b, c, d, e, f, g, h, i
  <2>3. << a >> \o << >> \o << c, d, e >> \o << f, g, h, i >>
          = << a, c, d, e, f, g, h, i >>
    BY ONLY ThreeParts
  <2> QED
    BY <2>1, <2>3
<1>6. /\ Tail(UploadSync(m)) \in Seq(Change) /\ Len(Tail(UploadSync(m))) = 7
      /\ \A n \in 1..7 : Tail(UploadSync(m))[n] = UploadSync(m)[n + 1]
  <2>1. /\ UploadSync(m) \in Seq(Change) /\ Len(UploadSync(m)) = 8
        /\ UploadSync(m) # << >>
    BY <1>3, <1>5
  <2>2. /\ Tail(UploadSync(m)) \in Seq(Change)
        /\ Len(Tail(UploadSync(m))) = Len(UploadSync(m)) - 1
        /\ \A n \in 1..(Len(UploadSync(m)) - 1) :
             Tail(UploadSync(m))[n] = UploadSync(m)[n + 1]
    BY <2>1, HeadTailProperties
  <2>3. Len(UploadSync(m)) - 1 = 7
    BY <2>1
  <2> QED
    BY <2>2, <2>3
<1>7. FullSync(m) \in Seq(Change) /\ Len(FullSync(m)) = 9
  BY <1>3, <1>4
<1>8. 3 \in 1..(Len(FullSync(m)) + 1)
  BY <1>7
<1>9. /\ Rest(FullSync(m), 3) \in Seq(Change)
      /\ Len(Rest(FullSync(m), 3)) = 7
      /\ \A n \in 1..7 : Rest(FullSync(m), 3)[n] = FullSync(m)[n + 2]
  <2>1. /\ Rest(FullSync(m), 3) \in Seq(Change)
        /\ Len(Rest(FullSync(m), 3)) = Len(FullSync(m)) - 3 + 1
        /\ \A n \in 1..(Len(FullSync(m)) - 3 + 1) :
             Rest(FullSync(m), 3)[n] = FullSync(m)[n + 3 - 1]
    BY <1>7, <1>8, RestIsSeq
  <2>2. Len(FullSync(m)) - 3 + 1 = 7
    BY <1>7
  <2>3. \A n \in 1..7 : n + 3 - 1 = n + 2
    OBVIOUS
  <2> QED
    BY <2>1, <2>2, <2>3
<1>10. Rest(FullSync(m), 3) = Tail(UploadSync(m))
  <2>1. \A n \in 1..7 : FullSync(m)[n + 2] = UploadSync(m)[n + 1]
    <3> TAKE n \in 1..7
    <3>1. n = 1 \/ n = 2 \/ n = 3 \/ n = 4 \/ n = 5 \/ n = 6 \/ n = 7
      OBVIOUS
    <3>2. /\ FullSync(m)[3] = UploadSync(m)[2] /\ FullSync(m)[4] = UploadSync(m)[3]
          /\ FullSync(m)[5] = UploadSync(m)[4] /\ FullSync(m)[6] = UploadSync(m)[5]
          /\ FullSync(m)[7] = UploadSync(m)[6] /\ FullSync(m)[8] = UploadSync(m)[7]
          /\ FullSync(m)[9] = UploadSync(m)[8]
      BY <1>4, <1>5
    <3> QED
      BY <3>1, <3>2
  <2>2. \A n \in 1..7 : Rest(FullSync(m), 3)[n] = Tail(UploadSync(m))[n]
    BY <1>6, <1>9, <2>1
  <2> DEFINE r == Rest(FullSync(m), 3)
             t == Tail(UploadSync(m))
  <2>3. /\ r \in Seq(Change) /\ t \in Seq(Change) /\ Len(r) = 7 /\ Len(t) = 7
        /\ \A n \in 1..7 : r[n] = t[n]
    BY <1>6, <1>9, <2>2
  <2> HIDE DEF r, t
  <2>4. r = t
    BY ONLY <2>3, SeqEqual
  <2> QED
    BY <2>4 DEF r, t
<1> QED
  BY <1>3, <1>4, <1>5, <1>7, <1>10

\* Only the place p changes, to v.
Becomes(p, v) ==
  /\ DOMAIN store' = Places
  /\ store'[p] = v
  /\ \A q \in Places : q # p => store'[q] = store[q]

\* A change at p that puts v.
LEMMA Changed ==
  ASSUME TypeOK, NEW p \in Places, NEW v, NEW c, c = Put(p, v),
         store' = [store EXCEPT ![c.at] = c.put]
  PROVE  Becomes(p, v)
  BY DEF TypeOK, Put, Becomes

\* The places by name.
LEMMA PlaceNames ==
  Places = {"payload", "pendingPrefs", "pendingSources", "envelope", "prefs",
            "sources", "marker", "stage", "library", "server"}
  BY DEF Places, PendingFiles, AccountFiles

\* A change of the lists keeps the types.
LEMMA TypeStep ==
  ASSUME TypeOK, op # "idle", NEW c \in Change,
         store' = [store EXCEPT ![c.at] = c.put],
         op' \in {"idle", op}, op' = "idle" <=> todo' = <<>>,
         \A i \in DOMAIN todo' : todo'[i] \in Change
  PROVE  TypeOK'
<1>0. \A x \in Change :
        \/ x.at = "marker" /\ x.put \in {None, "preparing", "ready"}
        \/ x.at = "payload" /\ x.put \in Backups \cup {None}
        \/ x.at = "library" /\ x.put \in {Torn} \cup Contents
        \/ x.at \in Places \ {"marker", "payload", "library"}
           /\ x.put \in {None} \cup Contents
  BY DEF Change
<1>1. \A x \in Change : x.at \in Places
  BY <1>0, PlaceNames
<1>2. DOMAIN store' = Places
  BY DEF TypeOK
<1>3. \A q \in Places : store'[q] = IF q = c.at THEN c.put ELSE store[q]
  BY DEF TypeOK
<1>4. /\ store'["marker"] \in {None, "preparing", "ready"}
      /\ store'["payload"] \in Backups \cup {None}
      /\ store'["library"] \in {Torn} \cup Contents
  BY <1>0, <1>3, PlaceNames DEF TypeOK
<1>5. \A p \in Places \ {"marker", "payload", "library"} :
        store'[p] \in {None} \cup Contents
  BY <1>0, <1>3 DEF TypeOK
<1>6. \A i \in DOMAIN todo' : todo'[i].at \in Places
  BY <1>1
<1> QED
  BY <1>2, <1>4, <1>5, <1>6 DEF TypeOK

\* A restore makes its next change.
LEMMA RestoreApply ==
  ASSUME LifecycleInv, op = "restore", Apply
  PROVE  LifecycleInv'
<1>1. PICK b \in Backups, k \in 1..9 : Restoring(b, k)
  BY DEF LifecycleInv
<1>2. RestoreChanges(b) \in Seq(Change) /\ Len(RestoreChanges(b)) = 9
  BY RestoreList
<1>3. /\ MayApply(RestoreChanges(b)[k])
      /\ store' = [store EXCEPT ![RestoreChanges(b)[k].at] = RestoreChanges(b)[k].put]
      /\ todo' = Rest(RestoreChanges(b), k + 1)
      /\ op' = IF k = 9 THEN "idle" ELSE op
      /\ op' = "idle" <=> todo' = <<>>
      /\ \A i \in DOMAIN todo' : todo'[i] \in Change
  <2> DEFINE ch == RestoreChanges(b)
  <2>1. ch \in Seq(Change) /\ Len(ch) = 9 /\ todo = Rest(ch, k) /\ op # "idle"
    BY <1>1, <1>2 DEF Restoring
  <2> HIDE DEF ch
  <2>2. k \in 1..Len(ch)
    BY <2>1
  <2>3. /\ MayApply(ch[k])
        /\ store' = [store EXCEPT ![ch[k].at] = ch[k].put]
        /\ todo' = Rest(ch, k + 1)
        /\ op' = IF k = Len(ch) THEN "idle" ELSE op
        /\ op' = "idle" <=> todo' = <<>>
        /\ \A i \in DOMAIN todo' : todo'[i] \in Change
    BY ONLY <2>1, <2>2, Apply, Advance
  <2> QED
    BY <2>1, <2>3 DEF ch
<1>4. TypeOK /\ StoreInv
  BY LifecycleAssumption DEF LifecycleInv, LifecycleAssumption, Contents
<1>5. TypeOK'
  <2> DEFINE c == RestoreChanges(b)[k]
  <2>1. c \in Change
    BY <1>2, ElementOfSeq
  <2>2. /\ store' = [store EXCEPT ![c.at] = c.put]
        /\ op # "idle" /\ op' \in {"idle", op}
    BY <1>3
  <2> HIDE DEF c
  <2> QED
    BY <1>3, <1>4, <2>1, <2>2, TypeStep
<1>6. \A p \in Places : \A v : RestoreChanges(b)[k] = Put(p, v) => Becomes(p, v)
  BY <1>3, <1>4, Changed
<1>7. SUFFICES StoreInv' /\ (k < 9 => Restoring(b, k + 1)')
  <2>1. k + 1 \in 1..9 \/ k = 9
    OBVIOUS
  <2> QED
    BY <1>3, <1>5, <2>1 DEF LifecycleInv
<1> USE LifecycleAssumption DEF LifecycleAssumption, Becomes, StoreInv, ReadyIsWhole,
      Complete, OnServer, Places, PendingFiles, AccountFiles, Restoring
<1>8. CASE k = 1
  <2>1. RestoreChanges(b)[k] = Put("marker", "preparing")
    BY <1>8, RestoreList
  <2>2. Becomes("marker", "preparing")
    BY <1>6, <2>1
  <2> QED
    BY <1>1, <1>3, <1>4, <1>8, <2>2
<1>9. CASE k = 2
  <2>1. RestoreChanges(b)[k] = Put("pendingPrefs", None)
    BY <1>9, RestoreList
  <2>2. Becomes("pendingPrefs", None)
    BY <1>6, <2>1
  <2> QED
    BY <1>1, <1>3, <1>4, <1>9, <2>2
<1>10. CASE k = 3
  <2>1. RestoreChanges(b)[k] = Put("pendingSources", None)
    BY <1>10, RestoreList
  <2>2. Becomes("pendingSources", None)
    BY <1>6, <2>1
  <2> QED
    BY <1>1, <1>3, <1>4, <1>10, <2>2
<1>11. CASE k = 4
  <2>1. RestoreChanges(b)[k] = Put("payload", b)
    BY <1>11, RestoreList
  <2>2. Becomes("payload", b)
    BY <1>6, <2>1
  <2> QED
    BY <1>1, <1>3, <1>4, <1>11, <2>2
<1>12. CASE k = 5
  <2>1. RestoreChanges(b)[k] = Put("library", Torn)
    BY <1>12, RestoreList
  <2>2. Becomes("library", Torn)
    BY <1>6, <2>1
  <2> QED
    BY <1>1, <1>3, <1>4, <1>12, <2>2
<1>13. CASE k = 6
  <2>1. RestoreChanges(b)[k] = Put("library", {b})
    BY <1>13, RestoreList
  <2>2. Becomes("library", {b})
    BY <1>6, <2>1
  <2> QED
    BY <1>1, <1>3, <1>4, <1>13, <2>2
<1>14. CASE k = 7
  <2>1. RestoreChanges(b)[k] = Put("pendingPrefs", {b})
    BY <1>14, RestoreList
  <2>2. Becomes("pendingPrefs", {b})
    BY <1>6, <2>1
  <2> QED
    BY <1>1, <1>3, <1>4, <1>14, <2>2
<1>15. CASE k = 8
  <2>1. RestoreChanges(b)[k] = Put("pendingSources", {b})
    BY <1>15, RestoreList
  <2>2. Becomes("pendingSources", {b})
    BY <1>6, <2>1
  <2> QED
    BY <1>1, <1>3, <1>4, <1>15, <2>2
<1>16. CASE k = 9
  <2>1. RestoreChanges(b)[k] = Put("marker", "ready")
    BY <1>16, RestoreList
  <2>2. Becomes("marker", "ready")
    BY <1>6, <2>1
  <2>3. /\ store'["library"] = {b} /\ store'["payload"] = b
        /\ store'["pendingPrefs"] = {b} /\ store'["pendingSources"] = {b}
    BY <1>1, <1>16, <2>2
  <2>4. {b} # Torn
    OBVIOUS
  <2> QED
    BY ONLY <1>16, <2>3, <2>4, k \in 1..9 DEF StoreInv, ReadyIsWhole, OnServer
<1> QED
  BY <1>8, <1>9, <1>10, <1>11, <1>12, <1>13, <1>14, <1>15, <1>16

\* A Download-only makes its next change.
LEMMA DownloadApply ==
  ASSUME LifecycleInv, op = "download", Apply
  PROVE  LifecycleInv'
<1>1. PICK d \in Contents, k \in 1..11 : Downloading(d, k)
  BY DEF LifecycleInv
<1>2. DownloadChanges(d) \in Seq(Change) /\ Len(DownloadChanges(d)) = 11
  BY DownloadList
<1>3. /\ MayApply(DownloadChanges(d)[k])
      /\ store' = [store EXCEPT ![DownloadChanges(d)[k].at] = DownloadChanges(d)[k].put]
      /\ todo' = Rest(DownloadChanges(d), k + 1)
      /\ op' = IF k = 11 THEN "idle" ELSE op
      /\ op' = "idle" <=> todo' = <<>>
      /\ \A i \in DOMAIN todo' : todo'[i] \in Change
  <2> DEFINE ch == DownloadChanges(d)
  <2>1. ch \in Seq(Change) /\ Len(ch) = 11 /\ todo = Rest(ch, k) /\ op # "idle"
    BY <1>1, <1>2 DEF Downloading
  <2> HIDE DEF ch
  <2>2. k \in 1..Len(ch)
    BY <2>1
  <2>3. /\ MayApply(ch[k])
        /\ store' = [store EXCEPT ![ch[k].at] = ch[k].put]
        /\ todo' = Rest(ch, k + 1)
        /\ op' = IF k = Len(ch) THEN "idle" ELSE op
        /\ op' = "idle" <=> todo' = <<>>
        /\ \A i \in DOMAIN todo' : todo'[i] \in Change
    BY ONLY <2>1, <2>2, Apply, Advance
  <2> QED
    BY <2>1, <2>3 DEF ch
<1>4. TypeOK /\ StoreInv /\ d # None /\ d # Torn
  BY LifecycleAssumption DEF LifecycleInv, LifecycleAssumption, Contents
<1>5. TypeOK'
  <2> DEFINE c == DownloadChanges(d)[k]
  <2>1. c \in Change
    BY <1>2, ElementOfSeq
  <2>2. /\ store' = [store EXCEPT ![c.at] = c.put]
        /\ op # "idle" /\ op' \in {"idle", op}
    BY <1>3
  <2> HIDE DEF c
  <2> QED
    BY <1>3, <1>4, <2>1, <2>2, TypeStep
<1>6. \A p \in Places : \A v : DownloadChanges(d)[k] = Put(p, v) => Becomes(p, v)
  BY <1>3, <1>4, Changed
<1>7. SUFFICES StoreInv' /\ (k < 11 => Downloading(d, k + 1)')
  <2>1. k + 1 \in 1..11 \/ k = 11
    OBVIOUS
  <2> QED
    BY <1>3, <1>5, <2>1 DEF LifecycleInv
<1> USE LifecycleAssumption DEF LifecycleAssumption, Becomes, StoreInv, ReadyIsWhole,
      Complete, OnServer, Places, PendingFiles, AccountFiles, Downloading
<1>8. CASE k = 1
  <2>1. DownloadChanges(d)[k] = Put("prefs", None)
    BY <1>8, DownloadList
  <2>2. Becomes("prefs", None)
    BY <1>6, <2>1
  <2> QED
    BY <1>1, <1>3, <1>4, <1>8, <2>2
<1>9. CASE k = 2
  <2>1. DownloadChanges(d)[k] = Put("sources", None)
    BY <1>9, DownloadList
  <2>2. Becomes("sources", None)
    BY <1>6, <2>1
  <2> QED
    BY <1>1, <1>3, <1>4, <1>9, <2>2
<1>10. CASE k = 3
  <2>1. DownloadChanges(d)[k] = Put("stage", d)
    BY <1>10, DownloadList
  <2>2. Becomes("stage", d)
    BY <1>6, <2>1
  <2> QED
    BY <1>1, <1>3, <1>4, <1>10, <2>2
<1>11. CASE k = 4
  <2>1. DownloadChanges(d)[k] = Put("library", Torn)
    BY <1>11, DownloadList
  <2>2. Becomes("library", Torn)
    BY <1>6, <2>1
  <2> QED
    BY <1>1, <1>3, <1>4, <1>11, <2>2
<1>12. CASE k = 5
  <2>1. DownloadChanges(d)[k] = Put("library", d)
    BY <1>12, DownloadList
  <2>2. Becomes("library", d)
    BY <1>6, <2>1
  <2> QED
    BY <1>1, <1>3, <1>4, <1>12, <2>2
<1>13. CASE k = 6
  <2>1. DownloadChanges(d)[k] = Put("prefs", d)
    BY <1>13, DownloadList
  <2>2. Becomes("prefs", d)
    BY <1>6, <2>1
  <2> QED
    BY <1>1, <1>3, <1>4, <1>13, <2>2
<1>14. CASE k = 7
  <2>1. DownloadChanges(d)[k] = Put("sources", d)
    BY <1>14, DownloadList
  <2>2. Becomes("sources", d)
    BY <1>6, <2>1
  <2> QED
    BY <1>1, <1>3, <1>4, <1>14, <2>2
<1>15. CASE k = 8
  <2>1. DownloadChanges(d)[k] = Put("envelope", d)
    BY <1>15, DownloadList
  <2>2. Becomes("envelope", d)
    BY <1>6, <2>1
  <2> QED
    BY <1>1, <1>3, <1>4, <1>15, <2>2
<1>16. CASE k = 9
  <2>1. DownloadChanges(d)[k] = Put("stage", None)
    BY <1>16, DownloadList
  <2>2. Becomes("stage", None)
    BY <1>6, <2>1
  <2> QED
    BY <1>1, <1>3, <1>4, <1>16, <2>2
<1>17. CASE k = 10
  <2>1. DownloadChanges(d)[k] = Put("prefs", None)
    BY <1>17, DownloadList
  <2>2. Becomes("prefs", None)
    BY <1>6, <2>1
  <2> QED
    BY <1>1, <1>3, <1>4, <1>17, <2>2
<1>18. CASE k = 11
  <2>1. DownloadChanges(d)[k] = Put("sources", None)
    BY <1>18, DownloadList
  <2>2. Becomes("sources", None)
    BY <1>6, <2>1
  <2> QED
    BY <1>1, <1>3, <1>4, <1>18, <2>2
<1> QED
  BY <1>8, <1>9, <1>10, <1>11, <1>12, <1>13, <1>14, <1>15, <1>16, <1>17, <1>18

\* A sync makes its next change.
LEMMA SyncApply ==
  ASSUME LifecycleInv, op = "sync", Apply,
         NEW m \in Contents, NEW k \in 1..9, Syncing(m, k),
         todo = Rest(FullSync(m), k)
  PROVE  LifecycleInv'
<1>1. Syncing(m, k)
  OBVIOUS
<1>2. FullSync(m) \in Seq(Change) /\ Len(FullSync(m)) = 9
  BY SyncList
<1>3. /\ MayApply(FullSync(m)[k])
      /\ store' = [store EXCEPT ![FullSync(m)[k].at] = FullSync(m)[k].put]
      /\ todo' = Rest(FullSync(m), k + 1)
      /\ op' = IF k = 9 THEN "idle" ELSE op
      /\ op' = "idle" <=> todo' = <<>>
      /\ \A i \in DOMAIN todo' : todo'[i] \in Change
  <2> DEFINE ch == FullSync(m)
  <2>1. ch \in Seq(Change) /\ Len(ch) = 9 /\ todo = Rest(ch, k) /\ op # "idle"
    BY <1>1, <1>2 DEF Syncing
  <2> HIDE DEF ch
  <2>2. k \in 1..Len(ch)
    BY <2>1
  <2>3. /\ MayApply(ch[k])
        /\ store' = [store EXCEPT ![ch[k].at] = ch[k].put]
        /\ todo' = Rest(ch, k + 1)
        /\ op' = IF k = Len(ch) THEN "idle" ELSE op
        /\ op' = "idle" <=> todo' = <<>>
        /\ \A i \in DOMAIN todo' : todo'[i] \in Change
    BY ONLY <2>1, <2>2, Apply, Advance
  <2> QED
    BY <2>1, <2>3 DEF ch
<1>4. TypeOK /\ StoreInv /\ m # None /\ m # Torn
  BY LifecycleAssumption DEF LifecycleInv, LifecycleAssumption, Contents
<1>5. TypeOK'
  <2> DEFINE c == FullSync(m)[k]
  <2>1. c \in Change
    BY <1>2, ElementOfSeq
  <2>2. /\ store' = [store EXCEPT ![c.at] = c.put]
        /\ op # "idle" /\ op' \in {"idle", op}
    BY <1>3
  <2> HIDE DEF c
  <2> QED
    BY <1>3, <1>4, <2>1, <2>2, TypeStep
<1>6. \A p \in Places : \A v : FullSync(m)[k] = Put(p, v) => Becomes(p, v)
  BY <1>3, <1>4, Changed
<1>7. SUFFICES StoreInv' /\ (k < 9 => Syncing(m, k + 1)')
  <2>1. k + 1 \in 1..9 \/ k = 9
    OBVIOUS
  <2> QED
    BY <1>3, <1>5, <2>1 DEF LifecycleInv
<1> USE LifecycleAssumption DEF LifecycleAssumption, Becomes, StoreInv, ReadyIsWhole,
      Complete, OnServer, Places, PendingFiles, AccountFiles, Syncing
<1>8. CASE k = 1
  <2>1. FullSync(m)[k] = Put("server", m)
    BY <1>8, SyncList
  <2>2. Becomes("server", m)
    BY <1>6, <2>1
  <2> QED
    BY <1>1, <1>3, <1>4, <1>8, <2>2
<1>9. CASE k = 2
  <2>1. FullSync(m)[k] = Put("library", m)
    BY <1>9, SyncList
  <2>2. Becomes("library", m)
    BY <1>6, <2>1
  <2> QED
    BY <1>1, <1>3, <1>4, <1>9, <2>2
<1>10. CASE k = 3
  <2>1. FullSync(m)[k] = Put("prefs", m)
    BY <1>10, SyncList
  <2>2. Becomes("prefs", m)
    BY <1>6, <2>1
  <2> QED
    BY <1>1, <1>3, <1>4, <1>10, <2>2
<1>11. CASE k = 4
  <2>1. FullSync(m)[k] = Put("sources", m)
    BY <1>11, SyncList
  <2>2. Becomes("sources", m)
    BY <1>6, <2>1
  <2> QED
    BY <1>1, <1>3, <1>4, <1>11, <2>2
<1>12. CASE k = 5
  <2>1. FullSync(m)[k] = Put("envelope", m)
    BY <1>12, SyncList
  <2>2. Becomes("envelope", m)
    BY <1>6, <2>1
  <2> QED
    BY <1>1, <1>3, <1>4, <1>12, <2>2
<1>13. CASE k = 6
  <2>1. FullSync(m)[k] = Put("payload", None)
    BY <1>13, SyncList
  <2>2. Becomes("payload", None)
    BY <1>6, <2>1
  <2> QED
    BY <1>1, <1>3, <1>4, <1>13, <2>2
<1>14. CASE k = 7
  <2>1. FullSync(m)[k] = Put("pendingPrefs", None)
    BY <1>14, SyncList
  <2>2. Becomes("pendingPrefs", None)
    BY <1>6, <2>1
  <2> QED
    BY <1>1, <1>3, <1>4, <1>14, <2>2
<1>15. CASE k = 8
  <2>1. FullSync(m)[k] = Put("pendingSources", None)
    BY <1>15, SyncList
  <2>2. Becomes("pendingSources", None)
    BY <1>6, <2>1
  <2> QED
    BY <1>1, <1>3, <1>4, <1>15, <2>2
<1>16. CASE k = 9
  <2>1. FullSync(m)[k] = Put("marker", None)
    BY <1>16, SyncList
  <2>2. Becomes("marker", None)
    BY <1>6, <2>1
  <2> QED
    BY <1>1, <1>3, <1>4, <1>16, <2>2
<1> QED
  BY <1>8, <1>9, <1>10, <1>11, <1>12, <1>13, <1>14, <1>15, <1>16

\* A sync that does not import uploads, and goes on as one that has imported.
LEMMA UploadApply ==
  ASSUME LifecycleInv, op = "sync", Apply, NEW m \in Contents,
         Syncing(m, 1), todo = UploadSync(m)
  PROVE  LifecycleInv'
<1>1. /\ UploadSync(m) \in Seq(Change) /\ Len(UploadSync(m)) = 8
      /\ UploadSync(m)[1] = Put("server", m)
      /\ Tail(UploadSync(m)) = Rest(FullSync(m), 3)
  BY SyncList
<1>2. Rest(UploadSync(m), 1) = UploadSync(m)
  BY <1>1, RestAll
<1> DEFINE ch == UploadSync(m)
<1>3. /\ store' = [store EXCEPT ![ch[1].at] = ch[1].put]
      /\ todo' = Rest(ch, 2) /\ op' = op
      /\ op' = "idle" <=> todo' = <<>>
      /\ \A i \in DOMAIN todo' : todo'[i] \in Change
  <2>1. 1 \in 1..Len(ch) /\ todo = Rest(ch, 1) /\ op # "idle" /\ 1 # Len(ch)
    BY <1>1, <1>2
  <2> HIDE DEF ch
  <2>2. /\ store' = [store EXCEPT ![ch[1].at] = ch[1].put]
        /\ todo' = Rest(ch, 1 + 1)
        /\ op' = IF 1 = Len(ch) THEN "idle" ELSE op
        /\ op' = "idle" <=> todo' = <<>>
        /\ \A i \in DOMAIN todo' : todo'[i] \in Change
    <3> DEFINE k == 1
    <3>1. k \in 1..Len(ch) /\ todo = Rest(ch, k) /\ ch \in Seq(Change)
      BY <1>1, <2>1 DEF ch
    <3> HIDE DEF k
    <3>2. /\ store' = [store EXCEPT ![ch[k].at] = ch[k].put]
          /\ todo' = Rest(ch, k + 1)
          /\ op' = IF k = Len(ch) THEN "idle" ELSE op
          /\ op' = "idle" <=> todo' = <<>>
          /\ \A i \in DOMAIN todo' : todo'[i] \in Change
      BY ONLY <2>1, <3>1, Apply, Advance
    <3> QED
      BY <3>2 DEF k
  <2> QED
    BY <2>1, <2>2
<1>4. Rest(ch, 2) = Rest(FullSync(m), 3)
  <2>1. 1 \in 1..Len(ch)
    BY <1>1
  <2>2. Tail(Rest(ch, 1)) = Rest(ch, 1 + 1)
    BY <1>1, <2>1, RestStep
  <2>3. 1 + 1 = 2
    OBVIOUS
  <2>4. Rest(ch, 1 + 1) = Rest(FullSync(m), 3)
    BY <1>1, <1>2, <2>2, Zenon
  <2> QED
    BY <2>3, <2>4, Zenon
<1>5. TypeOK /\ StoreInv /\ m # None /\ m # Torn
  BY LifecycleAssumption DEF LifecycleInv, LifecycleAssumption, Contents
<1>6. TypeOK'
  <2> DEFINE c == ch[1]
  <2>1. c \in Change
    <3>1. 1 \in 1..Len(ch)
      BY <1>1
    <3> QED
      BY <1>1, <3>1, ElementOfSeq
  <2>2. /\ store' = [store EXCEPT ![c.at] = c.put]
        /\ op # "idle" /\ op' \in {"idle", op}
    BY <1>3
  <2> HIDE DEF c, ch
  <2> QED
    BY <1>3, <1>5, <2>1, <2>2, TypeStep
<1>7. Becomes("server", m)
  <2>1. "server" \in Places
    BY PlaceNames
  <2>2. ch[1] = Put("server", m)
    BY <1>1
  <2> HIDE DEF ch
  <2> QED
    BY <1>3, <1>5, <2>1, <2>2, Changed
<1>8. StoreInv' /\ Syncing(m, 3)'
  BY <1>3, <1>4, <1>5, <1>7
     DEF Becomes, StoreInv, ReadyIsWhole, Complete, OnServer, Places, PendingFiles,
         AccountFiles, Syncing
<1> QED
  BY <1>3, <1>6, <1>8 DEF LifecycleInv

\* LifecycleInv holds at the first start.
LEMMA LifecycleInit == Init => LifecycleInv
<1> SUFFICES ASSUME Init PROVE LifecycleInv
  OBVIOUS
<1> USE LifecycleAssumption DEF LifecycleAssumption
<1>1. PICK server \in {None, {}}, pending \in Backups \cup {None} :
        store = [p \in Places |->
                   CASE p = "server" -> server
                     [] p = "payload" -> pending
                     [] p = "library" -> {pending} \ {None}
                     [] OTHER -> None]
  BY DEF Init
<1>2. /\ DOMAIN store = Places
      /\ store["server"] = server /\ store["payload"] = pending
      /\ store["library"] = {pending} \ {None}
      /\ \A p \in Places \ {"server", "payload", "library"} : store[p] = None
  BY <1>1, PlaceNames
<1>3. {} \in Contents /\ {pending} \ {None} \in Contents
  BY DEF Contents
<1>4. store["library"] # Torn
  BY <1>2, <1>3 DEF Contents
<1>5. TypeOK
  <2>1. \A p \in Places \ {"marker", "payload", "library"} :
          store[p] \in {None} \cup Contents
    BY <1>2, <1>3
  <2>2. /\ store["marker"] = None
        /\ store["payload"] \in Backups \cup {None}
        /\ store["library"] \in Contents
    BY <1>2, <1>3, PlaceNames
  <2> QED
    BY <1>2, <2>1, <2>2 DEF TypeOK, Init
<1>6. StoreInv
  BY <1>2, <1>4, PlaceNames DEF StoreInv, ReadyIsWhole, OnServer
<1> QED
  BY <1>5, <1>6 DEF LifecycleInv, Init

\* An operation that starts leaves the files alone.
LEMMA BeginTypes ==
  ASSUME LifecycleInv, NEW name \in {"restore", "download", "sync"},
         NEW ch \in Seq(Change), ch # << >>, Begin(name, ch), UNCHANGED store
  PROVE  /\ TypeOK' /\ StoreInv' /\ op' = name /\ Rest(ch, 1) = todo'
<1>1. \A i \in DOMAIN ch : ch[i].at \in Places
  <2>1. \A x \in Change : x.at \in Places
    BY PlaceNames DEF Change
  <2> QED
    BY <2>1
<1>2. op' = name /\ todo' = ch
  BY DEF Begin
<1>3. TypeOK'
  BY <1>1, <1>2 DEF LifecycleInv, TypeOK
<1>4. StoreInv'
  BY DEF LifecycleInv, StoreInv, ReadyIsWhole, Complete, OnServer
<1> QED
  BY <1>2, <1>3, <1>4, RestAll

\* Merged holds the pending restore and what the server has.
LEMMA MergedHolds ==
  ASSUME TypeOK
  PROVE  /\ Merged \in Contents
         /\ store["payload"] \in Merged \cup {None}
         /\ OnServer \subseteq Merged
<1>1. store["payload"] \in Backups \cup {None}
  BY DEF TypeOK
<1>2. store["server"] \in {None} \cup Contents
  BY PlaceNames DEF TypeOK
<1> QED
  BY <1>1, <1>2 DEF Merged, Contents, OnServer

\* Every step keeps LifecycleInv.
LEMMA LifecycleStep == LifecycleInv /\ [Next]_vars => LifecycleInv'
<1> SUFFICES ASSUME LifecycleInv, [Next]_vars PROVE LifecycleInv'
  OBVIOUS
<1>1. ASSUME NEW b \in Backups, StartRestore(b) PROVE LifecycleInv'
  <2>1. RestoreChanges(b) \in Seq(Change) /\ RestoreChanges(b) # << >>
    <3>1. RestoreChanges(b) \in Seq(Change) /\ Len(RestoreChanges(b)) = 9
      BY RestoreList
    <3>2. Len(<< >>) # 9
      OBVIOUS
    <3> HIDE DEF RestoreChanges
    <3>3. RestoreChanges(b) # << >>
      BY <3>1, <3>2
    <3> QED
      BY <3>1, <3>3
  <2>2. TypeOK' /\ StoreInv' /\ op' = "restore" /\ Rest(RestoreChanges(b), 1) = todo'
    BY <1>1, <2>1, BeginTypes DEF StartRestore
  <2>3. Restoring(b, 1)'
    BY <2>2 DEF Restoring
  <2> QED
    BY <2>2, <2>3 DEF LifecycleInv
<1>2. CASE StartDownload
  <2>1. store["server"] \in Contents
    BY <1>2, PlaceNames DEF StartDownload, LifecycleInv, TypeOK
  <2>2. /\ DownloadChanges(store["server"]) \in Seq(Change)
        /\ DownloadChanges(store["server"]) # << >>
    <3> DEFINE ch == DownloadChanges(store["server"])
    <3>1. ch \in Seq(Change) /\ Len(ch) = 11
      BY <2>1, DownloadList
    <3> HIDE DEF ch
    <3>2. ch # << >>
      BY <3>1
    <3> QED
      BY <3>1, <3>2 DEF ch
  <2>3. /\ TypeOK' /\ StoreInv' /\ op' = "download"
        /\ Rest(DownloadChanges(store["server"]), 1) = todo'
    BY <1>2, <2>2, BeginTypes DEF StartDownload
  <2>4. store["marker"] # "preparing"
    BY <1>2 DEF StartDownload, Phase
  <2>5. Downloading(store["server"], 1)'
    BY <1>2, <2>3, <2>4 DEF Downloading, StartDownload
  <2>6. UNCHANGED store
    BY <1>2 DEF StartDownload
  <2>7. \E d \in Contents, k \in 1..11 : Downloading(d, k)'
    BY <2>1, <2>5, <2>6
  <2> QED
    BY <2>3, <2>7 DEF LifecycleInv
<1>3. ASSUME NEW import \in BOOLEAN, StartSync(import) PROVE LifecycleInv'
  <2>1. /\ Merged \in Contents
        /\ store["payload"] \in Merged \cup {None}
        /\ OnServer \subseteq Merged
    BY MergedHolds DEF LifecycleInv
  <2>2. PICK m \in Contents : m = Merged
    BY <2>1
  <2>3. \/ SyncChanges(Merged, import) = FullSync(m)
        \/ SyncChanges(Merged, import) = UploadSync(m)
    BY <2>2, Zenon DEF FullSync, UploadSync
  <2>4. /\ store["marker"] # "preparing" /\ store["stage"] = None
        /\ UNCHANGED store
    BY <1>3 DEF StartSync, Syncable, Phase
  <2>5. store["library"] # Torn
    BY <2>4 DEF LifecycleInv, StoreInv
  <2>6. /\ FullSync(m) \in Seq(Change) /\ FullSync(m) # << >>
        /\ UploadSync(m) \in Seq(Change) /\ UploadSync(m) # << >>
    BY SyncList
  <2>7. PICK ch \in {FullSync(m), UploadSync(m)} : Begin("sync", ch)
    BY <1>3, <2>3 DEF StartSync
  <2>8. ch \in Seq(Change) /\ ch # << >>
    BY <2>6, <2>7
  <2>9. TypeOK' /\ StoreInv' /\ op' = "sync" /\ Rest(ch, 1) = todo' /\ todo' = ch
    BY <2>4, <2>7, <2>8, BeginTypes DEF Begin
  <2>10. Syncing(m, 1)'
    BY <2>1, <2>2, <2>4, <2>5, <2>7, <2>9 DEF Syncing, OnServer
  <2> QED
    BY <2>9, <2>10 DEF LifecycleInv
<1>4. CASE Apply
  <2>1. op \in {"restore", "download", "sync"}
    BY <1>4 DEF LifecycleInv, TypeOK, Apply
  <2>2. CASE op = "restore"
    BY <1>4, <2>2, RestoreApply
  <2>3. CASE op = "download"
    BY <1>4, <2>3, DownloadApply
  <2>4. CASE op = "sync"
    <3>1. PICK m \in Contents, k \in 1..9 : Syncing(m, k)
      BY <2>4 DEF LifecycleInv
    <3>2. CASE todo = Rest(FullSync(m), k)
      BY <1>4, <2>4, <3>1, <3>2, SyncApply
    <3>3. CASE k = 1 /\ todo = UploadSync(m)
      BY <1>4, <2>4, <3>1, <3>3, UploadApply
    <3> QED
      BY <3>1, <3>2, <3>3 DEF Syncing
  <2> QED
    BY <2>1, <2>2, <2>3, <2>4
<1>5. CASE Interrupt
  <2>1. TypeOK'
    BY <1>5 DEF LifecycleInv, TypeOK, Interrupt
  <2>2. StoreInv'
    BY <1>5 DEF LifecycleInv, StoreInv, ReadyIsWhole, Complete, OnServer, Interrupt
  <2> QED
    BY <1>5, <2>1, <2>2 DEF LifecycleInv, Interrupt
<1>6. CASE UNCHANGED vars
  <2>1. TypeOK'
    BY <1>6 DEF LifecycleInv, TypeOK, vars
  <2>2. StoreInv'
    BY <1>6 DEF LifecycleInv, StoreInv, ReadyIsWhole, Complete, OnServer, vars
  <2>3. \A b, k : Restoring(b, k) => Restoring(b, k)'
    BY <1>6 DEF Restoring, vars
  <2>4. \A d, k : Downloading(d, k) => Downloading(d, k)'
    BY <1>6 DEF Downloading, vars
  <2>5. \A m, k : Syncing(m, k) => Syncing(m, k)'
    BY <1>6 DEF Syncing, OnServer, vars
  <2> QED
    BY <1>6, <2>1, <2>2, <2>3, <2>4, <2>5 DEF LifecycleInv, vars
<1> QED
  BY <1>1, <1>2, <1>3, <1>4, <1>5, <1>6 DEF Next

\* Where each operation stands, and what an accident leaves behind, for every
\* set of backups.
THEOREM LifecycleCorrect == Spec => []LifecycleInv
  BY LifecycleInit, LifecycleStep, PTL DEF Spec

\* A sync that is let in never finds a library torn by a restore or a
\* Download-only, nor one with data that is neither pending nor uploaded
\* (restore.dart:369-371).
THEOREM SyncsWholeLibraries == Spec => []SyncSeesWhole
<1>1. LifecycleInv => SyncSeesWhole
  BY DEF LifecycleInv, StoreInv, SyncSeesWhole, Syncable, Phase, OnServer
<1> QED
  BY <1>1, LifecycleCorrect, PTL

\* A restore marked ready has the projection baselines of its own payload.
THEOREM ReadyRestoresAreWhole == Spec => []ReadyIsWhole
<1>1. LifecycleInv => ReadyIsWhole
  BY DEF LifecycleInv, StoreInv
<1> QED
  BY <1>1, LifecycleCorrect, PTL

\* What a change says.
LEMMA PutFields == \A p, v : Put(p, v).at = p /\ Put(p, v).put = v
  BY DEF Put

\* A sync drops a pending restore only after the server, both baselines and the
\* envelope include it (cross_device_sync_engine.dart:504-507).
THEOREM RestoresAreAcknowledged == Spec => RestoreAcknowledged
<1>1. LifecycleInv /\ [Next]_vars =>
        LET b == store["payload"] IN
        op = "sync" /\ b # None /\ store'["payload"] # b =>
          \A p \in AccountFiles \cup {"server"} : store[p] # None /\ b \in store[p]
  <2> SUFFICES ASSUME LifecycleInv, [Next]_vars, op = "sync",
                      store["payload"] # None, store'["payload"] # store["payload"]
               PROVE  \A p \in AccountFiles \cup {"server"} :
                        store[p] # None /\ store["payload"] \in store[p]
    OBVIOUS
  <2>1. Apply
    BY DEF Next, Begin, StartRestore, StartDownload, StartSync, Interrupt, vars
  <2>2. PICK m \in Contents, k \in 1..9 : Syncing(m, k)
    BY DEF LifecycleInv
  <2>3. "payload" \in Places /\ TypeOK
    BY PlaceNames DEF LifecycleInv
  <2>4. todo = Rest(FullSync(m), k)
    <3>1. CASE todo = UploadSync(m)
      <4>1. Head(todo) = Put("server", m)
        BY <3>1, SyncList
      <4> QED
        BY <2>1, <2>3, <4>1 DEF Apply, TypeOK, Put
    <3> QED
      BY <2>2, <3>1 DEF Syncing
  <2>5. k = 6
    <3>1. Head(todo) = FullSync(m)[k]
      <4> DEFINE ch == FullSync(m)
      <4>1. ch \in Seq(Change) /\ k \in 1..Len(ch) /\ todo = Rest(ch, k)
        BY <2>4, SyncList
      <4> HIDE DEF ch
      <4>2. Head(todo) = ch[k]
        BY <4>1, RestStep
      <4> QED
        BY <4>2 DEF ch
    <3>2. Head(todo).at = "payload"
      BY <2>1, <2>3 DEF Apply, TypeOK
    <3>3. \/ k = 1 \/ k = 2 \/ k = 3 \/ k = 4 \/ k = 5 \/ k = 6 \/ k = 7 \/ k = 8 \/ k = 9
      OBVIOUS
    <3> QED
      BY <3>1, <3>2, <3>3, SyncList, PutFields, SMTT(30)
  <2>6. m # None
    BY LifecycleAssumption DEF LifecycleAssumption, Contents
  <2> QED
    BY <2>2, <2>5, <2>6 DEF Syncing, AccountFiles
<1> QED
  BY <1>1, LifecycleCorrect, PTL DEF Spec, RestoreAcknowledged

\* The envelope of the account is replaced only when both baselines that go
\* with it are in place (cross_device_sync_engine.dart:504).
THEOREM EnvelopesComeLast == Spec => EnvelopeActivatedLast
<1>1. LifecycleInv /\ [Next]_vars =>
        (store'["envelope"] # store["envelope"] =>
           /\ store["prefs"] = store'["envelope"]
           /\ store["sources"] = store'["envelope"])
  <2> SUFFICES ASSUME LifecycleInv, [Next]_vars, store'["envelope"] # store["envelope"]
               PROVE  /\ store["prefs"] = store'["envelope"]
                      /\ store["sources"] = store'["envelope"]
    OBVIOUS
  <2>1. Apply
    BY DEF Next, Begin, StartRestore, StartDownload, StartSync, Interrupt, vars
  <2>2. "envelope" \in Places /\ TypeOK
    BY PlaceNames DEF LifecycleInv
  <2>3. Head(todo).at = "envelope" /\ store'["envelope"] = Head(todo).put
    BY <2>1, <2>2 DEF Apply, TypeOK
  <2>4. op \in {"restore", "download", "sync"}
    BY <2>1, <2>2 DEF Apply, TypeOK
  <2>5. CASE op = "restore"
    <3>1. PICK b \in Backups, k \in 1..9 : Restoring(b, k)
      BY <2>5 DEF LifecycleInv
    <3>2. Head(todo) = RestoreChanges(b)[k]
      <4> DEFINE ch == RestoreChanges(b)
      <4>1. ch \in Seq(Change) /\ k \in 1..Len(ch) /\ todo = Rest(ch, k)
        BY <3>1, RestoreList DEF Restoring
      <4> HIDE DEF ch
      <4>2. Head(todo) = ch[k]
        BY <4>1, RestStep
      <4> QED
        BY <4>2 DEF ch
    <3>3. \/ k = 1 \/ k = 2 \/ k = 3 \/ k = 4 \/ k = 5 \/ k = 6 \/ k = 7 \/ k = 8 \/ k = 9
      OBVIOUS
    <3>4. RestoreChanges(b)[k].at # "envelope"
      <4> DEFINE ch == RestoreChanges(b)
      <4>0. /\ ch[1] = Put("marker", "preparing") /\ ch[2] = Put("pendingPrefs", None)
            /\ ch[3] = Put("pendingSources", None) /\ ch[4] = Put("payload", b)
            /\ ch[5] = Put("library", Torn) /\ ch[6] = Put("library", {b})
            /\ ch[7] = Put("pendingPrefs", {b}) /\ ch[8] = Put("pendingSources", {b})
            /\ ch[9] = Put("marker", "ready")
        BY RestoreList
      <4> HIDE DEF ch
      <4>1. /\ ch[1].at = "marker" /\ ch[2].at = "pendingPrefs"
            /\ ch[3].at = "pendingSources" /\ ch[4].at = "payload"
            /\ ch[5].at = "library" /\ ch[6].at = "library"
            /\ ch[7].at = "pendingPrefs" /\ ch[8].at = "pendingSources"
            /\ ch[9].at = "marker"
        BY <4>0, PutFields
      <4>2. ch[k].at # "envelope"
        BY <3>3, <4>1
      <4> QED
        BY <4>2 DEF ch
    <3> QED
      BY <2>3, <3>2, <3>4
  <2>6. CASE op = "download"
    <3>1. PICK d \in Contents, k \in 1..11 : Downloading(d, k)
      BY <2>6 DEF LifecycleInv
    <3>2. Head(todo) = DownloadChanges(d)[k]
      <4> DEFINE ch == DownloadChanges(d)
      <4>1. ch \in Seq(Change) /\ k \in 1..Len(ch) /\ todo = Rest(ch, k)
        BY <3>1, DownloadList DEF Downloading
      <4> HIDE DEF ch
      <4>2. Head(todo) = ch[k]
        BY <4>1, RestStep
      <4> QED
        BY <4>2 DEF ch
    <3>3. \/ k = 1 \/ k = 2 \/ k = 3 \/ k = 4 \/ k = 5 \/ k = 6 \/ k = 7 \/ k = 8
          \/ k = 9 \/ k = 10 \/ k = 11
      OBVIOUS
    <3>4. k = 8 /\ Head(todo) = Put("envelope", d)
      BY <2>3, <3>2, <3>3, DownloadList, PutFields, SMTT(30)
    <3> QED
      BY <2>3, <3>1, <3>4 DEF Put, Downloading
  <2>7. CASE op = "sync"
    <3>1. PICK m \in Contents, k \in 1..9 : Syncing(m, k)
      BY <2>7 DEF LifecycleInv
    <3>2. CASE todo = UploadSync(m)
      <4>1. Head(todo) = Put("server", m)
        BY <3>2, SyncList
      <4> QED
        BY <2>3, <4>1 DEF Put
    <3>3. CASE todo = Rest(FullSync(m), k)
      <4>1. Head(todo) = FullSync(m)[k]
        <5> DEFINE ch == FullSync(m)
        <5>1. ch \in Seq(Change) /\ k \in 1..Len(ch) /\ todo = Rest(ch, k)
          BY <3>3, SyncList
        <5> HIDE DEF ch
        <5>2. Head(todo) = ch[k]
          BY <5>1, RestStep
        <5> QED
          BY <5>2 DEF ch
      <4>2. \/ k = 1 \/ k = 2 \/ k = 3 \/ k = 4 \/ k = 5 \/ k = 6 \/ k = 7 \/ k = 8 \/ k = 9
        OBVIOUS
      <4>3. k = 5 /\ Head(todo) = Put("envelope", m)
        BY <2>3, <4>1, <4>2, SyncList, PutFields, SMTT(30)
      <4> QED
        BY <2>3, <3>1, <4>3 DEF Put, Syncing
    <3> QED
      BY <3>1, <3>2, <3>3 DEF Syncing
  <2> QED
    BY <2>4, <2>5, <2>6, <2>7
<1> QED
  BY <1>1, LifecycleCorrect, PTL DEF Spec, EnvelopeActivatedLast

\* markReady never throws at the end of a restore.
THEOREM RestoresFinish == Spec => []RestoreCanFinish
<1>1. LifecycleInv => RestoreCanFinish
  <2> SUFFICES ASSUME LifecycleInv, op = "restore", Len(todo) = 1
               PROVE  MayApply(Head(todo))
    BY DEF RestoreCanFinish
  <2>1. PICK b \in Backups, k \in 1..9 : Restoring(b, k)
    BY DEF LifecycleInv
  <2>2. /\ RestoreChanges(b) \in Seq(Change) /\ Len(RestoreChanges(b)) = 9
        /\ RestoreChanges(b)[9] = Put("marker", "ready")
    BY RestoreList
  <2>3. todo = Rest(RestoreChanges(b), k)
    BY <2>1 DEF Restoring
  <2>4. k = 9 /\ Head(todo) = Put("marker", "ready")
    <3> DEFINE ch == RestoreChanges(b)
    <3>1. k \in 1..Len(ch) /\ ch \in Seq(Change) /\ todo = Rest(ch, k)
      BY <2>2, <2>3
    <3> HIDE DEF ch
    <3>2. Head(todo) = ch[k] /\ k = Len(ch)
      BY <3>1, RestStep
    <3> QED
      BY <2>2, <3>2 DEF ch
  <2>5. /\ store["marker"] = "preparing" /\ store["payload"] = b
        /\ store["pendingPrefs"] = {b} /\ store["pendingSources"] = {b}
    BY <2>1, <2>4 DEF Restoring
  <2>6. Complete
    BY <2>5, LifecycleAssumption DEF Complete, PendingFiles, LifecycleAssumption
  <2> QED
    BY <2>5, <2>6 DEF MayApply
<1> QED
  BY <1>1, LifecycleCorrect, PTL

=============================================================================
