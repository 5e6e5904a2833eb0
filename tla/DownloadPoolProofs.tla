-------------------------- MODULE DownloadPoolProofs --------------------------
(***************************************************************************)
(* For any tasks and workers: every submission that listens gets exactly   *)
(* one terminal message, no worker is used twice or leaks, a cancelled     *)
(* task is stopped, and no task waits while a worker is free.              *)
(***************************************************************************)
EXTENDS DownloadPool, FiniteSetTheorems, TLAPS

In(s, x) == \E i \in 1..Len(s) : s[i] = x
Once(s) == \A i, j \in 1..Len(s) : s[i] = s[j] => i = j
Runs(r, t) == \E w \in Workers : r[w] = t

\* Tasks r are executed by one worker each.
RunOnce(r) ==
  \A v, w \in Workers : r[v] # NoTask /\ r[v] = r[w] => v = w

\* A task is in the queue, with a worker or answered, in one of the three, and
\* exactly while its submitter listens.
TaskInv ==
  /\ Once(queue) /\ RunOnce(running)
  /\ \A t \in Tasks :
       /\ Len(port[t]) \in {0, 1}
       /\ In(queue, t) => ~Runs(running, t) /\ port[t] = <<>>
       /\ Runs(running, t) => port[t] = <<>>
       /\ client[t] = "listening" <=> \/ In(queue, t) \/ Runs(running, t)
                                      \/ port[t] # <<>>
       /\ flag[t] = "cancelled" => ~In(queue, t) /\ ~Runs(running, t)

\* A worker is free, busy, being replaced or lost, and one of these only.
WorkerInv ==
  /\ Once(available)
  /\ \A w \in Workers :
       /\ In(available, w) => running[w] = NoTask /\ w \notin respawning \cup lost
       /\ running[w] # NoTask => w \notin respawning \cup lost
       /\ w \in respawning => w \notin lost
       /\ pool = "ready" => \/ In(available, w) \/ running[w] # NoTask
                            \/ w \in respawning \cup lost
  /\ pool # "ready" => /\ available = <<>> /\ queue = <<>>
                       /\ \A w \in Workers : running[w] = NoTask
                       /\ respawning = {} /\ lost = {}
  /\ queue # <<>> => available = <<>>

PoolInv == TypeOK /\ TaskInv /\ WorkerInv

-----------------------------------------------------------------------------
(* Sequences *)

\* Appending what is not in a sequence.
LEMMA AppendOnce ==
  ASSUME NEW S, NEW s \in Seq(S), NEW x \in S, Once(s), ~In(s, x)
  PROVE  /\ Append(s, x) \in Seq(S)
         /\ Once(Append(s, x))
         /\ \A y : In(Append(s, x), y) <=> In(s, y) \/ y = x
<1> DEFINE a == Append(s, x)
<1>1. /\ a \in Seq(S) /\ Len(a) = Len(s) + 1 /\ Len(s) \in Nat
      /\ a[Len(s) + 1] = x
      /\ \A i \in 1..Len(s) : a[i] = s[i]
  OBVIOUS
<1> HIDE DEF a
<1>2. Once(a)
  BY <1>1 DEF Once, In
<1>3. ASSUME NEW y PROVE In(a, y) <=> In(s, y) \/ y = x
  <2>1. 1..Len(a) = 1..Len(s) \cup {Len(s) + 1}
    BY <1>1
  <2> QED BY <2>1, <1>1 DEF In
<1> QED BY <1>1, <1>2, <1>3 DEF a

\* Removing an element of a sequence without repetitions.
LEMMA WithoutOnce ==
  ASSUME NEW S, NEW s \in Seq(S), NEW x, Once(s)
  PROVE  /\ Without(s, x) \in Seq(S)
         /\ Once(Without(s, x))
         /\ \A y : In(Without(s, x), y) <=> In(s, y) /\ y # x
         /\ s = <<>> => Without(s, x) = <<>>
<1>1. x \in Range(s) <=> In(s, x)
  BY DEF Range, In
<1>2. CASE ~In(s, x)
  BY <1>1, <1>2 DEF Without, In
<1>3. CASE In(s, x)
  <2> DEFINE k == CHOOSE i \in DOMAIN s : s[i] = x
             a == SubSeq(s, 1, k - 1)
             b == SubSeq(s, k + 1, Len(s))
             u == a \o b
  <2>1. k \in 1..Len(s) /\ s[k] = x
    BY <1>3 DEF In
  <2>2. Without(s, x) = u
    BY <1>1, <1>3 DEF Without, RemoveAt
  <2>3. Len(s) \in Nat /\ s # <<>> /\ \A i \in 1..Len(s) : s[i] \in S
    BY <2>1
  <2> HIDE DEF k
  <2>4. /\ a \in Seq(S) /\ Len(a) = k - 1
        /\ \A i \in 1..(k - 1) : a[i] = s[i]
    BY <2>1, <2>3
  <2>5. /\ b \in Seq(S) /\ Len(b) = Len(s) - k
        /\ \A i \in 1..(Len(s) - k) : b[i] = s[i + k]
    BY <2>1, <2>3
  <2> HIDE DEF a, b
  <2>6. /\ u \in Seq(S) /\ Len(u) = Len(s) - 1
        /\ \A i \in 1..Len(u) : u[i] = IF i < k THEN s[i] ELSE s[i + 1]
    <3>1. u \in Seq(S) /\ Len(u) = Len(a) + Len(b)
      BY <2>4, <2>5, SMTT(30)
    <3>2. Len(u) = Len(s) - 1
      BY <3>1, <2>1, <2>3, <2>4, <2>5
    <3>3. ASSUME NEW i \in 1..Len(u)
          PROVE  u[i] = IF i < k THEN s[i] ELSE s[i + 1]
      <4>1. u[i] = IF i <= Len(a) THEN a[i] ELSE b[i - Len(a)]
        BY <2>4, <2>5, <3>1
      <4>2. CASE i < k
        BY <4>1, <4>2, <2>1, <2>3, <2>4
      <4>3. CASE ~(i < k)
        <5>1. i - Len(a) \in 1..(Len(s) - k) /\ (i - Len(a)) + k = i + 1
          BY <4>3, <2>1, <2>3, <2>4, <3>2
        <5>2. ~(i <= Len(a))
          BY <4>3, <2>1, <2>4
        <5> QED BY <4>1, <4>3, <5>1, <5>2, <2>5
      <4> QED BY <4>2, <4>3
    <3> QED BY <3>1, <3>2, <3>3
  <2> HIDE DEF u
  <2>7. Once(u)
    <3> SUFFICES ASSUME NEW i \in 1..Len(u), NEW j \in 1..Len(u), u[i] = u[j]
                 PROVE  i = j
      BY DEF Once
    <3> DEFINE i1 == IF i < k THEN i ELSE i + 1
               j1 == IF j < k THEN j ELSE j + 1
    <3>1. i1 \in 1..Len(s) /\ j1 \in 1..Len(s) /\ (i1 = j1 => i = j)
      BY <2>1, <2>3, <2>6
    <3>2. s[i1] = s[j1]
      BY <2>6
    <3> HIDE DEF i1, j1
    <3> QED BY <3>1, <3>2 DEF Once
  <2>8. ASSUME NEW y PROVE In(u, y) <=> In(s, y) /\ y # x
    <3>1. ASSUME In(u, y) PROVE In(s, y) /\ y # x
      <4>1. PICK i \in 1..Len(u) : u[i] = y
        BY <3>1 DEF In
      <4> DEFINE i1 == IF i < k THEN i ELSE i + 1
      <4>2. i1 \in 1..Len(s) /\ i1 # k
        BY <2>1, <2>3, <2>6
      <4>3. s[i1] = y
        BY <2>6, <4>1
      <4> HIDE DEF i1
      <4> QED BY <4>2, <4>3, <2>1 DEF Once, In
    <3>2. ASSUME In(s, y), y # x PROVE In(u, y)
      <4>1. PICK i \in 1..Len(s) : s[i] = y
        BY <3>2 DEF In
      <4>2. i # k
        BY <4>1, <3>2, <2>1
      <4>3. CASE i < k
        <5>1. i \in 1..Len(u)
          BY <4>3, <2>1, <2>3, <2>6
        <5> QED BY <5>1, <4>1, <4>3, <2>6 DEF In
      <4>4. CASE i > k
        <5>1. i - 1 \in 1..Len(u) /\ ~(i - 1 < k) /\ (i - 1) + 1 = i
          BY <4>4, <2>1, <2>3, <2>6
        <5> QED BY <5>1, <4>1, <2>6 DEF In
      <4> QED BY <4>2, <4>3, <4>4, <2>1
    <3> QED BY <3>1, <3>2
  <2> QED BY <2>2, <2>3, <2>6, <2>7, <2>8
<1> QED BY <1>2, <1>3

-----------------------------------------------------------------------------
(* Handing out tasks *)

\* What _processQueue leaves: the same tasks and the same workers, each in one
\* place, and either no task or no worker that waits.
Handed(q, idle, r) ==
  /\ queue' \in Seq(Tasks) /\ available' \in Seq(Workers)
  /\ running' \in [Workers -> Tasks \cup {NoTask}]
  /\ Once(queue') /\ Once(available') /\ RunOnce(running')
  /\ \A t \in Tasks :
       /\ In(queue', t) \/ Runs(running', t) <=> In(q, t) \/ Runs(r, t)
       /\ In(queue', t) => ~Runs(running', t)
  /\ \A w \in Workers :
       /\ In(available', w) \/ running'[w] # NoTask <=> In(idle, w) \/ r[w] # NoTask
       /\ In(available', w) => running'[w] = NoTask
  /\ queue' # <<>> => available' = <<>>

\* The rest of a sequence after its first n elements.
After(s, n) == SubSeq(s, n + 1, Len(s))

\* It holds the elements that come later, each once.
LEMMA RestOfSeq ==
  ASSUME NEW S, NEW s \in Seq(S), NEW n \in 0..Len(s), Once(s)
  PROVE  /\ After(s, n) \in Seq(S) /\ Once(After(s, n))
         /\ \A y : In(After(s, n), y) <=> \E i \in 1..Len(s) : i > n /\ s[i] = y
         /\ n = Len(s) => After(s, n) = <<>>
<1> DEFINE u == After(s, n)
<1>1. Len(s) \in Nat /\ \A i \in 1..Len(s) : s[i] \in S
  OBVIOUS
<1>2. /\ u \in Seq(S) /\ Len(u) = Len(s) - n
      /\ \A i \in 1..Len(u) : u[i] = s[i + n]
  BY <1>1 DEF After
<1> HIDE DEF u
<1>3. Once(u)
  <2> SUFFICES ASSUME NEW i \in 1..Len(u), NEW j \in 1..Len(u), u[i] = u[j]
               PROVE  i = j
    BY DEF Once
  <2>1. i + n \in 1..Len(s) /\ j + n \in 1..Len(s) /\ s[i + n] = s[j + n]
    BY <1>1, <1>2
  <2>2. i + n = j + n
    BY <2>1 DEF Once
  <2> QED BY <2>2
<1>4. ASSUME NEW y
      PROVE  In(u, y) <=> \E i \in 1..Len(s) : i > n /\ s[i] = y
  <2>1. ASSUME In(u, y) PROVE \E i \in 1..Len(s) : i > n /\ s[i] = y
    <3>1. PICK i \in 1..Len(u) : u[i] = y
      BY <2>1 DEF In
    <3>2. i + n \in 1..Len(s) /\ i + n > n
      BY <1>1, <1>2
    <3>3. s[i + n] = y
      BY <1>2, <3>1
    <3> QED BY <3>2, <3>3
  <2>2. ASSUME NEW i \in 1..Len(s), i > n, s[i] = y PROVE In(u, y)
    <3>1. i - n \in 1..Len(u) /\ (i - n) + n = i
      BY <1>1, <1>2, <2>2
    <3>2. u[i - n] = y
      BY <3>1, <1>2, <2>2
    <3> QED BY <3>1, <3>2 DEF In
  <2> QED BY <2>1, <2>2
<1>5. n = Len(s) => u = <<>>
  BY <1>1, <1>2
<1> QED BY <1>2, <1>3, <1>4, <1>5 DEF u

\* _processQueue on tasks and workers that are in one place each.
LEMMA HandsOut ==
  ASSUME PoolAssumption,
         NEW q \in Seq(Tasks), NEW idle \in Seq(Workers),
         NEW r \in [Workers -> Tasks \cup {NoTask}],
         Once(q), Once(idle), RunOnce(r),
         \A t \in Tasks : In(q, t) => ~Runs(r, t),
         \A w \in Workers : In(idle, w) => r[w] = NoTask,
         ProcessQueue(q, idle, r)
  PROVE  Handed(q, idle, r)
<1> DEFINE n == IF Len(q) < Len(idle) THEN Len(q) ELSE Len(idle)
<1>1. /\ Len(q) \in Nat /\ Len(idle) \in Nat
      /\ n \in 0..Len(q) /\ n \in 0..Len(idle)
      /\ n = Len(q) \/ n = Len(idle)
      /\ \A i \in 1..n : i \in 1..Len(q) /\ i \in 1..Len(idle)
      /\ \A i \in 1..Len(q) : q[i] \in Tasks
      /\ \A i \in 1..Len(idle) : idle[i] \in Workers
  OBVIOUS
<1>2. /\ queue' = SubSeq(q, n + 1, Len(q))
      /\ available' = SubSeq(idle, n + 1, Len(idle))
      /\ running' = [w \in Workers |->
           IF \E i \in 1..n : idle[i] = w
           THEN q[CHOOSE i \in 1..n : idle[i] = w] ELSE r[w]]
  BY DEF ProcessQueue
<1> HIDE DEF n
<1>3. /\ queue' \in Seq(Tasks) /\ Once(queue')
      /\ \A y : In(queue', y) <=> \E i \in 1..Len(q) : i > n /\ q[i] = y
      /\ n = Len(q) => queue' = <<>>
  <2>1. queue' = After(q, n)
    BY <1>2 DEF After
  <2> QED BY <2>1, <1>1, RestOfSeq
<1>4. /\ available' \in Seq(Workers) /\ Once(available')
      /\ \A y : In(available', y) <=> \E i \in 1..Len(idle) : i > n /\ idle[i] = y
      /\ n = Len(idle) => available' = <<>>
  <2>1. available' = After(idle, n)
    BY <1>2 DEF After
  <2> QED BY <2>1, <1>1, RestOfSeq
<1>5. ASSUME NEW i \in 1..n PROVE running'[idle[i]] = q[i] /\ q[i] \in Tasks
  <2>1. (CHOOSE j \in 1..n : idle[j] = idle[i]) = i
    BY <1>1 DEF Once
  <2> QED BY <2>1, <1>1, <1>2
<1>6. ASSUME NEW w \in Workers, ~\E i \in 1..n : idle[i] = w
      PROVE  running'[w] = r[w]
  BY <1>2, <1>6
<1>7. running' \in [Workers -> Tasks \cup {NoTask}]
  <2>1. ASSUME NEW w \in Workers PROVE running'[w] \in Tasks \cup {NoTask}
    BY <1>5, <1>6
  <2> QED BY <1>2, <2>1
<1>8. RunOnce(running')
  <2> SUFFICES ASSUME NEW v \in Workers, NEW w \in Workers,
                      running'[v] # NoTask, running'[v] = running'[w]
               PROVE  v = w
    BY DEF RunOnce
  <2>1. CASE (\E i \in 1..n : idle[i] = v) /\ \E i \in 1..n : idle[i] = w
    <3>1. PICK i \in 1..n : idle[i] = v
      BY <2>1
    <3>2. PICK j \in 1..n : idle[j] = w
      BY <2>1
    <3>3. q[i] = q[j]
      BY <3>1, <3>2, <1>5
    <3> QED BY <3>1, <3>2, <3>3, <1>1 DEF Once
  <2>2. CASE (\E i \in 1..n : idle[i] = v) /\ ~\E i \in 1..n : idle[i] = w
    <3>1. PICK i \in 1..n : idle[i] = v
      BY <2>2
    <3>2. In(q, q[i]) /\ q[i] \in Tasks /\ r[w] = q[i]
      BY <3>1, <2>2, <1>1, <1>5, <1>6 DEF In
    <3> QED BY <3>2 DEF Runs
  <2>3. CASE (~\E i \in 1..n : idle[i] = v) /\ \E i \in 1..n : idle[i] = w
    <3>1. PICK i \in 1..n : idle[i] = w
      BY <2>3
    <3>2. In(q, q[i]) /\ q[i] \in Tasks /\ r[v] = q[i]
      BY <3>1, <2>3, <1>1, <1>5, <1>6 DEF In
    <3> QED BY <3>2 DEF Runs
  <2>4. CASE (~\E i \in 1..n : idle[i] = v) /\ ~\E i \in 1..n : idle[i] = w
    BY <2>4, <1>6 DEF RunOnce
  <2> QED BY <2>1, <2>2, <2>3, <2>4
<1>9. ASSUME NEW t \in Tasks
      PROVE  /\ In(queue', t) \/ Runs(running', t) <=> In(q, t) \/ Runs(r, t)
             /\ In(queue', t) => ~Runs(running', t)
  <2>1. ASSUME In(queue', t) PROVE In(q, t)
    BY <2>1, <1>3 DEF In
  <2>2. ASSUME Runs(running', t)
        PROVE  Runs(r, t) \/ \E i \in 1..n : q[i] = t
    BY <2>2, <1>5, <1>6 DEF Runs
  <2>3. ASSUME In(q, t) PROVE In(queue', t) \/ Runs(running', t)
    <3>1. PICK i \in 1..Len(q) : q[i] = t
      BY <2>3 DEF In
    <3>2. CASE i > n
      BY <3>1, <3>2, <1>3
    <3>3. CASE ~(i > n)
      <4>1. i \in 1..n
        BY <3>3, <1>1
      <4> QED BY <4>1, <3>1, <1>1, <1>5 DEF Runs
    <3> QED BY <3>2, <3>3
  <2>4. ASSUME Runs(r, t) PROVE Runs(running', t)
    <3>1. PICK w \in Workers : r[w] = t
      BY <2>4 DEF Runs
    <3>2. ~In(idle, w)
      BY <3>1 DEF PoolAssumption
    <3>3. running'[w] = t
      BY <3>1, <3>2, <1>1, <1>6 DEF In
    <3> QED BY <3>3 DEF Runs
  <2>5. ASSUME In(queue', t), Runs(running', t) PROVE FALSE
    <3>1. PICK i \in 1..Len(q) : i > n /\ q[i] = t
      BY <2>5, <1>3
    <3>2. ~Runs(r, t)
      BY <2>1, <2>5
    <3>3. PICK j \in 1..n : q[j] = t
      BY <2>2, <2>5, <3>2
    <3>4. i = j
      BY <3>1, <3>3, <1>1 DEF Once
    <3> QED BY <3>1, <3>4, <1>1
  <2>6. ASSUME NEW i \in 1..n, q[i] = t PROVE In(q, t)
    BY <2>6, <1>1 DEF In
  <2> QED BY <2>1, <2>2, <2>3, <2>4, <2>5, <2>6
<1>10. ASSUME NEW w \in Workers
       PROVE  /\ In(available', w) \/ running'[w] # NoTask
                   <=> In(idle, w) \/ r[w] # NoTask
              /\ In(available', w) => running'[w] = NoTask
  <2>1. CASE \E i \in 1..n : idle[i] = w
    <3>1. PICK i \in 1..n : idle[i] = w
      BY <2>1
    <3>2. running'[w] # NoTask /\ In(idle, w)
      BY <3>1, <1>1, <1>5 DEF In, PoolAssumption
    <3>3. ASSUME In(available', w) PROVE FALSE
      <4>1. PICK j \in 1..Len(idle) : j > n /\ idle[j] = w
        BY <3>3, <1>4
      <4>2. i = j
        BY <3>1, <4>1, <1>1 DEF Once
      <4> QED BY <4>1, <4>2, <1>1
    <3> QED BY <3>2, <3>3
  <2>2. CASE ~\E i \in 1..n : idle[i] = w
    <3>1. running'[w] = r[w]
      BY <2>2, <1>6
    <3>2. In(available', w) <=> In(idle, w)
      <4>1. ASSUME NEW i \in 1..Len(idle), idle[i] = w PROVE i > n
        BY <4>1, <2>2, <1>1
      <4> QED BY <4>1, <1>4 DEF In
    <3> QED BY <3>1, <3>2
  <2> QED BY <2>1, <2>2
<1>11. queue' # <<>> => available' = <<>>
  BY <1>1, <1>3, <1>4
<1> QED BY <1>3, <1>4, <1>7, <1>8, <1>9, <1>10, <1>11 DEF Handed

\* Tasks in one place each stay so when they are handed out.
LEMMA HandedTasks ==
  ASSUME NEW q, NEW idle, NEW r, Handed(q, idle, r),
         \A t \in Tasks :
           /\ Len(port'[t]) \in {0, 1}
           /\ In(q, t) \/ Runs(r, t) => port'[t] = <<>> /\ flag'[t] # "cancelled"
           /\ client'[t] = "listening" <=> \/ In(q, t) \/ Runs(r, t)
                                           \/ port'[t] # <<>>
  PROVE  TaskInv'
<1>1. Once(queue') /\ RunOnce(running')
  BY DEF Handed
<1>2. ASSUME NEW t \in Tasks
      PROVE  /\ Len(port'[t]) \in {0, 1}
             /\ In(queue', t) => ~Runs(running', t) /\ port'[t] = <<>>
             /\ Runs(running', t) => port'[t] = <<>>
             /\ client'[t] = "listening" <=> \/ In(queue', t) \/ Runs(running', t)
                                             \/ port'[t] # <<>>
             /\ flag'[t] = "cancelled" => ~In(queue', t) /\ ~Runs(running', t)
  <2>1. /\ In(queue', t) \/ Runs(running', t) <=> In(q, t) \/ Runs(r, t)
        /\ In(queue', t) => ~Runs(running', t)
    BY DEF Handed
  <2> QED BY <2>1
<1> QED BY <1>1, <1>2 DEF TaskInv

\* ... and so do workers.
LEMMA HandedWorkers ==
  ASSUME NEW q, NEW idle, NEW r, Handed(q, idle, r), pool' = "ready",
         \A w \in Workers :
           /\ In(idle, w) \/ r[w] # NoTask => w \notin respawning' \cup lost'
           /\ w \in respawning' => w \notin lost'
           /\ \/ In(idle, w) \/ r[w] # NoTask
              \/ w \in respawning' \cup lost'
  PROVE  WorkerInv'
<1>1. Once(available') /\ (queue' # <<>> => available' = <<>>)
  BY DEF Handed
<1>2. ASSUME NEW w \in Workers
      PROVE  /\ In(available', w) => running'[w] = NoTask /\ w \notin respawning' \cup lost'
             /\ running'[w] # NoTask => w \notin respawning' \cup lost'
             /\ w \in respawning' => w \notin lost'
             /\ \/ In(available', w) \/ running'[w] # NoTask
                \/ w \in respawning' \cup lost'
  <2>1. /\ In(available', w) \/ running'[w] # NoTask <=> In(idle, w) \/ r[w] # NoTask
        /\ In(available', w) => running'[w] = NoTask
    BY DEF Handed
  <2> QED BY <2>1
<1> QED BY <1>1, <1>2 DEF WorkerInv

-----------------------------------------------------------------------------
(* The steps *)

LEMMA PoolInvInit == PoolAssumption /\ Init => PoolInv
<1> SUFFICES ASSUME PoolAssumption, Init PROVE PoolInv
  OBVIOUS
<1>1. TypeOK
  BY DEF Init, TypeOK, PoolAssumption
<1>2. \A t \in Tasks : ~In(queue, t) /\ ~Runs(running, t)
  BY DEF Init, In, Runs, PoolAssumption
<1>3. TaskInv
  BY <1>2 DEF Init, TaskInv, Once, RunOnce
<1>4. WorkerInv
  BY DEF Init, WorkerInv, Once, In
<1> QED BY <1>1, <1>3, <1>4 DEF PoolInv

\* The sequence of all workers.
LEMMA AllWorkers ==
  ASSUME PoolAssumption
  PROVE  /\ SetToSeq(Workers) \in Seq(Workers)
         /\ Once(SetToSeq(Workers))
         /\ \A w \in Workers : In(SetToSeq(Workers), w)
<1> DEFINE n == Cardinality(Workers)
           s == SetToSeq(Workers)
<1>1. n \in Nat /\ ExistsBijection(1..n, Workers)
  BY FS_CardinalityType DEF PoolAssumption
<1>2. \E f \in [1..n -> Workers] : IsInjective(f)
  BY <1>1 DEF ExistsBijection, Bijection, Injection, IsInjective
<1>3. s \in [1..n -> Workers] /\ IsInjective(s)
  BY <1>2 DEF SetToSeq
<1>4. s \in Seq(Workers) /\ Len(s) = n /\ DOMAIN s = 1..n
  BY <1>1, <1>3
<1>5. s \in Injection(1..n, Workers)
  BY <1>3 DEF Injection
<1>6. IsFiniteSet(1..n) /\ Cardinality(1..n) = n
  BY <1>1, FS_Interval
<1>7. s \in Surjection(1..n, Workers)
  <2>1. IsFiniteSet(Workers) /\ Cardinality(1..n) = Cardinality(Workers)
    BY <1>6 DEF PoolAssumption
  <2> HIDE DEF s
  <2> QED BY <2>1, <1>5, FS_Injection
<1> HIDE DEF s, n
<1>8. \A w \in Workers : In(s, w)
  BY <1>4, <1>7 DEF Surjection, In
<1>9. Once(s)
  BY <1>3, <1>4 DEF IsInjective, Once
<1> QED BY <1>4, <1>8, <1>9 DEF s

\* A task gets into the queue: its submitter listens from then on.
LEMMA EnqueueKeeps ==
  ASSUME PoolAssumption, PoolInv, NEW t \in Tasks, pool = "ready", pool' = "ready",
         client[t] # "listening", flag[t] # "cancelled", Enqueue(t),
         client' = [client EXCEPT ![t] = "listening"],
         flag' = [flag EXCEPT ![t] = "active"],
         UNCHANGED <<port, reply, dead, respawning, lost>>
  PROVE  /\ TaskInv' /\ WorkerInv'
         /\ queue' \in Seq(Tasks) /\ available' \in Seq(Workers)
         /\ running' \in [Workers -> Tasks \cup {NoTask}]
<1> DEFINE q == Append(queue, t)
<1>1. TypeOK /\ TaskInv /\ WorkerInv
  BY DEF PoolInv
<1>2. ~In(queue, t) /\ ~Runs(running, t) /\ port[t] = <<>>
  BY <1>1 DEF TaskInv
<1>3. queue \in Seq(Tasks) /\ available \in Seq(Workers)
      /\ running \in [Workers -> Tasks \cup {NoTask}] /\ Once(queue)
  BY <1>1 DEF TypeOK, TaskInv
<1>4. /\ q \in Seq(Tasks) /\ Once(q)
      /\ \A y : In(q, y) <=> In(queue, y) \/ y = t
  BY <1>2, <1>3, AppendOnce
<1>5. ProcessQueue(q, available, running)
  BY DEF Enqueue
<1> HIDE DEF q
<1>6. Handed(q, available, running)
  <2>1. Once(available) /\ RunOnce(running)
    BY <1>1 DEF TaskInv, WorkerInv
  <2>2. \A u \in Tasks : In(q, u) => ~Runs(running, u)
    BY <1>1, <1>2, <1>4 DEF TaskInv
  <2>3. \A w \in Workers : In(available, w) => running[w] = NoTask
    BY <1>1 DEF WorkerInv
  <2> QED BY <1>3, <1>4, <1>5, <2>1, <2>2, <2>3, HandsOut
<1>7. TaskInv'
  <2>1. ASSUME NEW u \in Tasks
        PROVE  /\ Len(port'[u]) \in {0, 1}
               /\ In(q, u) \/ Runs(running, u) => port'[u] = <<>> /\ flag'[u] # "cancelled"
               /\ client'[u] = "listening" <=> \/ In(q, u) \/ Runs(running, u)
                                               \/ port'[u] # <<>>
    <3>1. CASE u = t
      BY <3>1, <1>1, <1>2, <1>4 DEF TypeOK
    <3>2. CASE u # t
      BY <3>2, <1>1, <1>4 DEF TypeOK, TaskInv
    <3> QED BY <3>1, <3>2
  <2> QED BY <2>1, <1>6, HandedTasks
<1>8. WorkerInv'
  BY <1>1, <1>6, HandedWorkers DEF WorkerInv
<1> QED BY <1>6, <1>7, <1>8 DEF Handed

\* A worker becomes free.
LEMMA FreedKeeps ==
  ASSUME PoolAssumption, PoolInv, pool = "ready", NEW w \in Workers,
         NEW r \in [Workers -> Tasks \cup {NoTask}],
         ~In(available, w), RunOnce(r), r[w] = NoTask,
         \A v \in Workers : v # w => r[v] = running[v],
         ProcessQueue(queue, Append(available, w), r)
  PROVE  Handed(queue, Append(available, w), r)
<1> DEFINE a == Append(available, w)
<1>1. TypeOK /\ TaskInv /\ WorkerInv
  BY DEF PoolInv
<1>2. queue \in Seq(Tasks) /\ available \in Seq(Workers) /\ Once(available)
  BY <1>1 DEF TypeOK, WorkerInv
<1>3. /\ a \in Seq(Workers) /\ Once(a)
      /\ \A y : In(a, y) <=> In(available, y) \/ y = w
  BY <1>2, AppendOnce
<1>4. \A v \in Workers : In(a, v) => r[v] = NoTask
  BY <1>1, <1>3 DEF WorkerInv
<1>5. \A t \in Tasks : In(queue, t) => ~Runs(r, t)
  <2>1. \A t \in Tasks : Runs(r, t) => Runs(running, t)
    BY DEF Runs, PoolAssumption
  <2> QED BY <2>1, <1>1 DEF TaskInv
<1>6. Once(queue)
  BY <1>1 DEF TaskInv
<1>7. ProcessQueue(queue, a, r)
  OBVIOUS
<1> HIDE DEF a
<1>8. Handed(queue, a, r)
  BY <1>2, <1>3, <1>4, <1>5, <1>6, <1>7, HandsOut
<1> QED BY <1>8 DEF a

-----------------------------------------------------------------------------
(* A task is cancelled *)

\* cancelTask: a queued or executed task gets its answer, and a worker that
\* executed it is replaced.
LEMMA CancelKeeps ==
  ASSUME PoolAssumption, PoolInv, NEW t \in Tasks, CancelTask(t),
         UNCHANGED <<pool, available, lost, broken, submits>>,
         \/ client[t] \in {"preparing", "listening"} /\ client' = client
         \/ client[t] = "settled" /\ client' = [client EXCEPT ![t] = "idle"]
  PROVE  PoolInv'
<1>1. TypeOK /\ TaskInv /\ WorkerInv
  BY DEF PoolInv
<1>2. queue \in Seq(Tasks) /\ Once(queue)
  BY <1>1 DEF TypeOK, TaskInv
<1>3. /\ queue' \in Seq(Tasks) /\ Once(queue')
      /\ \A u : In(queue', u) <=> In(queue, u) /\ u # t
      /\ queue = <<>> => queue' = <<>>
  BY <1>2, WithoutOnce DEF CancelTask
<1>4. t \in Range(queue) <=> In(queue, t)
  BY <1>2 DEF Range, In
<1>5. t \in Range(running) <=> Runs(running, t)
  BY <1>1 DEF Range, Runs, TypeOK
<1>6. flag' = [flag EXCEPT ![t] = IF @ = "absent" THEN @ ELSE "cancelled"]
  BY DEF CancelTask
<1>7. port' = IF In(queue, t) \/ Runs(running, t)
              THEN [port EXCEPT ![t] = Append(@, "error")] ELSE port
  BY <1>4, <1>5 DEF CancelTask, Send
<1>8. /\ running' \in [Workers -> Tasks \cup {NoTask}]
      /\ reply' \in [Workers -> Messages \cup {"none"}]
      /\ dead' \subseteq Workers /\ respawning' \subseteq Workers
      /\ \A w \in Workers : running'[w] = IF running[w] = t THEN NoTask ELSE running[w]
      /\ \A w \in Workers : w \in respawning' <=> w \in respawning \/ running[w] = t
  <2>1. CASE \E w \in Workers : running[w] = t /\ Kill(w)
    <3>1. PICK w \in Workers : running[w] = t /\ Kill(w)
      BY <2>1
    <3>2. \A v \in Workers : running[v] = t => v = w
      BY <1>1, <3>1 DEF TaskInv, RunOnce, PoolAssumption
    <3> QED BY <1>1, <3>1, <3>2 DEF Kill, TypeOK
  <2>2. CASE t \notin Range(running) /\ UNCHANGED <<running, reply, dead, respawning>>
    BY <1>1, <1>5, <2>2 DEF TypeOK, Runs
  <2> QED BY <2>1, <2>2 DEF CancelTask
<1>9. ~Runs(running', t)
  BY <1>8 DEF Runs, PoolAssumption
<1>10. \A u \in Tasks : u # t => (Runs(running', u) <=> Runs(running, u))
  BY <1>8 DEF Runs, PoolAssumption
<1>11. RunOnce(running')
  BY <1>1, <1>8 DEF TaskInv, RunOnce
<1>12. /\ port' \in [Tasks -> Seq(Messages)]
       /\ In(queue, t) \/ Runs(running, t) => port'[t] = <<"error">>
  <2>1. CASE In(queue, t) \/ Runs(running, t)
    <3>1. port[t] = <<>>
      BY <2>1, <1>1 DEF TaskInv
    <3>2. port' = [port EXCEPT ![t] = <<"error">>]
      BY <1>7, <2>1, <3>1, <1>1 DEF TypeOK
    <3> QED BY <3>2, <1>1 DEF TypeOK, Messages
  <2>2. CASE ~(In(queue, t) \/ Runs(running, t))
    BY <1>7, <2>2, <1>1 DEF TypeOK
  <2> QED BY <2>1, <2>2
<1>13. \A u \in Tasks : u # t => /\ port'[u] = port[u] /\ flag'[u] = flag[u]
                                 /\ client'[u] = client[u]
  BY <1>6, <1>7, <1>1 DEF TypeOK
<1>14. client'[t] = "listening" <=> client[t] = "listening"
  BY <1>1 DEF TypeOK
<1>15. TypeOK'
  <2>1. /\ flag \in [Tasks -> {"absent", "active", "cancelled"}]
        /\ client \in [Tasks -> {"idle", "preparing", "listening", "settled"}]
        /\ \A u \in Tasks : flag[u] = "absent" <=> client[u] \in {"idle", "settled"}
    BY <1>1 DEF TypeOK
  <2>2. /\ flag' \in [Tasks -> {"absent", "active", "cancelled"}]
        /\ \A u \in Tasks : flag'[u] = "absent" <=> flag[u] = "absent"
    BY <1>6, <2>1
  <2>3. /\ client' \in [Tasks -> {"idle", "preparing", "listening", "settled"}]
        /\ \A u \in Tasks : client'[u] \in {"idle", "settled"}
                             <=> client[u] \in {"idle", "settled"}
    BY <2>1
  <2>4. \A u \in Tasks : flag'[u] = "absent" <=> client'[u] \in {"idle", "settled"}
    BY <2>1, <2>2, <2>3
  <2> QED BY <1>1, <1>3, <1>8, <1>12, <2>2, <2>3, <2>4 DEF TypeOK
<1>16. TaskInv'
  <2>1. ASSUME NEW u \in Tasks
        PROVE  /\ Len(port'[u]) \in {0, 1}
               /\ In(queue', u) => ~Runs(running', u) /\ port'[u] = <<>>
               /\ Runs(running', u) => port'[u] = <<>>
               /\ client'[u] = "listening" <=> \/ In(queue', u) \/ Runs(running', u)
                                               \/ port'[u] # <<>>
               /\ flag'[u] = "cancelled" => ~In(queue', u) /\ ~Runs(running', u)
    <3>1. CASE u # t
      BY <3>1, <1>1, <1>3, <1>10, <1>13 DEF TaskInv
    <3>2. CASE u = t /\ (In(queue, t) \/ Runs(running, t))
      <4>1. Len(port'[t]) = 1 /\ port'[t] # <<>>
        <5>1. port'[t] = <<"error">>
          BY <3>2, <1>12
        <5> QED BY ONLY <5>1
      <4>2. client'[t] = "listening"
        BY <3>2, <1>1, <1>14 DEF TaskInv
      <4> QED BY <3>2, <4>1, <4>2, <1>3, <1>9
    <3>3. CASE u = t /\ ~(In(queue, t) \/ Runs(running, t))
      <4>1. port'[t] = port[t]
        BY <3>3, <1>7
      <4> QED BY <3>3, <4>1, <1>1, <1>3, <1>9, <1>14 DEF TaskInv
    <3> QED BY <3>1, <3>2, <3>3
  <2> QED BY <2>1, <1>3, <1>11 DEF TaskInv
<1>17. WorkerInv'
  <2>1. ASSUME NEW w \in Workers
        PROVE  /\ In(available, w) => running'[w] = NoTask /\ w \notin respawning' \cup lost
               /\ running'[w] # NoTask => w \notin respawning' \cup lost
               /\ w \in respawning' => w \notin lost
               /\ pool = "ready" => \/ In(available, w) \/ running'[w] # NoTask
                                    \/ w \in respawning' \cup lost
    <3>1. t # NoTask
      BY DEF PoolAssumption
    <3> QED BY <3>1, <1>1, <1>8 DEF WorkerInv
  <2>2. pool # "ready" => /\ available = <<>> /\ queue' = <<>>
                          /\ \A w \in Workers : running'[w] = NoTask
                          /\ respawning' = {} /\ lost = {}
    <3>1. t # NoTask
      BY DEF PoolAssumption
    <3> QED BY <3>1, <1>1, <1>3, <1>8 DEF WorkerInv
  <2>3. queue' # <<>> => available = <<>>
    BY <1>1, <1>3 DEF WorkerInv
  <2> QED BY <2>1, <2>2, <2>3, <1>1 DEF WorkerInv
<1> QED BY <1>15, <1>16, <1>17 DEF PoolInv

-----------------------------------------------------------------------------

\* Every step keeps tasks and workers in one place each.
LEMMA PoolInvStep == PoolAssumption /\ PoolInv /\ [Next]_vars => PoolInv'
<1> SUFFICES ASSUME PoolAssumption, PoolInv, [Next]_vars PROVE PoolInv'
  OBVIOUS
<1> USE DEF PoolAssumption
<1>1. TypeOK /\ TaskInv /\ WorkerInv
  BY DEF PoolInv
<1>2. CASE UNCHANGED vars
  <2>1. TypeOK'
    BY <1>1, <1>2 DEF vars, TypeOK
  <2>2. TaskInv' /\ WorkerInv'
    BY <1>1, <1>2 DEF vars, TaskInv, WorkerInv
  <2> QED BY <2>1, <2>2 DEF PoolInv
<1>3. CASE Initialize
  <2>1. TypeOK' /\ TaskInv' /\ WorkerInv'
    BY <1>1, <1>3 DEF Initialize, TypeOK, TaskInv, WorkerInv
  <2> QED BY <2>1 DEF PoolInv
<1>4. CASE Initialized
  <2>1. /\ available' \in Seq(Workers) /\ Once(available')
        /\ \A w \in Workers : In(available', w)
    BY <1>4, AllWorkers DEF Initialized
  <2>2. TypeOK'
    BY <1>1, <1>4, <2>1 DEF Initialized, TypeOK
  <2>3. TaskInv'
    BY <1>1, <1>4 DEF Initialized, TaskInv
  <2>4. WorkerInv'
    BY <1>1, <1>4, <2>1 DEF Initialized, WorkerInv
  <2> QED BY <2>2, <2>3, <2>4 DEF PoolInv
<1>5. CASE InitializeFails
  <2>1. TypeOK'
    BY <1>1, <1>5 DEF InitializeFails, TypeOK
  <2>2. TaskInv'
    <3>1. \A t \in Tasks : flag'[t] = "cancelled" => flag[t] = "cancelled"
      BY <1>1, <1>5 DEF InitializeFails, TypeOK
    <3>2. \A t \in Tasks : client'[t] = "listening" <=> client[t] = "listening"
      BY <1>1, <1>5 DEF InitializeFails, TypeOK
    <3>3. UNCHANGED <<queue, running, port>>
      BY <1>5 DEF InitializeFails
    <3> QED BY <1>1, <3>1, <3>2, <3>3 DEF TaskInv
  <2>3. WorkerInv'
    BY <1>1, <1>5 DEF InitializeFails, WorkerInv
  <2> QED BY <2>1, <2>2, <2>3 DEF PoolInv
<1>6. ASSUME NEW t \in Tasks, SubmitEarly(t) PROVE PoolInv'
  <2>1. TypeOK'
    BY <1>1, <1>6 DEF SubmitEarly, TypeOK
  <2>2. TaskInv'
    <3>1. \A u \in Tasks : flag'[u] = "cancelled" => flag[u] = "cancelled"
      BY <1>1, <1>6 DEF SubmitEarly, TypeOK
    <3>2. \A u \in Tasks : client'[u] = "listening" <=> client[u] = "listening"
      BY <1>1, <1>6 DEF SubmitEarly, TypeOK
    <3>3. UNCHANGED <<queue, running, port>>
      BY <1>6 DEF SubmitEarly
    <3> QED BY <1>1, <3>1, <3>2, <3>3 DEF TaskInv
  <2>3. WorkerInv'
    BY <1>1, <1>6 DEF SubmitEarly, WorkerInv
  <2> QED BY <2>1, <2>2, <2>3 DEF PoolInv
<1>7. ASSUME NEW t \in Tasks, Submit(t) PROVE PoolInv'
  <2>1. /\ pool = "ready" /\ pool' = "ready" /\ client[t] = "idle" /\ Enqueue(t)
        /\ client' = [client EXCEPT ![t] = "listening"]
        /\ flag' = [flag EXCEPT ![t] = "active"]
        /\ UNCHANGED <<port, reply, dead, respawning, lost>>
        /\ broken' = broken /\ submits < MaxSubmits /\ submits' = submits + 1
    BY <1>7 DEF Submit
  <2>2. client[t] # "listening" /\ flag[t] # "cancelled"
    BY <1>1, <2>1 DEF TypeOK
  <2>3. /\ TaskInv' /\ WorkerInv'
        /\ queue' \in Seq(Tasks) /\ available' \in Seq(Workers)
        /\ running' \in [Workers -> Tasks \cup {NoTask}]
    BY <2>1, <2>2, EnqueueKeeps
  <2>4. TypeOK'
    BY <1>1, <2>1, <2>3 DEF TypeOK
  <2> QED BY <2>3, <2>4 DEF PoolInv
<1>8. ASSUME NEW t \in Tasks, Proceed(t) PROVE PoolInv'
  <2>1. CASE flag[t] = "cancelled"
    <3>1. /\ flag' = [flag EXCEPT ![t] = "absent"]
          /\ client' = [client EXCEPT ![t] = "settled"]
          /\ client[t] = "preparing"
          /\ UNCHANGED <<queue, available, running, pool, port, reply, dead,
                         respawning, lost, broken, submits>>
      BY <1>8, <2>1 DEF Proceed
    <3>2. TypeOK'
      BY <1>1, <3>1 DEF TypeOK
    <3>3. TaskInv'
      <4>1. \A u \in Tasks : flag'[u] = "cancelled" => flag[u] = "cancelled"
        BY <1>1, <3>1 DEF TypeOK
      <4>2. \A u \in Tasks : client'[u] = "listening" <=> client[u] = "listening"
        BY <1>1, <3>1 DEF TypeOK
      <4> QED BY <1>1, <3>1, <4>1, <4>2 DEF TaskInv
    <3>4. WorkerInv'
      BY <1>1, <3>1 DEF WorkerInv
    <3> QED BY <3>2, <3>3, <3>4 DEF PoolInv
  <2>2. CASE flag[t] # "cancelled"
    <3>1. /\ pool = "ready" /\ pool' = "ready" /\ client[t] = "preparing" /\ Enqueue(t)
          /\ client' = [client EXCEPT ![t] = "listening"]
          /\ flag' = flag
          /\ UNCHANGED <<port, reply, dead, respawning, lost>>
          /\ UNCHANGED <<broken, submits>>
      BY <1>8, <2>2 DEF Proceed
    <3>2. client[t] # "listening" /\ flag' = [flag EXCEPT ![t] = "active"]
      BY <1>1, <2>2, <3>1 DEF TypeOK
    <3>3. /\ TaskInv' /\ WorkerInv'
          /\ queue' \in Seq(Tasks) /\ available' \in Seq(Workers)
          /\ running' \in [Workers -> Tasks \cup {NoTask}]
      BY <2>2, <3>1, <3>2, EnqueueKeeps
    <3>4. TypeOK'
      BY <1>1, <3>1, <3>3 DEF TypeOK
    <3> QED BY <3>3, <3>4 DEF PoolInv
  <2> QED BY <2>1, <2>2
<1>9. ASSUME NEW t \in Tasks, Cancel(t) PROVE PoolInv'
  BY <1>9, CancelKeeps DEF Cancel
<1>10. ASSUME NEW t \in Tasks, Deliver(t) PROVE PoolInv'
  <2>1. /\ client[t] = "listening" /\ port[t] # <<>>
        /\ flag' = [flag EXCEPT ![t] = "absent"]
        /\ client' = [client EXCEPT ![t] = "settled"]
        /\ port' = [port EXCEPT ![t] = <<>>]
        /\ UNCHANGED <<pool, queue, available, running, reply, dead, respawning, lost,
                       broken, submits>>
    BY <1>10 DEF Deliver
  <2>2. TypeOK'
    BY <1>1, <2>1 DEF TypeOK
  <2>3. TaskInv'
    <3>1. ~In(queue, t) /\ ~Runs(running, t)
      BY <1>1, <2>1 DEF TaskInv
    <3>2. /\ port'[t] = <<>> /\ client'[t] = "settled" /\ flag'[t] = "absent"
          /\ \A u \in Tasks : u # t => /\ port'[u] = port[u] /\ flag'[u] = flag[u]
                                       /\ client'[u] = client[u]
      BY <1>1, <2>1 DEF TypeOK
    <3> QED BY <1>1, <2>1, <3>1, <3>2 DEF TaskInv
  <2>4. WorkerInv'
    BY <1>1, <2>1 DEF WorkerInv
  <2> QED BY <2>2, <2>3, <2>4 DEF PoolInv
<1>11. ASSUME NEW t \in Tasks, Close(t) PROVE PoolInv'
  BY <1>11, CancelKeeps DEF Close
<1>12. ASSUME NEW w \in Workers, Answer(w) PROVE PoolInv'
  <2>1. TypeOK'
    BY <1>1, <1>12 DEF Answer, TypeOK
  <2>2. TaskInv' /\ WorkerInv'
    BY <1>1, <1>12 DEF Answer, TaskInv, WorkerInv
  <2> QED BY <2>1, <2>2 DEF PoolInv
<1>13. ASSUME NEW w \in Workers, Forward(w) PROVE PoolInv'
  <2> DEFINE t == running[w]
             r == [running EXCEPT ![w] = NoTask]
             a == Append(available, w)
  <2>1. /\ t # NoTask /\ reply[w] # "none"
        /\ port' = [port EXCEPT ![t] = Append(@, reply[w])]
        /\ reply' = [reply EXCEPT ![w] = "none"]
        /\ ProcessQueue(queue, a, r)
        /\ UNCHANGED <<pool, flag, client, dead, respawning, lost, broken, submits>>
    BY <1>13 DEF Forward, Send
  <2>2. t \in Tasks /\ reply[w] \in Messages
    BY <1>1, <2>1 DEF TypeOK
  <2>3. /\ r \in [Workers -> Tasks \cup {NoTask}] /\ r[w] = NoTask
        /\ \A v \in Workers : v # w => r[v] = running[v]
    BY <1>1 DEF TypeOK
  <2>4. pool = "ready" /\ ~In(available, w) /\ w \notin respawning \cup lost
    BY <1>1, <2>1 DEF WorkerInv
  <2>5. Runs(running, t) /\ port[t] = <<>> /\ ~In(queue, t)
    BY <1>1, <2>2 DEF TaskInv, Runs
  <2>6. port' = [port EXCEPT ![t] = <<reply[w]>>]
    BY <1>1, <2>1, <2>5 DEF TypeOK
  <2> HIDE DEF t, r
  <2>7. RunOnce(r)
    BY <1>1, <2>3 DEF TaskInv, RunOnce
  <2>8. Handed(queue, a, r)
    BY <2>1, <2>3, <2>4, <2>7, FreedKeeps
  <2>9. /\ ~Runs(r, t)
        /\ \A u \in Tasks : u # t => (Runs(r, u) <=> Runs(running, u))
    <3>1. running[w] = t
      BY DEF t
    <3>2. \A v \in Workers : running[v] = t => v = w
      BY <1>1, <2>1, <3>1 DEF TaskInv, RunOnce
    <3>3. \A v \in Workers : r[v] = IF v = w THEN NoTask ELSE running[v]
      BY <2>3
    <3> QED BY <2>2, <3>1, <3>2, <3>3 DEF Runs
  <2>10. TaskInv'
    <3>1. ASSUME NEW u \in Tasks
          PROVE  /\ Len(port'[u]) \in {0, 1}
                 /\ In(queue, u) \/ Runs(r, u) => port'[u] = <<>> /\ flag'[u] # "cancelled"
                 /\ client'[u] = "listening" <=> \/ In(queue, u) \/ Runs(r, u)
                                                 \/ port'[u] # <<>>
      <4>1. CASE u = t
        <5>1. port'[t] = <<reply[w]>>
          BY <1>1, <2>2, <2>6 DEF TypeOK
        <5>2. Len(port'[t]) = 1 /\ port'[t] # <<>>
          BY <5>1
        <5>3. client'[t] = "listening"
          BY <1>1, <2>1, <2>2, <2>5 DEF TaskInv
        <5> QED BY <4>1, <5>2, <5>3, <2>5, <2>9
      <4>2. CASE u # t
        <5>1. port'[u] = port[u] /\ flag'[u] = flag[u] /\ client'[u] = client[u]
          BY <1>1, <2>1, <2>6, <4>2 DEF TypeOK
        <5> QED BY <4>2, <5>1, <1>1, <2>9 DEF TaskInv
      <4> QED BY <4>1, <4>2
    <3> QED BY <3>1, <2>8, HandedTasks
  <2>11. WorkerInv'
    <3>1. \A v : In(a, v) <=> In(available, v) \/ v = w
      BY <1>1, <2>4, AppendOnce DEF TypeOK, WorkerInv
    <3> HIDE DEF a
    <3>2. \A v \in Workers : running[v] # NoTask => v = w \/ r[v] # NoTask
      BY <2>3
    <3>3. \A v \in Workers : r[v] # NoTask => running[v] # NoTask
      BY <2>3
    <3>4. pool' = "ready" /\ respawning' = respawning /\ lost' = lost
      BY <2>1, <2>4
    <3>5. \A v \in Workers :
            /\ In(a, v) \/ r[v] # NoTask => v \notin respawning' \cup lost'
            /\ v \in respawning' => v \notin lost'
            /\ \/ In(a, v) \/ r[v] # NoTask
               \/ v \in respawning' \cup lost'
      BY <1>1, <2>4, <3>1, <3>2, <3>3, <3>4 DEF WorkerInv
    <3> QED BY <2>8, <3>4, <3>5, HandedWorkers
  <2>12. TypeOK'
    <3>1. /\ queue' \in Seq(Tasks) /\ available' \in Seq(Workers)
          /\ running' \in [Workers -> Tasks \cup {NoTask}]
      BY <2>8 DEF Handed
    <3> HIDE DEF a
    <3>2. port' \in [Tasks -> Seq(Messages)]
      BY <1>1, <2>2, <2>6 DEF TypeOK
    <3>3. reply' \in [Workers -> Messages \cup {"none"}]
      BY <1>1, <2>1 DEF TypeOK
    <3> QED BY <1>1, <2>1, <3>1, <3>2, <3>3 DEF TypeOK
  <2> QED BY <2>10, <2>11, <2>12 DEF PoolInv
<1>14. ASSUME NEW w \in Workers, Crash(w) PROVE PoolInv'
  <2>1. CASE running[w] # NoTask /\ reply[w] = "none" /\ Send(running[w], "error") /\ Kill(w)
    <3> DEFINE t == running[w]
    <3>1. /\ running' = [running EXCEPT ![w] = NoTask]
          /\ reply' = [reply EXCEPT ![w] = "none"]
          /\ dead' = dead \ {w} /\ respawning' = respawning \cup {w}
          /\ port' = [port EXCEPT ![t] = Append(@, "error")]
          /\ pool = "ready" /\ w \notin respawning \cup lost
          /\ broken < MaxBroken /\ broken' = broken + 1
          /\ UNCHANGED <<pool, flag, client, queue, available, lost, submits>>
      BY <1>14, <2>1 DEF Crash, Kill, Send
    <3>2. t \in Tasks
      BY <1>1, <2>1 DEF TypeOK
    <3>3. Runs(running, t) /\ port[t] = <<>> /\ ~In(queue, t)
      BY <1>1, <3>2 DEF TaskInv, Runs
    <3>4. port' = [port EXCEPT ![t] = <<"error">>]
      BY <1>1, <3>1, <3>3 DEF TypeOK
    <3>5. \A v \in Workers : running'[v] = IF v = w THEN NoTask ELSE running[v]
      BY <1>1, <3>1 DEF TypeOK
    <3>6. TypeOK'
      <4>1. port' \in [Tasks -> Seq(Messages)]
        BY <1>1, <3>2, <3>4 DEF TypeOK, Messages
      <4> HIDE DEF t
      <4> QED BY <1>1, <3>1, <4>1 DEF TypeOK
    <3>7. TaskInv'
      <4>1. /\ ~Runs(running', t)
            /\ \A u \in Tasks : u # t => (Runs(running', u) <=> Runs(running, u))
        <5>1. \A v \in Workers : running[v] = t => v = w
          BY <1>1, <2>1 DEF TaskInv, RunOnce
        <5>2. running[w] = t
          OBVIOUS
        <5> HIDE DEF t
        <5> QED BY <3>2, <3>5, <5>1, <5>2 DEF Runs
      <4> HIDE DEF t
      <4>2. RunOnce(running')
        BY <1>1, <3>5 DEF TaskInv, RunOnce
      <4>3. /\ port'[t] = <<"error">>
            /\ \A u \in Tasks : u # t => port'[u] = port[u]
        BY <1>1, <3>2, <3>4 DEF TypeOK
      <4>4. Len(port'[t]) = 1 /\ port'[t] # <<>>
        BY <4>3
      <4>5. UNCHANGED <<queue, flag, client>>
        BY <3>1
      <4>6. ASSUME NEW u \in Tasks
            PROVE  /\ Len(port'[u]) \in {0, 1}
                   /\ In(queue, u) => ~Runs(running', u) /\ port'[u] = <<>>
                   /\ Runs(running', u) => port'[u] = <<>>
                   /\ client[u] = "listening" <=> \/ In(queue, u) \/ Runs(running', u)
                                                  \/ port'[u] # <<>>
                   /\ flag[u] = "cancelled" => ~In(queue, u) /\ ~Runs(running', u)
        <5>1. CASE u = t
          BY <5>1, <1>1, <3>2, <3>3, <4>1, <4>4 DEF TaskInv
        <5>2. CASE u # t
          BY <5>2, <1>1, <4>1, <4>3 DEF TaskInv
        <5> QED BY <5>1, <5>2
      <4> QED BY <4>2, <4>5, <4>6, <1>1 DEF TaskInv
    <3>8. WorkerInv'
      <4> HIDE DEF t
      <4>1. ~In(available, w)
        BY <1>1, <2>1 DEF WorkerInv
      <4> QED BY <1>1, <3>1, <3>5, <4>1 DEF WorkerInv
    <3> QED BY <3>6, <3>7, <3>8 DEF PoolInv
  <2>2. CASE dead' = dead \cup {w} /\ UNCHANGED <<port, running, reply, respawning>>
    <3>1. /\ UNCHANGED <<pool, flag, client, queue, available, lost, submits>>
          /\ broken < MaxBroken /\ broken' = broken + 1
      BY <1>14 DEF Crash
    <3>2. TypeOK'
      BY <1>1, <2>2, <3>1 DEF TypeOK
    <3>3. TaskInv' /\ WorkerInv'
      BY <1>1, <2>2, <3>1 DEF TaskInv, WorkerInv
    <3> QED BY <3>2, <3>3 DEF PoolInv
  <2> QED BY <1>14, <2>1, <2>2 DEF Crash
<1>15. ASSUME NEW w \in Workers, Respawned(w) PROVE PoolInv'
  <2> DEFINE a == Append(available, w)
  <2>1. /\ w \in respawning /\ respawning' = respawning \ {w}
        /\ ProcessQueue(queue, a, running)
        /\ UNCHANGED <<pool, flag, client, port, reply, dead, lost, broken, submits>>
    BY <1>15 DEF Respawned
  <2>2. pool = "ready" /\ ~In(available, w) /\ w \notin lost /\ running[w] = NoTask
    BY <1>1, <2>1 DEF WorkerInv
  <2>3. running \in [Workers -> Tasks \cup {NoTask}] /\ RunOnce(running)
    BY <1>1 DEF TypeOK, TaskInv
  <2>4. Handed(queue, a, running)
    BY <2>1, <2>2, <2>3, FreedKeeps
  <2>5. \A v : In(a, v) <=> In(available, v) \/ v = w
    BY <1>1, <2>2, AppendOnce DEF TypeOK, WorkerInv
  <2> HIDE DEF a
  <2>6. TaskInv'
    <3>1. \A u \in Tasks :
            /\ Len(port'[u]) \in {0, 1}
            /\ In(queue, u) \/ Runs(running, u) => port'[u] = <<>> /\ flag'[u] # "cancelled"
            /\ client'[u] = "listening" <=> \/ In(queue, u) \/ Runs(running, u)
                                            \/ port'[u] # <<>>
      BY <1>1, <2>1 DEF TaskInv
    <3> QED BY <3>1, <2>4, HandedTasks
  <2>7. WorkerInv'
    <3>1. pool' = "ready" /\ lost' = lost
      BY <2>1, <2>2
    <3>2. \A v \in Workers :
            /\ In(a, v) \/ running[v] # NoTask => v \notin respawning' \cup lost'
            /\ v \in respawning' => v \notin lost'
            /\ \/ In(a, v) \/ running[v] # NoTask
               \/ v \in respawning' \cup lost'
      BY <1>1, <2>1, <2>2, <2>5, <3>1 DEF WorkerInv
    <3> QED BY <2>4, <3>1, <3>2, HandedWorkers
  <2>8. TypeOK'
    <3>1. /\ queue' \in Seq(Tasks) /\ available' \in Seq(Workers)
          /\ running' \in [Workers -> Tasks \cup {NoTask}]
      BY <2>4 DEF Handed
    <3> QED BY <1>1, <2>1, <3>1 DEF TypeOK
  <2> QED BY <2>6, <2>7, <2>8 DEF PoolInv
<1>16. ASSUME NEW w \in Workers, RespawnFails(w) PROVE PoolInv'
  <2>1. TypeOK'
    BY <1>1, <1>16 DEF RespawnFails, TypeOK
  <2>2. TaskInv'
    BY <1>1, <1>16 DEF RespawnFails, TaskInv
  <2>3. WorkerInv'
    BY <1>1, <1>16 DEF RespawnFails, WorkerInv
  <2> QED BY <2>1, <2>2, <2>3 DEF PoolInv
<1> QED BY <1>2, <1>3, <1>4, <1>5, <1>6, <1>7, <1>8, <1>9, <1>10, <1>11, <1>12,
           <1>13, <1>14, <1>15, <1>16 DEF Next

\* The places of tasks and workers, for any numbers of both.
THEOREM PoolCorrect == PoolAssumption => (Spec => []PoolInv)
<1> SUFFICES ASSUME PoolAssumption PROVE Spec => []PoolInv
  OBVIOUS
<1>1. Init => PoolInv
  BY PoolInvInit
<1>2. PoolInv /\ [Next]_vars => PoolInv'
  BY PoolInvStep
<1> QED BY <1>1, <1>2, PTL DEF Spec

\* A task is queued once, executed by one worker or answered, exactly while
\* its submitter listens (download_isolate_pool.dart:403-445).
THEOREM PoolAnswersOnce == PoolAssumption => (Spec => []OneAnswer)
<1> SUFFICES ASSUME PoolAssumption PROVE Spec => []OneAnswer
  OBVIOUS
<1>1. ASSUME PoolInv PROVE OneAnswer
  <2> SUFFICES ASSUME NEW t \in Tasks
               PROVE  Places(t) = IF client[t] = "listening" THEN 1 ELSE 0
    BY DEF OneAnswer
  <2> DEFINE Q == {i \in DOMAIN queue : queue[i] = t}
             W == {w \in Workers : running[w] = t}
  <2>1. TypeOK /\ TaskInv
    BY <1>1 DEF PoolInv
  <2>2. Cardinality(Q) = IF In(queue, t) THEN 1 ELSE 0
    <3>1. DOMAIN queue = 1..Len(queue)
      BY <2>1 DEF TypeOK
    <3>2. CASE In(queue, t)
      <4>1. PICK i \in 1..Len(queue) : queue[i] = t
        BY <3>2 DEF In
      <4>2. Q = {i}
        BY <2>1, <3>1, <4>1 DEF TaskInv, Once
      <4> QED BY <3>2, <4>2, FS_Singleton
    <3>3. CASE ~In(queue, t)
      <4>1. Q = {}
        BY <3>1, <3>3 DEF In
      <4> QED BY <3>3, <4>1, FS_EmptySet
    <3> QED BY <3>2, <3>3
  <2>3. Cardinality(W) = IF Runs(running, t) THEN 1 ELSE 0
    <3>1. CASE Runs(running, t)
      <4>1. PICK w \in Workers : running[w] = t
        BY <3>1 DEF Runs
      <4>2. W = {w}
        BY <2>1, <4>1 DEF TaskInv, RunOnce, PoolAssumption
      <4> QED BY <3>1, <4>2, FS_Singleton
    <3>2. CASE ~Runs(running, t)
      <4>1. W = {}
        BY <3>2 DEF Runs
      <4> QED BY <3>2, <4>1, FS_EmptySet
    <3> QED BY <3>1, <3>2
  <2>4. Places(t) = Cardinality(Q) + Cardinality(W) + Len(port[t])
    BY DEF Places
  <2>5. port[t] # <<>> <=> Len(port[t]) = 1
    <3>1. port[t] \in Seq(Messages) /\ Len(port[t]) \in {0, 1}
      BY <2>1 DEF TypeOK, TaskInv
    <3> DEFINE p == port[t]
    <3>2. p \in Seq(Messages) /\ Len(p) \in {0, 1}
      BY <3>1
    <3> HIDE DEF p
    <3>3. p # <<>> <=> Len(p) = 1
      BY ONLY <3>2
    <3> QED BY <3>3 DEF p
  <2>6. Len(port[t]) = IF port[t] # <<>> THEN 1 ELSE 0
    BY <2>1, <2>5 DEF TypeOK, TaskInv
  <2> HIDE DEF Q, W
  <2> QED BY <2>1, <2>2, <2>3, <2>4, <2>6 DEF TaskInv
<1>2. PoolInv => OneAnswer
  BY <1>1
<1>3. Spec => []PoolInv
  BY PoolCorrect
<1> QED BY <1>2, <1>3, PTL

\* The workers of a started pool: none is used twice and none leaks
\* (download_isolate_pool.dart:257-270).
THEOREM PoolKeepsWorkers == PoolAssumption => (Spec => []WorkersAccounted)
<1> SUFFICES ASSUME PoolAssumption PROVE Spec => []WorkersAccounted
  OBVIOUS
<1>1. ASSUME PoolInv PROVE WorkersAccounted
  <2> SUFFICES ASSUME pool = "ready" PROVE WorkersAccounted
    BY DEF WorkersAccounted
  <2>1. TypeOK /\ WorkerInv
    BY <1>1 DEF PoolInv
  <2>2. DOMAIN available = 1..Len(available)
    BY <2>1 DEF TypeOK
  <2>3. \A i, j \in DOMAIN available : available[i] = available[j] => i = j
    BY <2>1, <2>2 DEF WorkerInv, Once
  <2>4. ASSUME NEW w \in Workers
        PROVE  Cardinality({k \in {"free", "busy", "respawning", "lost"} :
                              \/ k = "free" /\ w \in Range(available)
                              \/ k = "busy" /\ running[w] # NoTask
                              \/ k = "respawning" /\ w \in respawning
                              \/ k = "lost" /\ w \in lost}) = 1
    <3> DEFINE K == {k \in {"free", "busy", "respawning", "lost"} :
                       \/ k = "free" /\ w \in Range(available)
                       \/ k = "busy" /\ running[w] # NoTask
                       \/ k = "respawning" /\ w \in respawning
                       \/ k = "lost" /\ w \in lost}
    <3>1. w \in Range(available) <=> In(available, w)
      BY <2>2 DEF Range, In
    <3>2. \E k : K = {k}
      <4>1. CASE In(available, w)
        <5>1. K = {"free"}
          BY <4>1, <3>1, <2>1 DEF WorkerInv
        <5> QED BY <5>1
      <4>2. CASE running[w] # NoTask
        <5>1. K = {"busy"}
          BY <4>2, <3>1, <2>1 DEF WorkerInv
        <5> QED BY <5>1
      <4>3. CASE w \in respawning
        <5>1. K = {"respawning"}
          BY <4>3, <3>1, <2>1 DEF WorkerInv
        <5> QED BY <5>1
      <4>4. CASE w \in lost
        <5>1. K = {"lost"}
          BY <4>4, <3>1, <2>1 DEF WorkerInv
        <5> QED BY <5>1
      <4> QED BY <4>1, <4>2, <4>3, <4>4, <2>1 DEF WorkerInv
    <3> HIDE DEF K
    <3>3. Cardinality(K) = 1
      BY <3>2, FS_Singleton
    <3> QED BY <3>3 DEF K
  <2> QED BY <2>3, <2>4 DEF WorkersAccounted
<1>2. PoolInv => WorkersAccounted
  BY <1>1
<1>3. Spec => []PoolInv
  BY PoolCorrect
<1> QED BY <1>2, <1>3, PTL

\* A cancelled task neither waits nor runs, and no task waits while a worker is
\* free (download_isolate_pool.dart:214-227, 235-239).
THEOREM PoolStopsAndStarts == PoolAssumption => (Spec => [](CancelStops /\ NoIdleWorker))
<1> SUFFICES ASSUME PoolAssumption PROVE Spec => [](CancelStops /\ NoIdleWorker)
  OBVIOUS
<1>1. ASSUME PoolInv PROVE CancelStops /\ NoIdleWorker
  <2>1. TypeOK /\ TaskInv /\ WorkerInv
    BY <1>1 DEF PoolInv
  <2>2. ASSUME NEW t \in Tasks
        PROVE  /\ t \in Range(queue) <=> In(queue, t)
               /\ t \in Range(running) <=> Runs(running, t)
    <3>1. DOMAIN queue = 1..Len(queue) /\ DOMAIN running = Workers
      BY <2>1 DEF TypeOK
    <3> QED BY <3>1 DEF Range, In, Runs
  <2>3. CancelStops
    BY <2>1, <2>2 DEF CancelStops, TaskInv
  <2> QED BY <2>1, <2>3 DEF NoIdleWorker, WorkerInv
<1>2. PoolInv => CancelStops /\ NoIdleWorker
  BY <1>1
<1>3. Spec => []PoolInv
  BY PoolCorrect
<1> QED BY <1>2, <1>3, PTL

=============================================================================
