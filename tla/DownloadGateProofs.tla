-------------------------- MODULE DownloadGateProofs --------------------------
(***************************************************************************)
(* Proofs about DownloadGate, for any finite set of downloads, any map of  *)
(* downloads to sources, any settings and any orders of the queue.         *)
(***************************************************************************)
EXTENDS DownloadGate, FiniteSetTheorems, SequenceTheorems, WellFoundedInduction,
        TLAPS

\* Type correctness of one pass of _dispatch over any line of downloads.
LEMMA DispatchType ==
  ASSUME NEW line \in Seq(Downloads), NEW count \in Nat,
         NEW sources \in SUBSET Range(SourceOf),
         GateAssumption, launching \subseteq Downloads,
         Dispatch(line, count, sources)
  PROVE  /\ waiters' \in Seq(Downloads)
         /\ active' \in Nat
         /\ activeSources' \subseteq Range(SourceOf)
         /\ launching' \subseteq Downloads
<1>1. CASE count >= maxConcurrent' /\ waiters' = line /\ active' = count
           /\ activeSources' = sources /\ UNCHANGED launching
  BY <1>1
<1>2. ASSUME NEW G \in SUBSET Range(line),
             waiters' \in LineUps(line, Range(line) \ G),
             active' = count + Cardinality(G),
             activeSources' = sources \cup {SourceOf[d] : d \in G},
             launching' = launching \cup G
      PROVE  /\ waiters' \in Seq(Downloads)
             /\ active' \in Nat
             /\ activeSources' \subseteq Range(SourceOf)
             /\ launching' \subseteq Downloads
  <2>1. Range(line) \subseteq Downloads
    BY RangeOfSeq
  <2>2. IsFiniteSet(G) /\ IsFiniteSet(Range(line) \ G)
    BY <2>1, FS_Subset DEF GateAssumption
  <2>3. Cardinality(G) \in Nat /\ Cardinality(Range(line) \ G) \in Nat
    BY <2>2, FS_CardinalityType
  <2>4. waiters' \in [1..Cardinality(Range(line) \ G) -> Range(line) \ G]
    BY <1>2 DEF LineUps
  <2>5. waiters' \in Seq(Downloads)
    <3> DEFINE n == Cardinality(Range(line) \ G)
    <3>1. n \in Nat /\ waiters' \in [1..n -> Downloads]
      BY <2>1, <2>3, <2>4
    <3> HIDE DEF n
    <3> QED BY <3>1, SeqDef
  <2>6. {SourceOf[d] : d \in G} \subseteq Range(SourceOf)
    BY <2>1 DEF GateAssumption, Range
  <2> QED BY <1>2, <2>1, <2>3, <2>5, <2>6
<1> QED BY <1>1, <1>2 DEF Dispatch

\* Every step keeps the types.
LEMMA TypeStep ==
  ASSUME GateAssumption, TypeOK, [Next]_vars
  PROVE  TypeOK'
<1>1. ASSUME NEW d \in Downloads, NEW setting \in Settings,
             Acquire(d, setting)
      PROVE  TypeOK'
  <2>1. Append(waiters, d) \in Seq(Downloads)
    BY DEF TypeOK
  <2>2. maxConcurrent' \in Nat \ {0}
    <3>1. setting \in Int
      BY DEF GateAssumption
    <3> QED BY <3>1, <1>1 DEF Acquire
  <2> QED BY <1>1, <2>1, <2>2, DispatchType DEF Acquire, TypeOK
<1>2. ASSUME NEW d \in Downloads, Launch(d) PROVE TypeOK'
  BY <1>2 DEF Launch, TypeOK
<1>3. ASSUME NEW d \in Downloads, Release(d) PROVE TypeOK'
  <2> DEFINE count == IF active > 0 THEN active - 1 ELSE active
  <2>1. count \in Nat
    BY DEF TypeOK
  <2>2. activeSources \ {SourceOf[d]} \in SUBSET Range(SourceOf)
    BY DEF TypeOK
  <2> HIDE DEF count
  <2>3. Dispatch(waiters, count, activeSources \ {SourceOf[d]})
    BY <1>3 DEF Release, count
  <2> QED BY <1>3, <2>1, <2>2, <2>3, DispatchType DEF Release, TypeOK
<1>4. ASSUME NEW order \in Orders, SetOrder(order) PROVE TypeOK'
  BY <1>4 DEF SetOrder, TypeOK, GateAssumption, gateVars
<1>5. CASE UNCHANGED vars
  BY <1>5 DEF vars, TypeOK
<1> QED BY <1>1, <1>2, <1>3, <1>4, <1>5 DEF Next

\* The gate's variables keep their types: the counter never goes negative and
\* the limit never drops to zero, whatever the setting says.
THEOREM GateTypeCorrect == GateAssumption => (Spec => []TypeOK)
<1> SUFFICES ASSUME GateAssumption PROVE Spec => []TypeOK
  OBVIOUS
<1>1. Init => TypeOK
  BY DEF Init, TypeOK, GateAssumption
<1>2. TypeOK /\ [Next]_vars => TypeOK'
  BY TypeStep
<1> QED BY <1>1, <1>2, PTL DEF Spec

-----------------------------------------------------------------------------
(* The order of the line *)

\* The sort key is a number and tells the downloads of the line apart.
LEMMA RankInjective ==
  ASSUME GateAssumption, NEW line \in Seq(Downloads), queueOrder \in Orders,
         NEW d \in Range(line), NEW e \in Range(line)
  PROVE  /\ Rank(line, d) \in Nat
         /\ Rank(line, d) = Rank(line, e) => d = e
<1>1. \A x \in Range(line) : /\ Place(line, x) \in DOMAIN line
                             /\ line[Place(line, x)] = x
  BY DEF Place, Range
<1>2. \A x \in Range(queueOrder) :
        /\ Place(queueOrder, x) \in DOMAIN queueOrder
        /\ queueOrder[Place(queueOrder, x)] = x
  BY DEF Place, Range
<1>3. DOMAIN line = 1..Len(line) /\ Len(line) \in Nat
  OBVIOUS
<1>4. DOMAIN queueOrder = 1..Len(queueOrder) /\ Len(queueOrder) \in Nat
  BY DEF GateAssumption
<1>5. \A x \in Range(line) :
        \/ /\ x \in Range(queueOrder)
           /\ Rank(line, x) = Place(queueOrder, x)
           /\ Rank(line, x) \in 1..Len(queueOrder)
        \/ /\ x \notin Range(queueOrder)
           /\ Rank(line, x) = Len(queueOrder) + Place(line, x)
           /\ Place(line, x) \in 1..Len(line)
  BY <1>1, <1>2, <1>3, <1>4 DEF Rank
<1> QED BY <1>1, <1>2, <1>3, <1>4, <1>5

\* A set of waiters that is not empty has one that is behind all others.
LEMMA LastWaiter ==
  ASSUME GateAssumption, NEW line \in Seq(Downloads), queueOrder \in Orders,
         NEW G \in SUBSET Range(line), G # {}
  PROVE  \E g \in G : \A e \in G \ {g} : Ahead(line, e, g)
<1> DEFINE Behind(g) == {e \in G : Ahead(line, g, e)}
           T == {Behind(g) : g \in G}
<1>1. IsFiniteSet(G)
  BY RangeOfSeq, FS_Subset DEF GateAssumption
<1>2. IsWellFoundedOn(StrictSubsetOrdering(G), FiniteSubsetsOf(G))
  BY <1>1, FS_StrictSubsetOrderingWellFounded
<1>3. T \subseteq FiniteSubsetsOf(G) /\ T # {}
  <2>1. FiniteSubsetsOf(G) = SUBSET G
    BY <1>1, FS_FiniteSubsetsOfFinite
  <2>2. \A g \in G : Behind(g) \in SUBSET G
    OBVIOUS
  <2>3. T \subseteq SUBSET G
    <3> HIDE DEF Behind
    <3> QED BY <2>2
  <2>4. T # {}
    <3> HIDE DEF Behind
    <3> QED OBVIOUS
  <2> HIDE DEF T
  <2> QED BY <2>1, <2>3, <2>4
<1>4. PICK x \in T : \A y \in T : <<y, x>> \notin StrictSubsetOrdering(G)
  <2> HIDE DEF T
  <2> QED BY <1>2, <1>3, WFMin
<1>5. PICK g \in G : x = Behind(g)
  BY <1>4
<1>6. Behind(g) = {}
  <2> SUFFICES ASSUME NEW e \in Behind(g) PROVE FALSE
    OBVIOUS
  <2>1. \A h \in G : Rank(line, h) \in Nat
    BY RankInjective
  <2>2. Behind(e) \subseteq Behind(g)
    BY <2>1 DEF Ahead
  <2>3. e \in Behind(g) /\ e \notin Behind(e)
    BY <2>1 DEF Ahead
  <2>4. <<Behind(e), Behind(g)>> \in StrictSubsetOrdering(G)
    BY <2>2, <2>3 DEF StrictSubsetOrdering
  <2> QED BY <1>4, <1>5, <2>4
<1>7. ASSUME NEW e \in G \ {g} PROVE Ahead(line, e, g)
  <2>1. Rank(line, e) \in Nat /\ Rank(line, g) \in Nat
        /\ Rank(line, e) # Rank(line, g)
    BY RankInjective
  <2> QED BY <1>6, <2>1 DEF Ahead
<1> QED BY <1>7

-----------------------------------------------------------------------------
(* What one pass of _dispatch does *)

SourcesOf(S) == {SourceOf[d] : d \in S}
Serial(S) == \A d, e \in S : SourceOf[d] = SourceOf[e] => d = e
Injective(line) == \A i, j \in DOMAIN line : line[i] = line[j] => i = j

\* A pass of _dispatch that finds the downloads H past the gate hands slots to
\* some of the line: it keeps the counter, the sources and the line accurate,
\* keeps sources serial, stays below the limit, and leaves nobody waiting who
\* could be served.
Served(line, H) ==
  \E G \in SUBSET Range(line) :
    /\ launching' = launching \cup G
    /\ Range(waiters') = Range(line) \ G
    /\ Injective(waiters')
    /\ active' = Cardinality(H \cup G)
    /\ activeSources' = SourcesOf(H \cup G)
    /\ Serial(H \cup G)
    /\ G # {} => Cardinality(H \cup G) <= maxConcurrent'
    /\ \A d \in Range(line) \ G :
         \/ Cardinality(H \cup G) >= maxConcurrent'
         \/ SourceOf[d] \in SourcesOf(H \cup G)

LEMMA DispatchServes ==
  ASSUME GateAssumption, queueOrder \in Orders,
         NEW line \in Seq(Downloads), Injective(line),
         NEW H \in SUBSET Downloads, Serial(H), Range(line) \cap H = {},
         maxConcurrent' \in Nat \ {0},
         Dispatch(line, Cardinality(H), SourcesOf(H))
  PROVE  Served(line, H)
<1>0. IsFiniteSet(H) /\ Cardinality(H) \in Nat /\ Range(line) \subseteq Downloads
  BY FS_Subset, FS_CardinalityType, RangeOfSeq DEF GateAssumption
<1>1. CASE /\ Cardinality(H) >= maxConcurrent'
           /\ waiters' = line
           /\ active' = Cardinality(H)
           /\ activeSources' = SourcesOf(H)
           /\ UNCHANGED launching
  <2>1. H \cup {} = H /\ Range(line) \ {} = Range(line)
    OBVIOUS
  <2>2. {} \in SUBSET Range(line)
    OBVIOUS
  <2> QED BY <1>0, <1>1, <2>1, <2>2 DEF Served
<1>2. ASSUME Cardinality(H) < maxConcurrent',
             NEW G \in SUBSET Range(line),
             Scan(line, Cardinality(H), SourcesOf(H), G),
             waiters' \in LineUps(line, Range(line) \ G),
             active' = Cardinality(H) + Cardinality(G),
             activeSources' = SourcesOf(H) \cup SourcesOf(G),
             launching' = launching \cup G
      PROVE  Served(line, H)
  <2> DEFINE granted(d) == {e \in G : Ahead(line, e, d)}
  <2>1. /\ IsFiniteSet(G) /\ Cardinality(G) \in Nat
        /\ \A d \in Downloads : /\ IsFiniteSet(granted(d))
                                /\ Cardinality(granted(d)) \in Nat
                                /\ Cardinality(granted(d)) <= Cardinality(G)
    <3>1. IsFiniteSet(G)
      BY <1>0, FS_Subset DEF GateAssumption
    <3>2. \A d \in Downloads : granted(d) \in SUBSET G
      OBVIOUS
    <3> HIDE DEF granted
    <3> QED BY <3>1, <3>2, FS_Subset, FS_CardinalityType
  <2>2. Cardinality(H \cup G) = Cardinality(H) + Cardinality(G)
    <3>1. H \cap G = {}
      OBVIOUS
    <3>2. Cardinality(H \cap G) = 0
      BY <3>1, FS_EmptySet
    <3>3. Cardinality(H \cup G)
            = Cardinality(H) + Cardinality(G) - Cardinality(H \cap G)
      BY <1>0, <2>1, FS_Union
    <3> QED BY <1>0, <2>1, <3>2, <3>3
  <2>3. \A d \in Range(line) :
          d \in G <=> /\ Cardinality(H) + Cardinality(granted(d)) < maxConcurrent'
                      /\ SourceOf[d] \notin SourcesOf(H)
                      /\ \A e \in granted(d) : SourceOf[e] # SourceOf[d]
    BY <1>2 DEF Scan
  <2>4. Serial(H \cup G)
    <3>1. ASSUME NEW d \in G, NEW e \in G, SourceOf[d] = SourceOf[e]
          PROVE  d = e
      <4>1. ~ Ahead(line, d, e) /\ ~ Ahead(line, e, d)
        BY <2>3, <3>1
      <4> QED BY <4>1, RankInjective DEF Ahead
    <3>2. ASSUME NEW d \in G, NEW h \in H PROVE SourceOf[d] # SourceOf[h]
      BY <2>3 DEF SourcesOf
    <3> QED BY <3>1, <3>2 DEF Serial
  <2>5. G # {} => Cardinality(H \cup G) <= maxConcurrent'
    <3> SUFFICES ASSUME G # {} PROVE Cardinality(H \cup G) <= maxConcurrent'
      OBVIOUS
    <3>1. PICK g \in G : \A e \in G \ {g} : Ahead(line, e, g)
      BY LastWaiter
    <3>2. G \ {g} \subseteq granted(g)
      BY <3>1
    <3>3. Cardinality(G \ {g}) = Cardinality(G) - 1
      BY <2>1, FS_RemoveElement
    <3>4. g \in Downloads
      BY <1>0
    <3>5. Cardinality(G \ {g}) <= Cardinality(granted(g))
      BY <2>1, <3>2, <3>4, FS_Subset
    <3>6. Cardinality(H) + Cardinality(granted(g)) < maxConcurrent'
      BY <2>3
    <3>7. Cardinality(granted(g)) \in Nat
      BY <2>1, <3>4
    <3> HIDE DEF granted
    <3> QED BY <1>0, <2>1, <2>2, <3>3, <3>5, <3>6, <3>7
  <2>6. ASSUME NEW d \in Range(line) \ G
        PROVE  \/ Cardinality(H \cup G) >= maxConcurrent'
               \/ SourceOf[d] \in SourcesOf(H \cup G)
    <3>1. \/ Cardinality(H) + Cardinality(granted(d)) >= maxConcurrent'
          \/ SourceOf[d] \in SourcesOf(H)
          \/ \E e \in granted(d) : SourceOf[e] = SourceOf[d]
      <4>1. Cardinality(granted(d)) \in Nat
        <5>1. d \in Downloads
          BY <1>0
        <5> HIDE DEF granted
        <5> QED BY <2>1, <5>1
      <4> HIDE DEF granted
      <4> QED BY <1>0, <2>3, <4>1
    <3>2. Cardinality(granted(d)) <= Cardinality(G)
          /\ Cardinality(granted(d)) \in Nat
      <4>1. d \in Downloads
        BY <1>0
      <4> HIDE DEF granted
      <4> QED BY <2>1, <4>1
    <3>3. granted(d) \subseteq G
      OBVIOUS
    <3> HIDE DEF granted
    <3> QED BY <1>0, <2>1, <2>2, <3>1, <3>2, <3>3 DEF SourcesOf
  <2>7. Range(waiters') = Range(line) \ G
    BY <1>2 DEF LineUps
  <2>8. Injective(waiters')
    <3> SUFFICES ASSUME NEW i \in DOMAIN waiters', NEW j \in DOMAIN waiters',
                        waiters'[i] = waiters'[j], i # j
                 PROVE  FALSE
      BY DEF Injective
    <3> DEFINE n == Cardinality(Range(line) \ G)
    <3>1. n \in Nat
      BY <1>0, FS_Subset, FS_CardinalityType DEF GateAssumption
    <3>2. DOMAIN waiters' = 1..n
      BY <1>2 DEF LineUps
    <3>3. i < j \/ j < i
      BY <3>1, <3>2
    <3>4. waiters'[i] \in Range(line)
      BY <2>7 DEF Range
    <3>5. \/ Ahead(line, waiters'[i], waiters'[j])
          \/ Ahead(line, waiters'[j], waiters'[i])
      BY <1>2, <3>3 DEF LineUps
    <3> QED BY <3>4, <3>5, RankInjective DEF Ahead
  <2>9. activeSources' = SourcesOf(H \cup G)
    BY <1>2 DEF SourcesOf
  <2> QED BY <1>2, <2>2, <2>4, <2>5, <2>6, <2>7, <2>8, <2>9 DEF Served
<1> QED BY <1>1, <1>2 DEF Dispatch, SourcesOf

-----------------------------------------------------------------------------
(* The inductive invariant *)

\* The gate's safety invariants together are inductive: a grant is sound only
\* because the counter and the source set describe exactly the downloads past
\* the gate, and a release frees the right source only because it is serial.
GateInv == TypeOK /\ SlotsAccounted /\ SourceIsSerial /\ WaitsOnce /\ NoIdleSlot

\* Whoever is past the gate after a pass of _dispatch that found H there.
LEMMA ServedKeepsInv ==
  ASSUME TypeOK', NEW line, NEW H, Served(line, H),
         H = launching \cup running', launching \cap running' = {},
         Range(line) \cap H = {}
  PROVE  GateInv'
<1>1. PICK G \in SUBSET Range(line) :
        /\ launching' = launching \cup G
        /\ Range(waiters') = Range(line) \ G
        /\ Injective(waiters')
        /\ active' = Cardinality(H \cup G)
        /\ activeSources' = SourcesOf(H \cup G)
        /\ Serial(H \cup G)
        /\ \A d \in Range(line) \ G :
             \/ Cardinality(H \cup G) >= maxConcurrent'
             \/ SourceOf[d] \in SourcesOf(H \cup G)
  BY DEF Served
<1>2. holders' = H \cup G
  BY <1>1 DEF holders
<1>3. SlotsAccounted'
  BY <1>1, <1>2 DEF SlotsAccounted, SourcesOf
<1>4. SourceIsSerial'
  BY <1>1, <1>2 DEF SourceIsSerial, Serial
<1>5. WaitsOnce'
  BY <1>1, <1>2 DEF WaitsOnce, Injective
<1>6. NoIdleSlot'
  BY <1>1 DEF NoIdleSlot
<1> QED BY <1>3, <1>4, <1>5, <1>6 DEF GateInv

\* An acquire dispatches the line with the newcomer at its end.
LEMMA AcquireServes ==
  ASSUME GateAssumption, GateInv, NEW d \in Downloads, NEW setting \in Settings,
         Acquire(d, setting)
  PROVE  /\ Range(Append(waiters, d)) = Range(waiters) \cup {d}
         /\ Range(Append(waiters, d)) \cap holders = {}
         /\ Served(Append(waiters, d), holders)
<1> DEFINE line == Append(waiters, d)
<1>1. line \in Seq(Downloads) /\ waiters \in Seq(Downloads)
  BY DEF GateInv, TypeOK
<1>2. /\ DOMAIN line = 1..(Len(waiters) + 1)
      /\ DOMAIN waiters = 1..Len(waiters)
      /\ Len(waiters) \in Nat
      /\ \A i \in 1..Len(waiters) : line[i] = waiters[i]
      /\ line[Len(waiters) + 1] = d
  BY <1>1
<1> HIDE DEF line
<1>3. Range(line) = Range(waiters) \cup {d}
  <2>1. ASSUME NEW x \in Range(line) PROVE x \in Range(waiters) \cup {d}
    <3>1. PICK i \in 1..(Len(waiters) + 1) : line[i] = x
      BY <1>2 DEF Range
    <3>2. i \in 1..Len(waiters) \/ i = Len(waiters) + 1
      BY <1>2
    <3> QED BY <1>2, <3>1, <3>2 DEF Range
  <2>2. ASSUME NEW x \in Range(waiters) \cup {d} PROVE x \in Range(line)
    <3>1. CASE x = d
      <4>1. Len(waiters) + 1 \in DOMAIN line
        BY <1>2
      <4> QED BY <1>2, <3>1, <4>1 DEF Range
    <3>2. CASE x \in Range(waiters)
      <4>1. PICK i \in 1..Len(waiters) : waiters[i] = x
        BY <1>2, <3>2 DEF Range
      <4>2. i \in DOMAIN line /\ line[i] = x
        BY <1>2, <4>1
      <4> QED BY <4>2 DEF Range
    <3> QED BY <3>1, <3>2
  <2> QED BY <2>1, <2>2
<1>4. d \notin Range(waiters) /\ d \notin holders
  BY DEF Acquire
<1>5. Injective(line)
  <2> SUFFICES ASSUME NEW i \in DOMAIN line, NEW j \in DOMAIN line,
                      line[i] = line[j]
               PROVE  i = j
    BY DEF Injective
  <2>1. \A k \in 1..Len(waiters) : waiters[k] # d
    BY <1>2, <1>4 DEF Range
  <2>2. i \in 1..Len(waiters) \/ i = Len(waiters) + 1
    BY <1>2
  <2>3. j \in 1..Len(waiters) \/ j = Len(waiters) + 1
    BY <1>2
  <2>4. \A k, l \in 1..Len(waiters) : waiters[k] = waiters[l] => k = l
    BY <1>2 DEF GateInv, WaitsOnce
  <2> QED BY <1>2, <2>1, <2>2, <2>3, <2>4
<1>6. Range(line) \cap holders = {}
  BY <1>3, <1>4 DEF GateInv, WaitsOnce
<1>7. maxConcurrent' \in Nat \ {0}
  <2>1. setting \in Int
    BY DEF GateAssumption
  <2> QED BY <2>1 DEF Acquire
<1>8. Dispatch(line, Cardinality(holders), SourcesOf(holders))
  BY DEF Acquire, line, GateInv, SlotsAccounted, SourcesOf
<1>9. Serial(holders) /\ holders \in SUBSET Downloads /\ queueOrder \in Orders
  BY DEF GateInv, SourceIsSerial, Serial, TypeOK, holders
<1>10. Served(line, holders)
  BY <1>1, <1>5, <1>6, <1>7, <1>8, <1>9, DispatchServes
<1> QED BY <1>3, <1>6, <1>10 DEF line

\* A release dispatches the line for the downloads that are left.
LEMMA ReleaseServes ==
  ASSUME GateAssumption, GateInv, NEW d \in Downloads, Release(d)
  PROVE  /\ launching \cup running' = holders \ {d}
         /\ launching \cap running' = {}
         /\ d \in holders
         /\ Range(waiters) \cap (holders \ {d}) = {}
         /\ Served(waiters, holders \ {d})
<1> DEFINE H == holders \ {d}
<1>1. /\ launching \cup running' = H
      /\ launching \cap running' = {}
      /\ d \in holders
  BY DEF Release, holders, GateInv, SlotsAccounted
<1>2. Range(waiters) \cap H = {}
  BY DEF GateInv, WaitsOnce
<1>3. IsFiniteSet(holders) /\ Cardinality(holders) \in Nat /\ H \in SUBSET Downloads
  <2>1. holders \in SUBSET Downloads
    BY DEF GateInv, TypeOK, holders
  <2> QED BY <2>1, FS_Subset, FS_CardinalityType DEF GateAssumption
<1>4. Cardinality(H) = IF active > 0 THEN active - 1 ELSE active
  <2>1. Cardinality(H) = Cardinality(holders) - 1
    BY <1>1, <1>3, FS_RemoveElement
  <2>2. Cardinality(H) \in Nat
    BY <1>3, FS_RemoveElement, FS_CardinalityType
  <2>3. active = Cardinality(holders)
    BY DEF GateInv, SlotsAccounted
  <2> HIDE DEF H
  <2> QED BY <1>3, <2>1, <2>2, <2>3
<1>5. SourcesOf(H) = activeSources \ {SourceOf[d]}
  <2>1. \A e \in holders : SourceOf[e] = SourceOf[d] => e = d
    BY <1>1 DEF GateInv, SourceIsSerial
  <2> QED BY <1>1, <2>1 DEF GateInv, SlotsAccounted, SourcesOf
<1>6. Dispatch(waiters, Cardinality(H), SourcesOf(H))
  <2>1. Dispatch(waiters, IF active > 0 THEN active - 1 ELSE active,
                 activeSources \ {SourceOf[d]})
    BY DEF Release
  <2> QED BY <1>4, <1>5, <2>1
<1>7. Serial(H) /\ Injective(waiters) /\ waiters \in Seq(Downloads)
      /\ queueOrder \in Orders
  BY DEF GateInv, SourceIsSerial, Serial, WaitsOnce, Injective, TypeOK
<1>8. maxConcurrent' \in Nat \ {0}
  BY DEF Release, GateInv, TypeOK
<1> HIDE DEF H
<1>9. Served(waiters, H)
  BY <1>2, <1>3, <1>6, <1>7, <1>8, DispatchServes
<1> QED BY <1>1, <1>2, <1>9 DEF H

\* The initial gate is empty.
LEMMA GateInvInit == ASSUME GateAssumption, Init PROVE GateInv
<1>1. holders = {} /\ Range(waiters) = {} /\ DOMAIN waiters = {}
  BY DEF Init, holders, Range
<1>2. Cardinality(holders) = 0
  BY <1>1, FS_EmptySet
<1>3. TypeOK
  BY DEF Init, TypeOK, GateAssumption
<1>4. SlotsAccounted
  BY <1>1, <1>2 DEF Init, SlotsAccounted
<1> QED BY <1>1, <1>3, <1>4
        DEF GateInv, SourceIsSerial, WaitsOnce, NoIdleSlot

LEMMA GateInvStep ==
  ASSUME GateAssumption, GateInv, [Next]_vars
  PROVE  GateInv'
<1>0. TypeOK /\ TypeOK'
  BY TypeStep DEF GateInv
<1>1. ASSUME NEW d \in Downloads, NEW setting \in Settings, Acquire(d, setting)
      PROVE  GateInv'
  <2>1. running' = running /\ holders = launching \cup running'
        /\ launching \cap running' = {}
    BY <1>1 DEF Acquire, holders, GateInv, SlotsAccounted
  <2> QED BY <1>0, <1>1, <2>1, AcquireServes, ServedKeepsInv
<1>2. ASSUME NEW d \in Downloads, Launch(d) PROVE GateInv'
  <2>1. holders' = holders /\ launching' \cap running' = {}
    BY <1>2 DEF Launch, holders, GateInv, SlotsAccounted
  <2> QED BY <1>0, <1>2, <2>1 DEF Launch, GateInv, SlotsAccounted,
            SourceIsSerial, WaitsOnce, NoIdleSlot
<1>3. ASSUME NEW d \in Downloads, Release(d) PROVE GateInv'
  BY <1>0, <1>3, ReleaseServes, ServedKeepsInv
<1>4. CASE \E order \in Orders : SetOrder(order)
  BY <1>0, <1>4 DEF SetOrder, gateVars, holders, GateInv, SlotsAccounted,
     SourceIsSerial, WaitsOnce, NoIdleSlot
<1>5. CASE UNCHANGED vars
  BY <1>0, <1>5 DEF vars, holders, GateInv, SlotsAccounted, SourceIsSerial,
     WaitsOnce, NoIdleSlot
<1> QED BY <1>1, <1>2, <1>3, <1>4, <1>5 DEF Next

\* For any number of downloads, any sources, settings and queue orders: slots
\* and sources are accounted for, a source is strictly serial, a download
\* waits in one place, and no slot is idle while somebody could use it.
THEOREM GateSafe ==
  GateAssumption =>
    (Spec => [](SlotsAccounted /\ SourceIsSerial /\ WaitsOnce /\ NoIdleSlot))
<1> SUFFICES ASSUME GateAssumption
             PROVE  Spec => [](SlotsAccounted /\ SourceIsSerial /\ WaitsOnce
                               /\ NoIdleSlot)
  OBVIOUS
<1>1. Init => GateInv
  BY GateInvInit
<1>2. GateInv /\ [Next]_vars => GateInv'
  BY GateInvStep
<1>3. GateInv => SlotsAccounted /\ SourceIsSerial /\ WaitsOnce /\ NoIdleSlot
  BY DEF GateInv
<1> QED BY <1>1, <1>2, <1>3, PTL DEF Spec

\* A slot is handed out only below the limit in force at that moment.
THEOREM GateLimit == GateAssumption => (Spec => GrantsBelowLimit)
<1> SUFFICES ASSUME GateAssumption PROVE Spec => GrantsBelowLimit
  OBVIOUS
<1> DEFINE Below == launching' \ holders # {} => active' <= maxConcurrent'
<1>1. Init => GateInv
  BY GateInvInit
<1>2. GateInv /\ [Next]_vars => GateInv'
  BY GateInvStep
<1>3. GateInv /\ [Next]_vars => [Below]_vars
  <2> SUFFICES ASSUME GateInv, Next, launching' \ holders # {}
               PROVE  active' <= maxConcurrent'
    OBVIOUS
  <2>1. ASSUME NEW line, NEW H, Served(line, H), launching \subseteq holders
        PROVE  active' <= maxConcurrent'
    BY <2>1 DEF Served
  <2>2. launching \subseteq holders
    BY DEF holders
  <2>3. ASSUME NEW d \in Downloads, NEW setting \in Settings,
               Acquire(d, setting)
        PROVE  active' <= maxConcurrent'
    BY <2>1, <2>2, <2>3, AcquireServes
  <2>4. ASSUME NEW d \in Downloads, Release(d)
        PROVE  active' <= maxConcurrent'
    BY <2>1, <2>2, <2>4, ReleaseServes
  <2>5. ASSUME NEW d \in Downloads, Launch(d) PROVE FALSE
    BY <2>5 DEF Launch, holders
  <2>6. ASSUME NEW order \in Orders, SetOrder(order) PROVE FALSE
    BY <2>6 DEF SetOrder, gateVars, holders
  <2> QED BY <2>3, <2>4, <2>5, <2>6 DEF Next
<1> QED BY <1>1, <1>2, <1>3, PTL DEF Spec, GrantsBelowLimit

\* What is handed out goes in the user's order: whoever an order names before
\* one that is granted, and who still waits, has its source busy.
InOrderOn(held) ==
  \A d \in launching' \ held, e \in Range(waiters') :
    \A i, j \in DOMAIN queueOrder :
      queueOrder[i] = e /\ queueOrder[j] = d /\ i < j
        => \E f \in holders' : SourceOf[f] = SourceOf[e]

LEMMA RankIsPlace ==
  ASSUME GateAssumption, queueOrder \in Orders, NEW line, NEW i \in DOMAIN queueOrder
  PROVE  Rank(line, queueOrder[i]) = i
<1> DEFINE d == queueOrder[i]
<1>1. d \in Range(queueOrder)
  BY DEF Range
<1>2. Place(queueOrder, d) \in DOMAIN queueOrder /\ queueOrder[Place(queueOrder, d)] = d
  BY DEF Place
<1>3. Place(queueOrder, d) = i
  BY <1>2 DEF GateAssumption
<1> QED BY <1>1, <1>3 DEF Rank

LEMMA DispatchInOrder ==
  ASSUME GateAssumption, queueOrder \in Orders,
         NEW line \in Seq(Downloads), NEW count \in Nat, NEW sources,
         maxConcurrent' \in Nat,
         \A s \in sources : \E f \in launching \cup running' : SourceOf[f] = s,
         Dispatch(line, count, sources)
  PROVE  InOrderOn(launching)
<1>1. SUFFICES ASSUME NEW d \in launching' \ launching, NEW e \in Range(waiters'),
                      NEW i \in DOMAIN queueOrder, NEW j \in DOMAIN queueOrder,
                      queueOrder[i] = e, queueOrder[j] = d, i < j
               PROVE  \E f \in holders' : SourceOf[f] = SourceOf[e]
  BY DEF InOrderOn
<1>2. PICK G \in SUBSET Range(line) :
        /\ Scan(line, count, sources, G)
        /\ waiters' \in LineUps(line, Range(line) \ G)
        /\ launching' = launching \cup G
  BY <1>1 DEF Dispatch
<1>3. d \in G /\ d \in Range(line) /\ e \in Range(line) /\ e \notin G
  BY <1>1, <1>2 DEF LineUps
<1>4. holders' = launching \cup G \cup running'
  BY <1>2 DEF holders
<1> DEFINE before(x) == {y \in G : Ahead(line, y, x)}
<1>5. /\ count + Cardinality(before(d)) < maxConcurrent'
      /\ \/ ~(count + Cardinality(before(e)) < maxConcurrent')
         \/ SourceOf[e] \in sources
         \/ \E f \in before(e) : SourceOf[f] = SourceOf[e]
  BY <1>2, <1>3 DEF Scan
<1>6. count + Cardinality(before(e)) < maxConcurrent'
  <2>1. before(e) \subseteq before(d)
    <3>1. SUFFICES ASSUME NEW y \in G, Ahead(line, y, e) PROVE Ahead(line, y, d)
      OBVIOUS
    <3>2. Rank(line, e) = i /\ Rank(line, d) = j /\ i \in Int /\ j \in Int
      BY <1>1, RankIsPlace DEF GateAssumption
    <3>3. Rank(line, y) \in Nat
      BY RankInjective
    <3> QED BY <1>1, <3>1, <3>2, <3>3 DEF Ahead
  <2>2. before(d) \subseteq Downloads
    BY RangeOfSeq
  <2> HIDE DEF before
  <2>3. IsFiniteSet(before(d))
    BY <2>2, FS_Subset DEF GateAssumption
  <2>4. /\ IsFiniteSet(before(e))
        /\ Cardinality(before(e)) <= Cardinality(before(d))
    BY <2>1, <2>3, FS_Subset
  <2>5. Cardinality(before(e)) \in Nat /\ Cardinality(before(d)) \in Nat
    BY <2>3, <2>4, FS_CardinalityType
  <2> QED BY <1>5, <2>4, <2>5
<1>7. CASE SourceOf[e] \in sources
  BY <1>4, <1>7
<1>8. CASE \E f \in before(e) : SourceOf[f] = SourceOf[e]
  BY <1>4, <1>8
<1> HIDE DEF before
<1> QED BY <1>5, <1>6, <1>7, <1>8

LEMMA AcquireInOrder ==
  ASSUME GateAssumption, GateInv, NEW d \in Downloads, NEW setting \in Settings,
         Acquire(d, setting)
  PROVE  InOrderOn(launching)
<1>1. Append(waiters, d) \in Seq(Downloads) /\ active \in Nat /\ queueOrder \in Orders
  BY DEF GateInv, TypeOK
<1>2. maxConcurrent' \in Nat
  BY DEF Acquire, GateAssumption
<1>3. \A s \in activeSources : \E f \in launching \cup running' : SourceOf[f] = s
  BY DEF GateInv, SlotsAccounted, holders, Acquire
<1>4. Dispatch(Append(waiters, d), active, activeSources)
  BY DEF Acquire
<1> QED BY <1>1, <1>2, <1>3, <1>4, DispatchInOrder

LEMMA ReleaseInOrder ==
  ASSUME GateAssumption, GateInv, NEW d \in Downloads, Release(d)
  PROVE  InOrderOn(launching)
<1> DEFINE count == IF active > 0 THEN active - 1 ELSE active
           sources == activeSources \ {SourceOf[d]}
<1>1. /\ waiters \in Seq(Downloads) /\ queueOrder \in Orders /\ count \in Nat
      /\ maxConcurrent' \in Nat
  BY DEF GateInv, TypeOK, Release
<1>2. \A s \in sources : \E f \in launching \cup running' : SourceOf[f] = s
  <2>1. ASSUME NEW s \in sources
        PROVE  \E f \in launching \cup running' : SourceOf[f] = s
    <3>1. PICK f \in holders : SourceOf[f] = s
      BY DEF GateInv, SlotsAccounted
    <3>2. f # d
      BY <3>1
    <3> QED BY <3>1, <3>2 DEF holders, Release
  <2> QED BY <2>1
<1>3. Dispatch(waiters, count, sources)
  BY DEF Release
<1> HIDE DEF count, sources
<1> QED BY <1>1, <1>2, <1>3, DispatchInOrder

\* Slots go out in the order the user has dragged the queue into: whoever is
\* passed over for a download behind it has a download of its source past the
\* gate (_reorderWaiters and _dispatch of download_gate.dart).
THEOREM GateInOrder == GateAssumption => (Spec => GrantsFollowOrder)
<1> SUFFICES ASSUME GateAssumption PROVE Spec => GrantsFollowOrder
  OBVIOUS
<1>1. Init => GateInv
  BY GateInvInit
<1>2. GateInv /\ [Next]_vars => GateInv'
  BY GateInvStep
<1>3. GateInv /\ [Next]_vars => [InOrderOn(holders)]_vars
  <2> SUFFICES ASSUME GateInv, Next PROVE InOrderOn(holders)
    OBVIOUS
  <2>1. InOrderOn(launching) => InOrderOn(holders)
    BY DEF InOrderOn, holders
  <2>2. ASSUME NEW d \in Downloads, NEW setting \in Settings, Acquire(d, setting)
        PROVE  InOrderOn(holders)
    BY <2>1, <2>2, AcquireInOrder
  <2>3. ASSUME NEW d \in Downloads, Release(d) PROVE InOrderOn(holders)
    BY <2>1, <2>3, ReleaseInOrder
  <2>4. ASSUME NEW d \in Downloads, Launch(d) PROVE InOrderOn(holders)
    BY <2>4 DEF Launch, InOrderOn, holders
  <2>5. ASSUME NEW order \in Orders, SetOrder(order) PROVE InOrderOn(holders)
    BY <2>5 DEF SetOrder, gateVars, InOrderOn, holders
  <2> QED BY <2>2, <2>3, <2>4, <2>5 DEF Next
<1> QED BY <1>1, <1>2, <1>3, PTL DEF Spec, GrantsFollowOrder, InOrderOn

-----------------------------------------------------------------------------
(* The gate implements DownloadSlots *)

\* Both modules count with the same definition.
LEMMA SameCardinality == \A S : Slots!Cardinality(S) = Cardinality(S)
BY Zenon DEF Slots!Cardinality, Cardinality

\* A served line is a hand-out of the abstract gate.
LEMMA ServedIsServe ==
  ASSUME NEW line, NEW W, W = Range(line),
         NEW H, H = launching \cup running', Served(line, H)
  PROVE  Slots!Serve(W, H, maxConcurrent')
<1>1. PICK G \in SUBSET Range(line) :
        /\ launching' = launching \cup G
        /\ Range(waiters') = Range(line) \ G
        /\ Serial(H \cup G)
        /\ G # {} => Cardinality(H \cup G) <= maxConcurrent'
        /\ \A d \in Range(line) \ G :
             \/ Cardinality(H \cup G) >= maxConcurrent'
             \/ SourceOf[d] \in SourcesOf(H \cup G)
  BY DEF Served
<1>2. holders' = H \cup G
  BY <1>1 DEF holders
<1>3. Slots!Serial(H \cup G)
  BY <1>1 DEF Slots!Serial, Serial
<1>4. Slots!SourcesOf(H \cup G) = SourcesOf(H \cup G)
  BY DEF Slots!SourcesOf, SourcesOf
<1> QED BY <1>1, <1>2, <1>3, <1>4, SameCardinality DEF Slots!Serve

\* Every step of the gate is a request, a finish or nothing to its callers.
LEMMA SlotsStep ==
  ASSUME GateAssumption, GateInv, [Next]_vars
  PROVE  [Slots!Next]_(Slots!vars)
<1>1. ASSUME NEW d \in Downloads, NEW setting \in Settings, Acquire(d, setting)
      PROVE  Slots!Request(d)
  <2>1. maxConcurrent' \in Nat \ {0}
    BY TypeStep DEF GateInv, TypeOK
  <2>2. holders = launching \cup running'
    BY <1>1 DEF Acquire, holders
  <2>3. Slots!Serve(Range(waiters) \cup {d}, holders, maxConcurrent')
    <3>1. /\ Range(Append(waiters, d)) = Range(waiters) \cup {d}
          /\ Served(Append(waiters, d), holders)
      BY <1>1, AcquireServes
    <3> QED BY <2>2, <3>1, ServedIsServe
  <2> QED BY <1>1, <2>1, <2>3 DEF Slots!Request, Acquire
<1>2. ASSUME NEW d \in Downloads, Release(d) PROVE Slots!Finish(d)
  <2>1. maxConcurrent' = maxConcurrent
    BY <1>2 DEF Release
  <2>2. Slots!Serve(Range(waiters), holders \ {d}, maxConcurrent')
    BY <1>2, ReleaseServes, ServedIsServe
  <2>3. d \in holders
    BY <1>2, ReleaseServes
  <2> QED BY <2>1, <2>2, <2>3 DEF Slots!Finish
<1>3. ASSUME NEW d \in Downloads, Launch(d) PROVE UNCHANGED Slots!vars
  BY <1>3 DEF Launch, holders, Slots!vars
<1>4. ASSUME NEW order \in Orders, SetOrder(order) PROVE UNCHANGED Slots!vars
  BY <1>4 DEF SetOrder, gateVars, holders, Slots!vars
<1>5. CASE UNCHANGED vars
  BY <1>5 DEF vars, holders, Slots!vars
<1> QED BY <1>1, <1>2, <1>3, <1>4, <1>5 DEF Next, Slots!Next

\* The gate with its line, counter, source set and start delay implements the
\* abstract gate, for any downloads, sources, settings and orders.
THEOREM GateRefinesSlots == GateAssumption => (Spec => ImplementsSlots)
<1> SUFFICES ASSUME GateAssumption PROVE Spec => ImplementsSlots
  OBVIOUS
<1>1. Init => GateInv
  BY GateInvInit
<1>2. GateInv /\ [Next]_vars => GateInv'
  BY GateInvStep
<1>3. Init => Slots!Init
  <2> SUFFICES ASSUME Init PROVE Slots!Init
    OBVIOUS
  <2>1. Range(waiters) = {} /\ holders = {}
    BY DEF Init, Range, holders
  <2> QED BY <2>1 DEF Init, Slots!Init
<1>4. GateInv /\ [Next]_vars => [Slots!Next]_(Slots!vars)
  BY SlotsStep
<1> QED BY <1>1, <1>2, <1>3, <1>4, PTL DEF Spec, ImplementsSlots, Slots!Spec

=============================================================================
