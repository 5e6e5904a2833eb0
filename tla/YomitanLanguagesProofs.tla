----------------------- MODULE YomitanLanguagesProofs -----------------------
(***************************************************************************)
(* For every table: the flags addDescriptor gives to the conditions tell   *)
(* them apart exactly as the table does, and it accepts a table exactly    *)
(* when its conditions mean something and fit the flags.                   *)
(*                                                                         *)
(* FlagsTellConditionsApart is not inductive: a condition flagged twice    *)
(* would leave the groups that have it with its old flag.  IInv adds that  *)
(* the conditions still to visit are apart and unflagged, and that every   *)
(* flag given is below the next one.                                       *)
(*                                                                         *)
(* AcceptsExactly needs AcceptInv on top of it: flagged conditions are     *)
(* grounded, the unflagged ones wait, and a round that flagged nothing has *)
(* put off only conditions whose parts have no flags.                      *)
(*                                                                         *)
(* For every Korean text: putting it together loses no letter, and gives a *)
(* text of whole syllables back.  HangulInv says what each stage knows of  *)
(* the letters that wait, so that what _makeHangul makes of them can be    *)
(* taken apart into them again.  That the syllables are the ones of the    *)
(* text needs what lies ahead: the letters left begin with those of the    *)
(* next syllable and an initial and a vowel follow, and that decides where *)
(* the syllable ends.                                                      *)
(*                                                                         *)
(* For every descriptor: what a candidate shows led to it does lead to it. *)
(* LookupInv follows the texts: a variant of a raw source with its chains, *)
(* a form of the variant with its trace.  They are made by folds over      *)
(* sequences of any length, which are unfolded by induction.               *)
(***************************************************************************)
EXTENDS YomitanLanguages, FiniteSetTheorems, WellFoundedInduction, TLAPS

(* addDescriptor *)

TableConditions == { Conditions[k] : k \in DOMAIN Conditions }

Apart(seq) ==
    \A j, k \in DOMAIN seq : seq[j].type = seq[k].type => j = k

Disjoint(seq, other) ==
    \A j \in DOMAIN seq, k \in DOMAIN other : seq[j].type # other[k].type

Unflagged(seq) == \A k \in DOMAIN seq : seq[k].type \notin DOMAIN flagsMap

PendingInv ==
    /\ targets \in Seq(TableConditions)
    /\ nextTargets \in Seq(TableConditions)
    /\ Apart(targets) /\ Apart(nextTargets)
    /\ Disjoint(targets, nextTargets)
    /\ Unflagged(targets) /\ Unflagged(nextTargets)

FlagsBelow ==
    /\ nextFlagIndex \in 0 .. MaxFlags
    /\ \A type \in DOMAIN flagsMap :
           flagsMap[type] \subseteq 0 .. nextFlagIndex - 1

IInv ==
    /\ language \in DOMAIN Tables
    /\ PendingInv
    /\ FlagsBelow
    /\ LeavesApart
    /\ GroupsOfParts

-----------------------------------------------------------------------------
(* Sequences of conditions *)

LEMMA ApartTail ==
    ASSUME NEW S, NEW seq \in Seq(S), seq # << >>, Apart(seq)
    PROVE  /\ Tail(seq) \in Seq(S)
           /\ Head(seq) \in S
           /\ Apart(Tail(seq))
           /\ \A k \in DOMAIN Tail(seq) :
                  /\ k + 1 \in DOMAIN seq
                  /\ Tail(seq)[k] = seq[k + 1]
                  /\ Tail(seq)[k].type # Head(seq).type
  <1>1. /\ Len(seq) \in Nat \ {0} /\ DOMAIN seq = 1 .. Len(seq)
        /\ Len(Tail(seq)) = Len(seq) - 1
        /\ DOMAIN Tail(seq) = 1 .. Len(seq) - 1
        /\ Tail(seq) \in Seq(S)
        /\ Head(seq) = seq[1] /\ seq[1] \in S
    OBVIOUS
  <1>2. ASSUME NEW k \in DOMAIN Tail(seq)
        PROVE  /\ k + 1 \in DOMAIN seq
               /\ Tail(seq)[k] = seq[k + 1]
               /\ k + 1 # 1
    BY <1>1
  <1>3. ASSUME NEW k \in DOMAIN Tail(seq)
        PROVE  Tail(seq)[k].type # Head(seq).type
    BY <1>1, <1>2, 1 \in DOMAIN seq DEF Apart
  <1>4. Apart(Tail(seq))
    <2>1. SUFFICES ASSUME NEW j \in DOMAIN Tail(seq), NEW k \in DOMAIN Tail(seq),
                          Tail(seq)[j].type = Tail(seq)[k].type
                   PROVE  j = k
      BY DEF Apart
    <2>2. j + 1 = k + 1
      BY <1>2, <2>1 DEF Apart
    <2>. QED BY <2>2, <1>1
  <1>. QED BY <1>1, <1>2, <1>3, <1>4

LEMMA ApartAppend ==
    ASSUME NEW S, NEW seq \in Seq(S), NEW e \in S, Apart(seq),
           \A k \in DOMAIN seq : seq[k].type # e.type
    PROVE  /\ Append(seq, e) \in Seq(S)
           /\ Apart(Append(seq, e))
           /\ \A k \in DOMAIN Append(seq, e) :
                  \/ k \in DOMAIN seq /\ Append(seq, e)[k] = seq[k]
                  \/ Append(seq, e)[k] = e
  <1>1. /\ Append(seq, e) \in Seq(S)
        /\ Len(seq) \in Nat /\ DOMAIN seq = 1 .. Len(seq)
        /\ DOMAIN Append(seq, e) = 1 .. Len(seq) + 1
        /\ Append(seq, e)[Len(seq) + 1] = e
        /\ \A k \in DOMAIN seq : Append(seq, e)[k] = seq[k]
    OBVIOUS
  <1>2. ASSUME NEW k \in DOMAIN Append(seq, e)
        PROVE  k \in DOMAIN seq \/ k = Len(seq) + 1
    BY <1>1
  <1>3. Apart(Append(seq, e))
    BY <1>1, <1>2 DEF Apart
  <1>. QED BY <1>1, <1>2, <1>3

-----------------------------------------------------------------------------

\* What addDescriptor begins with.
LEMMA InitIInv == Init => IInv
  <1>1. SUFFICES ASSUME Init PROVE IInv
    OBVIOUS
  <1>2. language \in DOMAIN Tables
    BY <1>1 DEF Init
  <1>3. /\ Apart(Conditions)
        /\ Conditions \in Seq([type : STRING, isDictionaryForm : BOOLEAN,
                               subConditions : SUBSET STRING])
    BY <1>2, TablesAssumption DEF Apart, Conditions
  <1>4. Conditions \in Seq(TableConditions)
    BY <1>3 DEF TableConditions
  <1>5. PendingInv
    BY <1>1, <1>3, <1>4 DEF Init, PendingInv, Disjoint, Unflagged, Apart
  <1>6. FlagsBelow
    BY <1>1 DEF Init, FlagsBelow, MaxFlags
  <1>7. LeavesApart /\ GroupsOfParts
    BY <1>1 DEF Init, LeavesApart, FlaggedLeaves, GroupsOfParts, Declared
  <1>. QED BY <1>2, <1>5, <1>6, <1>7 DEF IInv

\* transform() and the ends of addDescriptor leave the registration alone.
LEMMA KeptIInv ==
    ASSUME IInv, UNCHANGED << language, registration >>
    PROVE  IInv'
  <1>. USE DEF registration
  <1>1. /\ language' = language /\ Conditions' = Conditions
        /\ TableConditions' = TableConditions
        /\ targets' = targets /\ nextTargets' = nextTargets
        /\ flagsMap' = flagsMap /\ nextFlagIndex' = nextFlagIndex
    BY DEF Conditions, TableConditions
  <1>2. PendingInv'
    BY <1>1 DEF IInv, PendingInv, Apart, Disjoint, Unflagged
  <1>3. FlagsBelow'
    BY <1>1 DEF IInv, FlagsBelow
  <1>4. LeavesApart'
    BY <1>1 DEF IInv, LeavesApart, FlaggedLeaves
  <1>5. GroupsOfParts'
    BY <1>1 DEF IInv, GroupsOfParts, Declared, ConditionFlags
  <1>. QED BY <1>1, <1>2, <1>3, <1>4, <1>5 DEF IInv

\* A condition that waits for the next round.
LEMMA PutOffIInv == IInv /\ PutOff => IInv'
  <1>1. SUFFICES ASSUME IInv, PutOff PROVE IInv'
    OBVIOUS
  <1>2. /\ language' = language /\ Conditions' = Conditions
        /\ TableConditions' = TableConditions
        /\ flagsMap' = flagsMap /\ nextFlagIndex' = nextFlagIndex
    BY <1>1 DEF PutOff, Conditions, TableConditions
  <1>3. /\ targets' \in Seq(TableConditions)
        /\ Head(targets) \in TableConditions
        /\ Apart(targets')
        /\ \A k \in DOMAIN targets' :
               /\ k + 1 \in DOMAIN targets
               /\ targets'[k] = targets[k + 1]
               /\ targets'[k].type # Head(targets).type
    <2>1. /\ targets \in Seq(TableConditions) /\ targets # << >> /\ Apart(targets)
          /\ targets' = Tail(targets)
      BY <1>1 DEF IInv, PendingInv, PutOff
    <2>. QED BY <2>1, ApartTail
  <1>4. 1 \in DOMAIN targets /\ Head(targets) = targets[1]
    BY <1>1 DEF IInv, PendingInv, PutOff
  <1>5. /\ nextTargets' \in Seq(TableConditions)
        /\ Apart(nextTargets')
        /\ \A k \in DOMAIN nextTargets' :
               \/ k \in DOMAIN nextTargets /\ nextTargets'[k] = nextTargets[k]
               \/ nextTargets'[k] = Head(targets)
    <2>1. /\ nextTargets \in Seq(TableConditions) /\ Apart(nextTargets)
          /\ nextTargets' = Append(nextTargets, Head(targets))
          /\ \A k \in DOMAIN nextTargets :
                 nextTargets[k].type # Head(targets).type
      BY <1>1, <1>4 DEF IInv, PendingInv, PutOff, Disjoint
    <2>. QED BY <2>1, <1>3, ApartAppend
  <1>6. Disjoint(targets', nextTargets')
    <2>1. Disjoint(targets, nextTargets)
      BY <1>1 DEF IInv, PendingInv
    <2>2. SUFFICES ASSUME NEW j \in DOMAIN targets', NEW k \in DOMAIN nextTargets'
                   PROVE  targets'[j].type # nextTargets'[k].type
      BY DEF Disjoint
    <2>3. CASE k \in DOMAIN nextTargets /\ nextTargets'[k] = nextTargets[k]
      <3>1. targets[j + 1].type # nextTargets[k].type
        BY <1>3, <2>1, <2>3 DEF Disjoint
      <3>. QED BY <1>3, <2>3, <3>1
    <2>4. CASE nextTargets'[k] = Head(targets)
      BY <1>3, <2>4
    <2>. QED BY <1>5, <2>3, <2>4
  <1>7. Unflagged(targets)' /\ Unflagged(nextTargets)'
    BY <1>1, <1>2, <1>3, <1>4, <1>5 DEF IInv, PendingInv, Unflagged
  <1>8. PendingInv'
    BY <1>2, <1>3, <1>5, <1>6, <1>7 DEF PendingInv
  <1>9. FlagsBelow' /\ LeavesApart' /\ GroupsOfParts'
    BY <1>1, <1>2 DEF IInv, FlagsBelow, LeavesApart, FlaggedLeaves,
                      GroupsOfParts, Declared, ConditionFlags
  <1>. QED BY <1>1, <1>2, <1>8, <1>9 DEF IInv

\* The conditions put off are the targets of the next round.
LEMMA NextRoundIInv == IInv /\ NextRound => IInv'
  <1>1. SUFFICES ASSUME IInv, NextRound PROVE IInv'
    OBVIOUS
  <1>2. /\ language' = language /\ Conditions' = Conditions
        /\ TableConditions' = TableConditions
        /\ flagsMap' = flagsMap /\ nextFlagIndex' = nextFlagIndex
        /\ targets' = nextTargets /\ nextTargets' = << >>
    BY <1>1 DEF NextRound, Conditions, TableConditions
  <1>3. PendingInv'
    BY <1>1, <1>2 DEF IInv, PendingInv, Apart, Disjoint, Unflagged
  <1>4. FlagsBelow' /\ LeavesApart' /\ GroupsOfParts'
    BY <1>1, <1>2 DEF IInv, FlagsBelow, LeavesApart, FlaggedLeaves,
                      GroupsOfParts, Declared, ConditionFlags
  <1>. QED BY <1>1, <1>2, <1>3, <1>4 DEF IInv

\* The condition at the head of the targets gets its flags: it had none, and
\* is not put off.
LEMMA FlaggedPending ==
    ASSUME IInv, NEW flags,
           targets # << >>, targets' = Tail(targets),
           SetFlags(Head(targets).type, flags),
           UNCHANGED << language, nextTargets >>
    PROVE  /\ PendingInv'
           /\ Head(targets) \in TableConditions
           /\ Head(targets).type \notin DOMAIN flagsMap
           /\ DOMAIN flagsMap' = DOMAIN flagsMap \cup {Head(targets).type}
           /\ flagsMap'[Head(targets).type] = flags
           /\ \A type \in DOMAIN flagsMap : flagsMap'[type] = flagsMap[type]
  <1>1. /\ targets \in Seq(TableConditions) /\ Apart(targets)
        /\ Conditions' = Conditions /\ TableConditions' = TableConditions
    BY DEF IInv, PendingInv, Conditions, TableConditions
  <1>2. /\ targets' \in Seq(TableConditions)
        /\ Head(targets) \in TableConditions
        /\ Apart(targets')
        /\ \A k \in DOMAIN targets' :
               /\ k + 1 \in DOMAIN targets
               /\ targets'[k] = targets[k + 1]
               /\ targets'[k].type # Head(targets).type
    BY <1>1, ApartTail
  <1>3. 1 \in DOMAIN targets /\ Head(targets) = targets[1]
    BY <1>1
  <1>4. Head(targets).type \notin DOMAIN flagsMap
    BY <1>3 DEF IInv, PendingInv, Unflagged
  <1>5. /\ DOMAIN flagsMap' = DOMAIN flagsMap \cup {Head(targets).type}
        /\ flagsMap'[Head(targets).type] = flags
        /\ \A type \in DOMAIN flagsMap : flagsMap'[type] = flagsMap[type]
    BY <1>4 DEF SetFlags
  <1>6. Unflagged(targets)'
    BY <1>2, <1>5 DEF IInv, PendingInv, Unflagged
  <1>7. Unflagged(nextTargets)'
    BY <1>3, <1>5 DEF IInv, PendingInv, Unflagged, Disjoint
  <1>8. Disjoint(targets, nextTargets)'
    BY <1>2 DEF IInv, PendingInv, Disjoint
  <1>9. PendingInv'
    BY <1>1, <1>2, <1>6, <1>7, <1>8 DEF IInv, PendingInv
  <1>. QED BY <1>2, <1>4, <1>5, <1>9

\* The entries of an object have different keys.
LEMMA TypesDiffer ==
    ASSUME language \in DOMAIN Tables, NEW j \in DOMAIN Conditions,
           NEW k \in DOMAIN Conditions, Conditions[j].type = Conditions[k].type
    PROVE  j = k
  BY TablesAssumption DEF Conditions

\* A condition without sub-conditions gets the next flag, which no other has.
LEMMA FlagLeafIInv == IInv /\ FlagLeaf => IInv'
  <1>1. SUFFICES ASSUME IInv, FlagLeaf PROVE IInv'
    OBVIOUS
  <1>. DEFINE t == Head(targets).type
              n == nextFlagIndex
  <1>2. /\ language' = language /\ Conditions' = Conditions
        /\ n \in 0 .. MaxFlags - 1 /\ nextFlagIndex' = n + 1
    BY <1>1 DEF FlagLeaf, IInv, FlagsBelow, MaxFlags, Conditions
  <1>3. /\ PendingInv'
        /\ Head(targets) \in TableConditions
        /\ t \notin DOMAIN flagsMap
        /\ DOMAIN flagsMap' = DOMAIN flagsMap \cup {t}
        /\ flagsMap'[t] = {n}
        /\ \A type \in DOMAIN flagsMap : flagsMap'[type] = flagsMap[type]
    BY <1>1, FlaggedPending DEF FlagLeaf
  <1>4. PICK m \in DOMAIN Conditions : Head(targets) = Conditions[m]
    BY <1>3 DEF TableConditions
  <1>5. Conditions[m].type = t /\ IsLeaf(Conditions[m])
    BY <1>1, <1>4 DEF FlagLeaf, IsLeaf
  <1>6. \A k \in DOMAIN Conditions : Conditions[k].type = t => k = m
    BY <1>1, <1>5, TypesDiffer DEF IInv
  <1>7. \A type \in DOMAIN flagsMap : flagsMap[type] \subseteq 0 .. n - 1
    BY <1>1 DEF IInv, FlagsBelow
  <1>8. FlagsBelow'
    BY <1>2, <1>3, <1>7 DEF FlagsBelow, MaxFlags
  <1>9. LeavesApart'
    <2>1. SUFFICES ASSUME NEW k \in FlaggedLeaves',
                          NEW j \in FlaggedLeaves' \ {k}
                   PROVE  /\ flagsMap'[Conditions[k].type] # {}
                          /\ flagsMap'[Conditions[k].type]
                                \cap flagsMap'[Conditions[j].type] = {}
      <3>1. \A k \in FlaggedLeaves' : flagsMap'[Conditions[k].type] # {}
        <4>1. SUFFICES ASSUME NEW k \in FlaggedLeaves'
                       PROVE  flagsMap'[Conditions[k].type] # {}
          OBVIOUS
        <4>2. CASE Conditions[k].type = t
          BY <1>3, <4>2
        <4>3. CASE Conditions[k].type # t
          <5>1. k \in FlaggedLeaves
            BY <1>2, <1>3, <4>3 DEF FlaggedLeaves
          <5>2. flagsMap[Conditions[k].type] # {}
            BY <1>1, <5>1 DEF IInv, LeavesApart
          <5>. QED BY <1>3, <5>1, <5>2 DEF FlaggedLeaves
        <4>. QED BY <4>2, <4>3
      <3>. QED BY <1>2, <3>1 DEF LeavesApart
    <2>2. /\ k \in DOMAIN Conditions /\ j \in DOMAIN Conditions /\ j # k
          /\ IsLeaf(Conditions[k]) /\ IsLeaf(Conditions[j])
          /\ Conditions[k].type \in DOMAIN flagsMap \cup {t}
          /\ Conditions[j].type \in DOMAIN flagsMap \cup {t}
      BY <1>2, <1>3 DEF FlaggedLeaves
    <2>3. CASE k = m
      <3>1. Conditions[j].type \in DOMAIN flagsMap
        BY <1>6, <2>2, <2>3
      <3>2. flagsMap'[Conditions[j].type] \subseteq 0 .. n - 1
        BY <1>3, <1>7, <3>1
      <3>3. flagsMap'[Conditions[k].type] = {n}
        BY <1>3, <1>5, <2>3
      <3>. QED BY <1>2, <3>2, <3>3
    <2>4. CASE j = m
      <3>1. k # m /\ Conditions[k].type \in DOMAIN flagsMap
        BY <1>6, <2>2, <2>4
      <3>2. /\ flagsMap'[Conditions[k].type] = flagsMap[Conditions[k].type]
            /\ flagsMap[Conditions[k].type] \subseteq 0 .. n - 1
        BY <1>3, <1>7, <3>1
      <3>3. flagsMap'[Conditions[j].type] = {n}
        BY <1>3, <1>5, <2>4
      <3>4. flagsMap[Conditions[k].type] # {}
        BY <1>1, <2>2, <3>1 DEF IInv, LeavesApart, FlaggedLeaves
      <3>. QED BY <1>2, <3>2, <3>3, <3>4
    <2>5. CASE k # m /\ j # m
      <3>1. k \in FlaggedLeaves /\ j \in FlaggedLeaves
        BY <1>6, <2>2, <2>5 DEF FlaggedLeaves
      <3>2. /\ flagsMap[Conditions[k].type] # {}
            /\ flagsMap[Conditions[k].type]
                  \cap flagsMap[Conditions[j].type] = {}
        BY <1>1, <2>2, <3>1 DEF IInv, LeavesApart
      <3>. QED BY <1>3, <3>1, <3>2 DEF FlaggedLeaves
    <2>. QED BY <2>3, <2>4, <2>5
  <1>10. GroupsOfParts'
    <2>1. SUFFICES ASSUME NEW k \in DOMAIN Conditions,
                          ~IsLeaf(Conditions[k]),
                          Conditions[k].type \in DOMAIN flagsMap'
                   PROVE  /\ Conditions[k].subConditions \subseteq DOMAIN flagsMap'
                          /\ flagsMap'[Conditions[k].type]
                                = UNION { flagsMap'[type] :
                                            type \in Conditions[k].subConditions }
      BY <1>2 DEF GroupsOfParts, Declared, ConditionFlags
    <2>2. Conditions[k].type \in DOMAIN flagsMap
      BY <1>3, <1>5, <1>6, <2>1
    <2>3. /\ Conditions[k].subConditions \subseteq DOMAIN flagsMap
          /\ flagsMap[Conditions[k].type]
                = UNION { flagsMap[type] :
                            type \in Conditions[k].subConditions }
      BY <1>1, <2>1, <2>2 DEF IInv, GroupsOfParts, Declared, ConditionFlags
    <2>4. UNION { flagsMap'[type] : type \in Conditions[k].subConditions }
          = UNION { flagsMap[type] : type \in Conditions[k].subConditions }
      BY <1>3, <2>3
    <2>. QED BY <1>3, <2>2, <2>3, <2>4
  <1>. QED BY <1>1, <1>2, <1>3, <1>8, <1>9, <1>10 DEF IInv

\* A condition with sub-conditions gets theirs, which no longer change.
LEMMA FlagGroupIInv == IInv /\ FlagGroup => IInv'
  <1>1. SUFFICES ASSUME IInv, FlagGroup PROVE IInv'
    OBVIOUS
  <1>. DEFINE t == Head(targets).type
              subs == Head(targets).subConditions
  <1>2. /\ language' = language /\ Conditions' = Conditions
        /\ nextFlagIndex' = nextFlagIndex
        /\ subs # {} /\ subs \subseteq DOMAIN flagsMap
    BY <1>1 DEF FlagGroup, Conditions, Declared
  <1>3. /\ PendingInv'
        /\ Head(targets) \in TableConditions
        /\ t \notin DOMAIN flagsMap
        /\ DOMAIN flagsMap' = DOMAIN flagsMap \cup {t}
        /\ flagsMap'[t] = ConditionFlags(subs)
        /\ \A type \in DOMAIN flagsMap : flagsMap'[type] = flagsMap[type]
    BY <1>1, FlaggedPending DEF FlagGroup
  <1>4. PICK m \in DOMAIN Conditions : Head(targets) = Conditions[m]
    BY <1>3 DEF TableConditions
  <1>5. Conditions[m].type = t /\ ~IsLeaf(Conditions[m])
    BY <1>2, <1>4 DEF IsLeaf
  <1>6. \A k \in DOMAIN Conditions : Conditions[k].type = t => k = m
    BY <1>1, <1>5, TypesDiffer DEF IInv
  <1>7. FlagsBelow'
    <2>1. ConditionFlags(subs) \subseteq 0 .. nextFlagIndex - 1
      BY <1>1, <1>2 DEF IInv, FlagsBelow, ConditionFlags
    <2>. QED BY <1>1, <1>2, <1>3, <2>1 DEF IInv, FlagsBelow
  <1>8. LeavesApart'
    <2>1. \A k \in FlaggedLeaves' :
             k \in FlaggedLeaves
             /\ flagsMap'[Conditions[k].type] = flagsMap[Conditions[k].type]
      BY <1>2, <1>3, <1>5, <1>6 DEF FlaggedLeaves
    <2>. QED BY <1>1, <1>2, <2>1 DEF IInv, LeavesApart
  <1>9. GroupsOfParts'
    <2>1. SUFFICES ASSUME NEW k \in DOMAIN Conditions,
                          ~IsLeaf(Conditions[k]),
                          Conditions[k].type \in DOMAIN flagsMap'
                   PROVE  /\ Conditions[k].subConditions \subseteq DOMAIN flagsMap'
                          /\ flagsMap'[Conditions[k].type]
                                = UNION { flagsMap'[type] :
                                            type \in Conditions[k].subConditions }
      BY <1>2 DEF GroupsOfParts, Declared, ConditionFlags
    <2>2. /\ Conditions[k].subConditions \subseteq DOMAIN flagsMap
          /\ flagsMap'[Conditions[k].type]
                = UNION { flagsMap[type] :
                            type \in Conditions[k].subConditions }
      <3>1. CASE k = m
        BY <1>2, <1>3, <1>4, <3>1 DEF ConditionFlags
      <3>2. CASE k # m
        <4>1. Conditions[k].type \in DOMAIN flagsMap
          BY <1>3, <1>6, <2>1, <3>2
        <4>. QED BY <1>1, <1>3, <2>1, <4>1
                 DEF IInv, GroupsOfParts, Declared, ConditionFlags
      <3>. QED BY <3>1, <3>2
    <2>3. UNION { flagsMap'[type] : type \in Conditions[k].subConditions }
          = UNION { flagsMap[type] : type \in Conditions[k].subConditions }
      BY <1>3, <2>2
    <2>. QED BY <1>3, <2>2, <2>3
  <1>. QED BY <1>1, <1>2, <1>3, <1>7, <1>8, <1>9 DEF IInv

-----------------------------------------------------------------------------

LEMMA NextIInv == IInv /\ [Next]_vars => IInv'
  <1>1. SUFFICES ASSUME IInv, [Next]_vars PROVE IInv'
    OBVIOUS
  <1>2. CASE FlagLeaf
    BY <1>1, <1>2, FlagLeafIInv
  <1>3. CASE FlagGroup
    BY <1>1, <1>3, FlagGroupIInv
  <1>4. CASE PutOff
    BY <1>1, <1>4, PutOffIInv
  <1>5. CASE NextRound
    BY <1>1, <1>5, NextRoundIInv
  <1>6. CASE FlagsExhausted \/ NoProgress \/ AddTransforms
             \/ InvalidConditions \/ Scan \/ ApplyRule \/ UNCHANGED vars
    <2>1. UNCHANGED << language, registration >>
      BY <1>6 DEF FlagsExhausted, NoProgress, AddTransforms,
                  InvalidConditions, Scan, ApplyRule, Refuse, vars, registration
    <2>. QED BY <1>1, <2>1, KeptIInv
  <1>. QED BY <1>1, <1>2, <1>3, <1>4, <1>5, <1>6 DEF Next

\* While the conditions get their flags, each waits, is put off or has them, and
\* no flag is given twice (addDescriptor).
THEOREM IInvHolds == Spec => []IInv
  BY InitIInv, NextIInv, PTL DEF Spec

LEMMA InvTellsApart == IInv => FlagsTellConditionsApart
  <1>1. SUFFICES ASSUME IInv PROVE FlagsTellConditionsApart
    OBVIOUS
  <1>2. \A type \in DOMAIN flagsMap : flagsMap[type] \subseteq 0 .. MaxFlags - 1
    BY <1>1 DEF IInv, FlagsBelow, MaxFlags
  <1>. QED BY <1>1, <1>2 DEF IInv, FlagsTellConditionsApart

\* For every table of conditions, in whatever order they are declared: while
\* addDescriptor gives them flags and for every transform() after that, a
\* condition without sub-conditions has one that no other such condition has,
\* one with sub-conditions has just theirs, and the flags fit 32 bits.
THEOREM FlagsTellApart == Spec => []FlagsTellConditionsApart
  BY IInvHolds, InvTellsApart, PTL

-----------------------------------------------------------------------------
(* Induction: a set that has 0 and the successors of its members has every   *)
(* natural number.                                                           *)

LEMMA LeastOf ==
    ASSUME NEW T, T \subseteq Nat, T # {}
    PROVE  \E n \in T : \A m \in T : n <= m
  <1>1. \E x \in T : \A y \in T : ~ (<<y, x>> \in OpToRel(<, Nat))
    BY NatLessThanWellFounded, WFMin
  <1>2. ASSUME NEW x \in Nat, NEW y \in Nat
        PROVE  <<y, x>> \in OpToRel(<, Nat) <=> y < x
    BY DEF OpToRel
  <1>3. PICK x \in T : \A y \in T : ~ (<<y, x>> \in OpToRel(<, Nat))
    BY <1>1
  <1>4. \A y \in T : ~ (y < x)
    BY <1>2, <1>3
  <1>. QED BY <1>4

LEMMA SetInduction ==
    ASSUME NEW S, 0 \in S, \A n \in Nat : n \in S => n + 1 \in S
    PROVE  Nat \subseteq S
  <1>1. SUFFICES ASSUME Nat \ S # {} PROVE FALSE
    OBVIOUS
  <1>2. PICK n \in Nat \ S : \A m \in Nat \ S : n <= m
    BY <1>1, LeastOf
  <1>3. n # 0 /\ n - 1 \in Nat /\ ~(n <= n - 1)
    BY <1>2
  <1>4. n - 1 \in S
    BY <1>2, <1>3
  <1>5. (n - 1) + 1 = n
    BY <1>2
  <1>. QED BY <1>2, <1>3, <1>4, <1>5

-----------------------------------------------------------------------------
(* The conditions that mean something *)

Types == { Conditions[k].type : k \in DOMAIN Conditions }

LEMMA ConditionsType ==
    ASSUME language \in DOMAIN Tables
    PROVE  /\ Len(Conditions) \in Nat
           /\ DOMAIN Conditions = 1 .. Len(Conditions)
  BY TablesAssumption DEF Conditions

LEMMA MadeOfGrows ==
    ASSUME NEW A, NEW B, A \subseteq B
    PROVE  MadeOf(A) \subseteq MadeOf(B)
  BY DEF MadeOf

LEMMA MadeOfTypes ==
    ASSUME NEW A
    PROVE  MadeOf(A) \subseteq Types
  BY DEF MadeOf, Types

\* The function Grounded defines exists.
LEMMA RecursionExists ==
    ASSUME NEW L \in Nat
    PROVE  \E f : f = [n \in 0 .. L |-> IF n = 0 THEN {} ELSE MadeOf(f[n - 1])]
  <1>. DEFINE P(m, f) ==
                f = [n \in 0 .. m |-> IF n = 0 THEN {} ELSE MadeOf(f[n - 1])]
              S == { m \in Nat : \E f : P(m, f) }
  <1>1. 0 \in S
    <2>1. P(0, [n \in 0 .. 0 |-> {}])
      OBVIOUS
    <2>. QED BY <2>1
  <1>2. ASSUME NEW m \in Nat, m \in S
        PROVE  m + 1 \in S
    <2>1. PICK f : P(m, f)
      BY <1>2
    <2>. DEFINE g == [n \in 0 .. m + 1 |-> IF n <= m THEN f[n] ELSE MadeOf(f[m])]
    <2>2. ASSUME NEW n \in 0 .. m + 1
          PROVE  g[n] = IF n = 0 THEN {} ELSE MadeOf(g[n - 1])
      <3>1. CASE n = 0
        BY <2>1, <3>1
      <3>2. CASE n \in 1 .. m
        <4>1. g[n] = f[n] /\ g[n - 1] = f[n - 1] /\ n # 0 /\ n \in 0 .. m
          BY <3>2
        <4>2. f[n] = MadeOf(f[n - 1])
          BY <2>1, <4>1
        <4>. HIDE DEF g
        <4>. QED BY <4>1, <4>2
      <3>3. CASE n = m + 1
        <4>1. g[n] = MadeOf(f[m]) /\ n - 1 = m /\ n # 0
          BY <3>3
        <4>2. g[m] = f[m]
          OBVIOUS
        <4>. HIDE DEF g
        <4>. QED BY <4>1, <4>2
      <3>. QED BY <3>1, <3>2, <3>3
    <2>3. P(m + 1, g)
      BY <2>2
    <2>. HIDE DEF g
    <2>4. \E h : P(m + 1, h)
      BY <2>3
    <2>. HIDE DEF P
    <2>. QED BY <2>4
  <1>. HIDE DEF P
  <1>3. L \in S
    <2>. HIDE DEF S
    <2>. QED BY <1>1, <1>2, SetInduction
  <1>. QED BY <1>3 DEF P

LEMMA GroundedSteps ==
    ASSUME language \in DOMAIN Tables
    PROVE  \E f : /\ Grounded = f[Len(Conditions)]
                  /\ f[0] = {}
                  /\ \A n \in 1 .. Len(Conditions) : f[n] = MadeOf(f[n - 1])
  <1>. DEFINE L == Len(Conditions)
              P(f) == f = [n \in 0 .. L |-> IF n = 0 THEN {} ELSE MadeOf(f[n - 1])]
              g == CHOOSE f : P(f)
  <1>1. L \in Nat
    BY ConditionsType
  <1>2. P(g)
    BY <1>1, RecursionExists
  <1>3. Grounded = g[L]
    BY DEF Grounded
  <1>4. g[0] = {} /\ \A n \in 1 .. L : g[n] = MadeOf(g[n - 1])
    <2>. HIDE DEF g, L
    <2>1. g = [n \in 0 .. L |-> IF n = 0 THEN {} ELSE MadeOf(g[n - 1])]
      BY <1>2
    <2>2. \A n \in 0 .. L : g[n] = IF n = 0 THEN {} ELSE MadeOf(g[n - 1])
      BY <2>1
    <2>. HIDE DEF P
    <2>. QED BY <1>1, <2>2
  <1>. HIDE DEF g
  <1>. QED BY <1>3, <1>4

\* Grounded is below every set that has what is made of it.
LEMMA GroundedLeast ==
    ASSUME language \in DOMAIN Tables, NEW D, MadeOf(D) \subseteq D
    PROVE  Grounded \subseteq D
  <1>. DEFINE L == Len(Conditions)
  <1>1. PICK f : /\ Grounded = f[L]
                 /\ f[0] = {}
                 /\ \A n \in 1 .. L : f[n] = MadeOf(f[n - 1])
    BY GroundedSteps
  <1>. DEFINE S == { n \in Nat : n <= L => f[n] \subseteq D }
  <1>2. L \in Nat
    BY ConditionsType
  <1>. HIDE DEF L
  <1>3. 0 \in S
    BY <1>1
  <1>4. ASSUME NEW n \in Nat, n \in S
        PROVE  n + 1 \in S
    <2>1. SUFFICES ASSUME n + 1 <= L PROVE f[n + 1] \subseteq D
      OBVIOUS
    <2>2. n + 1 \in 1 .. L /\ (n + 1) - 1 = n /\ f[n] \subseteq D
      BY <1>2, <1>4, <2>1
    <2>3. f[n + 1] = MadeOf(f[n])
      BY <1>1, <2>2
    <2>. QED BY <2>2, <2>3, MadeOfGrows
  <1>5. L \in S
    <2>. HIDE DEF S
    <2>. QED BY <1>2, <1>3, <1>4, SetInduction
  <1>. QED BY <1>1, <1>2, <1>5

LEMMA TypesFinite ==
    ASSUME language \in DOMAIN Tables
    PROVE  IsFiniteSet(Types) /\ Cardinality(Types) <= Len(Conditions)
  <1>. DEFINE L == Len(Conditions)
  <1>1. L \in Nat /\ DOMAIN Conditions = 1 .. L
    BY ConditionsType
  <1>. HIDE DEF L
  <1>2. IsFiniteSet(1 .. L) /\ Cardinality(1 .. L) = L
    BY <1>1, FS_Interval
  <1>. DEFINE h == [k \in 1 .. L |-> Conditions[k].type]
  <1>3. h \in Surjection(1 .. L, Types)
    BY <1>1 DEF Surjection, Types
  <1>. HIDE DEF h
  <1>. QED BY <1>2, <1>3, FS_Surjection DEF L

\* Grounded has what is made of it: as many rounds as there are conditions are
\* enough.
LEMMA GroundedClosed ==
    ASSUME language \in DOMAIN Tables
    PROVE  MadeOf(Grounded) \subseteq Grounded
  <1>. DEFINE L == Len(Conditions)
  <1>1. PICK f : /\ Grounded = f[L]
                 /\ f[0] = {}
                 /\ \A n \in 1 .. L : f[n] = MadeOf(f[n - 1])
    BY GroundedSteps
  <1>2. L \in Nat /\ IsFiniteSet(Types) /\ Cardinality(Types) <= L
    BY ConditionsType, TypesFinite
  <1>. HIDE DEF L
  <1>3. \A n \in Nat : n < L => f[n + 1] = MadeOf(f[n])
    <2>1. ASSUME NEW n \in Nat, n < L
          PROVE  n + 1 \in 1 .. L /\ (n + 1) - 1 = n
      BY <1>2, <2>1
    <2>. QED BY <1>1, <2>1
  <1>4. \A n \in Nat : n <= L => f[n] \subseteq Types
    <2>1. ASSUME NEW n \in Nat, n <= L PROVE f[n] \subseteq Types
      <3>1. CASE n = 0
        BY <1>1, <3>1
      <3>2. CASE n # 0
        BY <1>1, <1>2, <2>1, <3>2, MadeOfTypes
      <3>. QED BY <3>1, <3>2
    <2>. QED BY <2>1
  <1>5. \A n \in Nat : n < L => f[n] \subseteq f[n + 1]
    <2>. DEFINE S == { n \in Nat : n < L => f[n] \subseteq f[n + 1] }
    <2>1. 0 \in S
      BY <1>1
    <2>2. ASSUME NEW n \in Nat, n \in S PROVE n + 1 \in S
      <3>1. SUFFICES ASSUME n + 1 < L PROVE f[n + 1] \subseteq f[(n + 1) + 1]
        OBVIOUS
      <3>2. n + 1 \in Nat /\ n < L
        BY <1>2, <3>1
      <3>3. f[n + 1] = MadeOf(f[n]) /\ f[(n + 1) + 1] = MadeOf(f[n + 1])
        BY <1>3, <3>1, <3>2
      <3>4. f[n] \subseteq f[n + 1]
        BY <2>2, <3>2
      <3>. QED BY <3>3, <3>4, MadeOfGrows
    <2>3. Nat \subseteq S
      <3>. HIDE DEF S
      <3>. QED BY <2>1, <2>2, SetInduction
    <2>. QED BY <2>3
  <1>6. CASE \E n \in Nat : n < L /\ f[n] = f[n + 1]
    <2>1. PICK n \in Nat : n < L /\ f[n] = f[n + 1]
      BY <1>6
    <2>. DEFINE S == { k \in Nat : n + k <= L => f[n + k] = f[n] }
    <2>2. 0 \in S
      OBVIOUS
    <2>3. ASSUME NEW k \in Nat, k \in S PROVE k + 1 \in S
      <3>1. SUFFICES ASSUME n + (k + 1) <= L PROVE f[n + (k + 1)] = f[n]
        OBVIOUS
      <3>2. n + k \in Nat /\ n + k < L /\ n + k <= L /\ n + (k + 1) = (n + k) + 1
        BY <1>2, <3>1
      <3>3. f[n + k] = f[n]
        BY <2>3, <3>2
      <3>4. f[n + (k + 1)] = MadeOf(f[n]) /\ f[n + 1] = MadeOf(f[n])
        BY <1>3, <2>1, <3>2, <3>3
      <3>. QED BY <2>1, <3>4
    <2>4. L - n \in S
      <3>1. L - n \in Nat
        BY <1>2, <2>1
      <3>. HIDE DEF S
      <3>. QED BY <2>2, <2>3, <3>1, SetInduction
    <2>5. f[L] = f[n]
      <3>1. n + (L - n) = L
        BY <1>2
      <3>. QED BY <1>2, <2>4, <3>1
    <2>. QED BY <1>1, <1>3, <2>1, <2>5
  <1>7. CASE \A n \in Nat : n < L => f[n] # f[n + 1]
    <2>1. \A n \in Nat : n <= L =>
             IsFiniteSet(f[n]) /\ Cardinality(f[n]) \in Nat
      BY <1>2, <1>4, FS_Subset, FS_CardinalityType
    <2>. DEFINE S == { n \in Nat : n <= L => n <= Cardinality(f[n]) }
    <2>2. 0 \in S
      BY <1>2, <2>1
    <2>3. ASSUME NEW n \in Nat, n \in S PROVE n + 1 \in S
      <3>1. SUFFICES ASSUME n + 1 <= L PROVE n + 1 <= Cardinality(f[n + 1])
        OBVIOUS
      <3>2. n < L /\ n <= L /\ n + 1 \in Nat
        BY <1>2, <3>1
      <3>3. f[n] \subseteq f[n + 1] /\ f[n] # f[n + 1]
        BY <1>5, <1>7, <3>2
      <3>4. /\ Cardinality(f[n]) \in Nat /\ Cardinality(f[n + 1]) \in Nat
            /\ n <= Cardinality(f[n]) /\ IsFiniteSet(f[n + 1])
        BY <2>1, <2>3, <3>1, <3>2
      <3>5. Cardinality(f[n]) < Cardinality(f[n + 1])
        BY <3>3, <3>4, FS_Subset
      <3>. QED BY <3>4, <3>5
    <2>4. L \in S
      <3>. HIDE DEF S
      <3>. QED BY <1>2, <2>2, <2>3, SetInduction
    <2>5. /\ f[L] \subseteq Types /\ L <= Cardinality(f[L])
          /\ Cardinality(f[L]) \in Nat
      BY <1>2, <1>4, <2>1, <2>4
    <2>6. f[L] = Types
      <3>1. Cardinality(Types) \in Nat
        BY <1>2, FS_CardinalityType
      <3>2. /\ Cardinality(f[L]) <= Cardinality(Types)
            /\ Cardinality(Types) = Cardinality(f[L]) => Types = f[L]
        BY <1>2, <2>5, FS_Subset
      <3>. QED BY <1>2, <2>5, <3>1, <3>2
    <2>. QED BY <1>1, <2>6, MadeOfTypes
  <1>. QED BY <1>6, <1>7

-----------------------------------------------------------------------------
(* What addDescriptor accepts *)

\* What has a flag comes down to conditions without sub-conditions.
FlaggedGrounded == DOMAIN flagsMap \subseteq Grounded

\* Every such condition that has a flag took one.
FlagsCounted == Cardinality(FlaggedLeaves) = nextFlagIndex

\* Each condition has its flags, or waits for them.
AllVisited ==
    \A k \in DOMAIN Conditions :
        \/ Conditions[k].type \in DOMAIN flagsMap
        \/ \E j \in DOMAIN targets : targets[j] = Conditions[k]
        \/ \E j \in DOMAIN nextTargets : nextTargets[j] = Conditions[k]

\* A round that has given no flag yet has put off only what has to wait.
RoundInv ==
    /\ roundLength \in Nat
    /\ Len(targets) + Len(nextTargets) <= roundLength
    /\ Len(targets) + Len(nextTargets) = roundLength =>
           \A j \in DOMAIN nextTargets : ~Declared(nextTargets[j].subConditions)

\* What addDescriptor has decided.
DecidedInv ==
    /\ phase \in {"flags", "refused", "ready", "transforming"}
    /\ phase = "refused" => ~WellFormed
    /\ phase \in {"ready", "transforming"} =>
           targets = << >> /\ nextTargets = << >> /\ RulesDeclared

AcceptInv ==
    FlaggedGrounded /\ FlagsCounted /\ AllVisited /\ RoundInv /\ DecidedInv

LEMMA WellFormedKept ==
    ASSUME language' = language
    PROVE  Grounded' = Grounded /\ WellFormed' = WellFormed
  <1>1. Conditions' = Conditions /\ Transforms' = Transforms
    BY DEF Conditions, Transforms
  <1>2. Grounded' = Grounded
    BY DEF Grounded, MadeOf, Conditions
  <1>. QED BY <1>1, <1>2 DEF WellFormed, IsLeaf

LEMMA LeavesFinite ==
    ASSUME language \in DOMAIN Tables
    PROVE  /\ IsFiniteSet({ k \in DOMAIN Conditions : IsLeaf(Conditions[k]) })
           /\ IsFiniteSet(FlaggedLeaves)
           /\ FlaggedLeaves \subseteq { k \in DOMAIN Conditions : IsLeaf(Conditions[k]) }
  <1>1. Len(Conditions) \in Nat /\ DOMAIN Conditions = 1 .. Len(Conditions)
    BY ConditionsType
  <1>2. IsFiniteSet(DOMAIN Conditions)
    BY <1>1, FS_Interval
  <1>. QED BY <1>2, FS_Subset DEF FlaggedLeaves

LEMMA InitAccept == Init => AcceptInv
  <1>1. SUFFICES ASSUME Init PROVE AcceptInv
    OBVIOUS
  <1>2. language \in DOMAIN Tables
    BY <1>1 DEF Init
  <1>3. Len(Conditions) \in Nat /\ DOMAIN Conditions = 1 .. Len(Conditions)
    BY <1>2, ConditionsType
  <1>4. FlaggedGrounded
    BY <1>1 DEF Init, FlaggedGrounded
  <1>5. FlagsCounted
    <2>1. FlaggedLeaves = {}
      BY <1>1 DEF Init, FlaggedLeaves
    <2>. QED BY <1>1, <2>1, FS_EmptySet DEF Init, FlagsCounted
  <1>6. AllVisited
    BY <1>1 DEF Init, AllVisited
  <1>7. RoundInv
    BY <1>1, <1>3 DEF Init, RoundInv
  <1>8. DecidedInv
    BY <1>1 DEF Init, DecidedInv
  <1>. QED BY <1>4, <1>5, <1>6, <1>7, <1>8 DEF AcceptInv

\* Registration and decision stay as they are.
LEMMA KeptAccept ==
    ASSUME IInv, AcceptInv, UNCHANGED << language, registration >>,
           DecidedInv'
    PROVE  AcceptInv'
  <1>. USE DEF registration
  <1>1. /\ Conditions' = Conditions /\ Grounded' = Grounded
        /\ targets' = targets /\ nextTargets' = nextTargets
        /\ flagsMap' = flagsMap /\ nextFlagIndex' = nextFlagIndex
        /\ roundLength' = roundLength
    BY WellFormedKept DEF Conditions
  <1>2. FlaggedLeaves' = FlaggedLeaves
    BY <1>1 DEF FlaggedLeaves, IsLeaf
  <1>3. FlaggedGrounded' /\ FlagsCounted' /\ AllVisited'
    BY <1>1, <1>2 DEF AcceptInv, FlaggedGrounded, FlagsCounted, AllVisited
  <1>4. RoundInv'
    BY <1>1 DEF AcceptInv, RoundInv, Declared
  <1>. QED BY <1>3, <1>4 DEF AcceptInv

\* All flags are taken when a further condition asks for one.
LEMMA ExhaustedAccept == IInv /\ AcceptInv /\ FlagsExhausted => AcceptInv'
  <1>1. SUFFICES ASSUME IInv, AcceptInv, FlagsExhausted PROVE AcceptInv'
    OBVIOUS
  <1>. DEFINE leaves == { k \in DOMAIN Conditions : IsLeaf(Conditions[k]) }
  <1>2. /\ language \in DOMAIN Tables
        /\ targets \in Seq(TableConditions) /\ targets # << >>
        /\ Unflagged(targets)
        /\ Head(targets).subConditions = {}
        /\ nextFlagIndex = MaxFlags
    BY <1>1 DEF IInv, PendingInv, FlagsExhausted, FlagsBelow, MaxFlags
  <1>3. Head(targets) \in TableConditions /\ Head(targets).type \notin DOMAIN flagsMap
    <2>1. 1 \in DOMAIN targets /\ Head(targets) = targets[1]
          /\ targets[1] \in TableConditions
      BY <1>2
    <2>. QED BY <1>2, <2>1 DEF Unflagged
  <1>4. PICK m \in DOMAIN Conditions : Head(targets) = Conditions[m]
    BY <1>3 DEF TableConditions
  <1>5. m \in leaves /\ m \notin FlaggedLeaves
    BY <1>2, <1>3, <1>4 DEF IsLeaf, FlaggedLeaves
  <1>6. /\ IsFiniteSet(leaves) /\ IsFiniteSet(FlaggedLeaves)
        /\ FlaggedLeaves \subseteq leaves
        /\ Cardinality(FlaggedLeaves) = MaxFlags
    BY <1>1, <1>2, LeavesFinite DEF AcceptInv, FlagsCounted
  <1>7. Cardinality(leaves) > MaxFlags
    <2>. HIDE DEF leaves
    <2>1. /\ IsFiniteSet(FlaggedLeaves \cup {m})
          /\ Cardinality(FlaggedLeaves \cup {m}) = MaxFlags + 1
      BY <1>5, <1>6, FS_AddElement
    <2>2. Cardinality(FlaggedLeaves \cup {m}) <= Cardinality(leaves)
      BY <1>5, <1>6, FS_Subset
    <2>3. Cardinality(leaves) \in Nat
      BY <1>6, FS_CardinalityType
    <2>. QED BY <2>1, <2>2, <2>3 DEF MaxFlags
  <1>8. ~WellFormed
    <2>1. Cardinality(leaves) \in Nat /\ MaxFlags \in Nat
      BY <1>6, FS_CardinalityType DEF MaxFlags
    <2>. HIDE DEF leaves
    <2>2. ~(Cardinality(leaves) <= MaxFlags)
      BY <1>7, <2>1
    <2>. QED BY <2>2 DEF WellFormed, leaves
  <1>9. UNCHANGED << language, registration >> /\ phase' = "refused"
    BY <1>1 DEF FlagsExhausted, Refuse
  <1>10. DecidedInv'
    BY <1>8, <1>9, WellFormedKept DEF DecidedInv
  <1>. QED BY <1>1, <1>9, <1>10, KeptAccept

\* What a round without a flag put off can never have one.
LEMMA NoProgressAccept == IInv /\ AcceptInv /\ NoProgress => AcceptInv'
  <1>1. SUFFICES ASSUME IInv, AcceptInv, NoProgress PROVE AcceptInv'
    OBVIOUS
  <1>2. /\ language \in DOMAIN Tables
        /\ targets = << >>
        /\ nextTargets \in Seq(TableConditions) /\ nextTargets # << >>
        /\ Unflagged(nextTargets)
        /\ Len(nextTargets) = roundLength
    BY <1>1 DEF IInv, PendingInv, NoProgress
  <1>3. \A j \in DOMAIN nextTargets : ~Declared(nextTargets[j].subConditions)
    BY <1>1, <1>2 DEF AcceptInv, RoundInv
  <1>4. MadeOf(DOMAIN flagsMap) \subseteq DOMAIN flagsMap
    <2>1. SUFFICES ASSUME NEW k \in DOMAIN Conditions,
                          Conditions[k].subConditions \subseteq DOMAIN flagsMap
                   PROVE  Conditions[k].type \in DOMAIN flagsMap
      BY DEF MadeOf
    <2>. QED BY <1>1, <1>2, <1>3, <2>1 DEF AcceptInv, AllVisited, Declared
  <1>5. Grounded \subseteq DOMAIN flagsMap
    BY <1>2, <1>4, GroundedLeast
  <1>6. 1 \in DOMAIN nextTargets /\ nextTargets[1] \in TableConditions
    BY <1>2
  <1>7. nextTargets[1].type \notin Grounded
    BY <1>2, <1>5, <1>6 DEF Unflagged
  <1>8. ~WellFormed
    BY <1>6, <1>7 DEF WellFormed, TableConditions
  <1>9. UNCHANGED << language, registration >> /\ phase' = "refused"
    BY <1>1 DEF NoProgress, Refuse
  <1>10. DecidedInv'
    BY <1>8, <1>9, WellFormedKept DEF DecidedInv
  <1>. QED BY <1>1, <1>9, <1>10, KeptAccept

\* Every condition has its flags, and a rule names something else.
LEMMA InvalidAccept == IInv /\ AcceptInv /\ InvalidConditions => AcceptInv'
  <1>1. SUFFICES ASSUME IInv, AcceptInv, InvalidConditions PROVE AcceptInv'
    OBVIOUS
  <1>2. language \in DOMAIN Tables /\ targets = << >> /\ nextTargets = << >>
    BY <1>1 DEF IInv, InvalidConditions, FlagsComplete
  <1>3. Types \subseteq DOMAIN flagsMap
    BY <1>1, <1>2 DEF AcceptInv, AllVisited, Types
  <1>4. Grounded \subseteq DOMAIN flagsMap
    BY <1>2, <1>3, MadeOfTypes, GroundedLeast
  <1>5. ~WellFormed
    BY <1>1, <1>4 DEF InvalidConditions, RulesDeclared, Declared, WellFormed
  <1>6. UNCHANGED << language, registration >> /\ phase' = "refused"
    BY <1>1 DEF InvalidConditions, Refuse
  <1>7. DecidedInv'
    BY <1>5, <1>6, WellFormedKept DEF DecidedInv
  <1>. QED BY <1>1, <1>6, <1>7, KeptAccept

\* A condition that waits keeps the round as long as it was.
LEMMA PutOffAccept == IInv /\ AcceptInv /\ PutOff => AcceptInv'
  <1>1. SUFFICES ASSUME IInv, AcceptInv, PutOff PROVE AcceptInv'
    OBVIOUS
  <1>2. /\ language' = language /\ Conditions' = Conditions
        /\ Grounded' = Grounded
        /\ flagsMap' = flagsMap /\ nextFlagIndex' = nextFlagIndex
        /\ roundLength' = roundLength /\ phase' = phase /\ phase = "flags"
    BY <1>1, WellFormedKept DEF PutOff, Conditions
  <1>3. /\ targets \in Seq(TableConditions) /\ targets # << >>
        /\ nextTargets \in Seq(TableConditions)
        /\ targets' = Tail(targets)
        /\ nextTargets' = Append(nextTargets, Head(targets))
        /\ ~Declared(Head(targets).subConditions)
    BY <1>1 DEF IInv, PendingInv, PutOff
  <1>4. /\ Len(targets) \in Nat /\ Len(nextTargets) \in Nat
        /\ Len(targets') = Len(targets) - 1
        /\ Len(nextTargets') = Len(nextTargets) + 1
        /\ DOMAIN nextTargets = 1 .. Len(nextTargets)
        /\ DOMAIN nextTargets' = 1 .. Len(nextTargets) + 1
        /\ DOMAIN targets = 1 .. Len(targets)
        /\ DOMAIN targets' = 1 .. Len(targets) - 1
        /\ targets[1] = Head(targets)
        /\ \A j \in DOMAIN targets' : targets'[j] = targets[j + 1]
        /\ \A j \in DOMAIN nextTargets : nextTargets'[j] = nextTargets[j]
        /\ nextTargets'[Len(nextTargets) + 1] = Head(targets)
    BY <1>3
  <1>5. FlaggedLeaves' = FlaggedLeaves
    BY <1>2 DEF FlaggedLeaves, IsLeaf
  <1>6. FlaggedGrounded' /\ FlagsCounted'
    BY <1>1, <1>2, <1>5 DEF AcceptInv, FlaggedGrounded, FlagsCounted
  <1>7. AllVisited'
    <2>1. SUFFICES ASSUME NEW k \in DOMAIN Conditions,
                          Conditions[k].type \notin DOMAIN flagsMap
                   PROVE  \/ \E j \in DOMAIN targets' : targets'[j] = Conditions[k]
                          \/ \E j \in DOMAIN nextTargets' :
                                 nextTargets'[j] = Conditions[k]
      BY <1>2 DEF AllVisited
    <2>2. CASE \E j \in DOMAIN targets : targets[j] = Conditions[k]
      <3>1. PICK j \in DOMAIN targets : targets[j] = Conditions[k]
        BY <2>2
      <3>2. CASE j = 1
        <4>1. Len(nextTargets) + 1 \in DOMAIN nextTargets'
          BY <1>4
        <4>. QED BY <1>4, <3>1, <3>2, <4>1
      <3>3. CASE j # 1
        <4>1. j - 1 \in DOMAIN targets' /\ (j - 1) + 1 = j
          BY <1>4, <3>1, <3>3
        <4>2. targets'[j - 1] = Conditions[k]
          BY <1>4, <3>1, <4>1
        <4>. QED BY <4>1, <4>2
      <3>. QED BY <3>2, <3>3
    <2>3. CASE \E j \in DOMAIN nextTargets : nextTargets[j] = Conditions[k]
      <3>1. PICK j \in DOMAIN nextTargets : nextTargets[j] = Conditions[k]
        BY <2>3
      <3>2. j \in DOMAIN nextTargets'
        BY <1>4, <3>1
      <3>. QED BY <1>4, <3>1, <3>2
    <2>. QED BY <1>1, <2>1, <2>2, <2>3 DEF AcceptInv, AllVisited
  <1>8. RoundInv'
    <2>1. Len(targets') + Len(nextTargets') = Len(targets) + Len(nextTargets)
      BY <1>4
    <2>2. ASSUME Len(targets) + Len(nextTargets) = roundLength,
                 NEW j \in DOMAIN nextTargets'
          PROVE  ~Declared(nextTargets'[j].subConditions)
      <3>1. CASE j \in DOMAIN nextTargets
        BY <1>1, <1>4, <2>2, <3>1 DEF AcceptInv, RoundInv
      <3>2. CASE j = Len(nextTargets) + 1
        BY <1>3, <1>4, <3>2
      <3>. QED BY <1>4, <2>2, <3>1, <3>2
    <2>. QED BY <1>1, <1>2, <2>1, <2>2 DEF AcceptInv, RoundInv, Declared
  <1>9. DecidedInv'
    BY <1>2 DEF DecidedInv
  <1>. QED BY <1>6, <1>7, <1>8, <1>9 DEF AcceptInv

LEMMA NextRoundAccept == IInv /\ AcceptInv /\ NextRound => AcceptInv'
  <1>1. SUFFICES ASSUME IInv, AcceptInv, NextRound PROVE AcceptInv'
    OBVIOUS
  <1>2. /\ language' = language /\ Conditions' = Conditions
        /\ Grounded' = Grounded
        /\ flagsMap' = flagsMap /\ nextFlagIndex' = nextFlagIndex
        /\ roundLength' = Len(nextTargets) /\ phase' = phase /\ phase = "flags"
        /\ targets = << >> /\ targets' = nextTargets /\ nextTargets' = << >>
        /\ nextTargets \in Seq(TableConditions)
    BY <1>1, WellFormedKept DEF NextRound, Conditions, IInv, PendingInv
  <1>3. FlaggedLeaves' = FlaggedLeaves
    BY <1>2 DEF FlaggedLeaves, IsLeaf
  <1>4. FlaggedGrounded' /\ FlagsCounted'
    BY <1>1, <1>2, <1>3 DEF AcceptInv, FlaggedGrounded, FlagsCounted
  <1>5. AllVisited'
    BY <1>1, <1>2 DEF AcceptInv, AllVisited
  <1>6. RoundInv'
    BY <1>2 DEF RoundInv
  <1>7. DecidedInv'
    BY <1>2 DEF DecidedInv
  <1>. QED BY <1>4, <1>5, <1>6, <1>7 DEF AcceptInv

\* A condition gets its flags: its own one, or those of its parts.
LEMMA FlagAccept == IInv /\ AcceptInv /\ (FlagLeaf \/ FlagGroup) => AcceptInv'
  <1>1. SUFFICES ASSUME IInv, AcceptInv, FlagLeaf \/ FlagGroup PROVE AcceptInv'
    OBVIOUS
  <1>. DEFINE t == Head(targets).type
  <1>2. /\ language' = language /\ Conditions' = Conditions
        /\ Grounded' = Grounded /\ language \in DOMAIN Tables
        /\ nextTargets' = nextTargets
        /\ roundLength' = roundLength /\ phase' = phase /\ phase = "flags"
        /\ targets \in Seq(TableConditions) /\ targets # << >>
        /\ targets' = Tail(targets) /\ nextTargets \in Seq(TableConditions)
    BY <1>1, WellFormedKept DEF FlagLeaf, FlagGroup, Conditions, IInv, PendingInv
  <1>3. /\ Head(targets) \in TableConditions
        /\ t \notin DOMAIN flagsMap
        /\ DOMAIN flagsMap' = DOMAIN flagsMap \cup {t}
    <2>1. CASE FlagLeaf
      BY <1>1, <2>1, FlaggedPending DEF FlagLeaf
    <2>2. CASE FlagGroup
      BY <1>1, <2>2, FlaggedPending DEF FlagGroup
    <2>. QED BY <1>1, <2>1, <2>2
  <1>4. PICK m \in DOMAIN Conditions : Head(targets) = Conditions[m]
    BY <1>3 DEF TableConditions
  <1>5. Conditions[m].type = t
    BY <1>4
  <1>6. \A k \in DOMAIN Conditions : Conditions[k].type = t => k = m
    BY <1>2, <1>5, TypesDiffer
  <1>7. FlaggedGrounded'
    <2>1. Conditions[m].subConditions \subseteq Grounded
      BY <1>1, <1>4 DEF FlagLeaf, FlagGroup, Declared, AcceptInv, FlaggedGrounded
    <2>2. t \in MadeOf(Grounded)
      BY <1>5, <2>1 DEF MadeOf
    <2>3. t \in Grounded
      BY <1>2, <2>2, GroundedClosed
    <2>. QED BY <1>1, <1>2, <1>3, <2>3 DEF AcceptInv, FlaggedGrounded
  <1>8. FlagsCounted'
    <2>1. IsFiniteSet(FlaggedLeaves) /\ Cardinality(FlaggedLeaves) = nextFlagIndex
      BY <1>1, <1>2, LeavesFinite DEF AcceptInv, FlagsCounted
    <2>2. m \notin FlaggedLeaves
      BY <1>3, <1>5 DEF FlaggedLeaves
    <2>3. CASE FlagLeaf
      <3>1. FlaggedLeaves' = FlaggedLeaves \cup {m}
        BY <1>2, <1>3, <1>4, <1>6, <2>3 DEF FlagLeaf, FlaggedLeaves, IsLeaf
      <3>2. Cardinality(FlaggedLeaves') = nextFlagIndex + 1
        BY <2>1, <2>2, <3>1, FS_AddElement
      <3>. QED BY <2>3, <3>2 DEF FlagLeaf, FlagsCounted
    <2>4. CASE FlagGroup
      <3>1. FlaggedLeaves' = FlaggedLeaves
        BY <1>2, <1>3, <1>4, <1>6, <2>4 DEF FlagGroup, FlaggedLeaves, IsLeaf
      <3>. QED BY <2>1, <2>4, <3>1 DEF FlagGroup, FlagsCounted
    <2>. QED BY <1>1, <2>3, <2>4
  <1>9. /\ Len(targets) \in Nat /\ Len(nextTargets) \in Nat
        /\ Len(targets') = Len(targets) - 1
        /\ DOMAIN targets = 1 .. Len(targets)
        /\ DOMAIN targets' = 1 .. Len(targets) - 1
        /\ targets[1] = Head(targets)
        /\ \A j \in DOMAIN targets' : targets'[j] = targets[j + 1]
    BY <1>2
  <1>10. AllVisited'
    <2>1. SUFFICES ASSUME NEW k \in DOMAIN Conditions,
                          Conditions[k].type \notin DOMAIN flagsMap'
                   PROVE  \/ \E j \in DOMAIN targets' : targets'[j] = Conditions[k]
                          \/ \E j \in DOMAIN nextTargets :
                                 nextTargets[j] = Conditions[k]
      BY <1>2 DEF AllVisited
    <2>2. Conditions[k].type \notin DOMAIN flagsMap /\ Conditions[k].type # t
      BY <1>3, <2>1
    <2>3. CASE \E j \in DOMAIN targets : targets[j] = Conditions[k]
      <3>1. PICK j \in DOMAIN targets : targets[j] = Conditions[k]
        BY <2>3
      <3>2. j # 1
        BY <1>9, <2>2, <3>1
      <3>3. j - 1 \in DOMAIN targets' /\ (j - 1) + 1 = j
        BY <1>9, <3>1, <3>2
      <3>4. targets'[j - 1] = Conditions[k]
        BY <1>9, <3>1, <3>3
      <3>. QED BY <3>3, <3>4
    <2>. QED BY <1>1, <2>2, <2>3 DEF AcceptInv, AllVisited
  <1>11. RoundInv'
    <2>1. /\ Len(targets) + Len(nextTargets) <= roundLength
      BY <1>1 DEF AcceptInv, RoundInv
    <2>2. roundLength \in Int
      BY <1>1 DEF AcceptInv, RoundInv
    <2>3. Len(targets') + Len(nextTargets') < roundLength
      BY <1>2, <1>9, <2>1, <2>2
    <2>. QED BY <1>2, <1>9, <2>2, <2>3 DEF RoundInv
  <1>12. DecidedInv'
    BY <1>2 DEF DecidedInv
  <1>. QED BY <1>7, <1>8, <1>10, <1>11, <1>12 DEF AcceptInv

LEMMA NextAccept == IInv /\ AcceptInv /\ [Next]_vars => AcceptInv'
  <1>1. SUFFICES ASSUME IInv, AcceptInv, [Next]_vars PROVE AcceptInv'
    OBVIOUS
  <1>2. CASE FlagLeaf \/ FlagGroup
    BY <1>1, <1>2, FlagAccept
  <1>3. CASE FlagsExhausted
    BY <1>1, <1>3, ExhaustedAccept
  <1>4. CASE PutOff
    BY <1>1, <1>4, PutOffAccept
  <1>5. CASE NextRound
    BY <1>1, <1>5, NextRoundAccept
  <1>6. CASE NoProgress
    BY <1>1, <1>6, NoProgressAccept
  <1>7. CASE InvalidConditions
    BY <1>1, <1>7, InvalidAccept
  <1>8. CASE AddTransforms \/ Scan \/ ApplyRule \/ UNCHANGED vars
    <2>1. UNCHANGED << language, registration >>
      BY <1>8 DEF AddTransforms, Scan, ApplyRule, vars, registration
    <2>2. /\ WellFormed' = WellFormed
          /\ RulesDeclared' = RulesDeclared
          /\ targets' = targets /\ nextTargets' = nextTargets
      BY <2>1, WellFormedKept
         DEF registration, RulesDeclared, Transforms, Declared
    <2>3. DecidedInv'
      BY <1>1, <1>8, <2>2
         DEF AcceptInv, DecidedInv, AddTransforms, Scan, ApplyRule, FlagsComplete, vars
    <2>. QED BY <1>1, <2>1, <2>3, KeptAccept
  <1>. QED BY <1>1, <1>2, <1>3, <1>4, <1>5, <1>6, <1>7, <1>8 DEF Next

LEMMA InvAcceptsExactly == IInv /\ AcceptInv => AcceptsExactly
  <1>1. SUFFICES ASSUME IInv, AcceptInv PROVE AcceptsExactly
    OBVIOUS
  <1>2. ASSUME phase \in {"ready", "transforming"}
        PROVE  WellFormed
    <2>1. /\ language \in DOMAIN Tables
          /\ targets = << >> /\ nextTargets = << >> /\ RulesDeclared
          /\ DOMAIN flagsMap \subseteq Grounded
      BY <1>1, <1>2 DEF IInv, AcceptInv, DecidedInv, FlaggedGrounded
    <2>2. \A k \in DOMAIN Conditions : Conditions[k].type \in DOMAIN flagsMap
      BY <1>1, <2>1 DEF AcceptInv, AllVisited
    <2>3. { k \in DOMAIN Conditions : IsLeaf(Conditions[k]) } = FlaggedLeaves
      BY <2>2 DEF FlaggedLeaves
    <2>4. Cardinality(FlaggedLeaves) <= MaxFlags
      BY <1>1 DEF IInv, FlagsBelow, AcceptInv, FlagsCounted, MaxFlags
    <2>. QED BY <2>1, <2>2, <2>3, <2>4
             DEF WellFormed, RulesDeclared, Declared
  <1>. QED BY <1>1, <1>2 DEF AcceptInv, DecidedInv, AcceptsExactly

\* For every table, in whatever order its conditions are declared: addDescriptor
\* refuses it only if some condition does not come down to ones without
\* sub-conditions, there are more than 32 of these, or a rule names a condition
\* that does not; and a table it accepts has nothing of that.
THEOREM AcceptsWellFormed == Spec => []AcceptsExactly
  <1>1. Spec => []AcceptInv
    BY IInvHolds, InitAccept, NextAccept, PTL DEF Spec
  <1>. QED BY IInvHolds, <1>1, InvAcceptsExactly, PTL

LEMMA RoundsStep ==
    IInv /\ AcceptInv /\ [Next]_vars =>
        [phase = "flags" /\ phase' = "flags" =>
             \/ roundLength' < roundLength
             \/ roundLength' = roundLength /\ Len(targets') < Len(targets)]_vars
  <1>1. SUFFICES ASSUME IInv, AcceptInv, Next, phase = "flags", phase' = "flags"
                 PROVE  \/ roundLength' < roundLength
                        \/ /\ roundLength' = roundLength
                           /\ Len(targets') < Len(targets)
    OBVIOUS
  <1>2. /\ targets \in Seq(TableConditions) /\ nextTargets \in Seq(TableConditions)
        /\ roundLength \in Nat /\ Len(targets) + Len(nextTargets) <= roundLength
    BY <1>1 DEF IInv, PendingInv, AcceptInv, RoundInv
  <1>3. CASE FlagLeaf \/ FlagGroup \/ PutOff
    <2>1. targets # << >> /\ targets' = Tail(targets) /\ roundLength' = roundLength
      BY <1>3 DEF FlagLeaf, FlagGroup, PutOff
    <2>2. Len(Tail(targets)) < Len(targets)
      BY <1>2, <2>1
    <2>. QED BY <2>1, <2>2
  <1>4. CASE NextRound
    <2>1. /\ targets = << >> /\ Len(nextTargets) # roundLength
          /\ roundLength' = Len(nextTargets)
      BY <1>4 DEF NextRound
    <2>2. Len(nextTargets) \in Nat /\ Len(targets) = 0
      BY <1>2, <2>1
    <2>. QED BY <1>2, <2>1, <2>2
  <1>5. ~(FlagsExhausted \/ NoProgress \/ AddTransforms \/ InvalidConditions
          \/ Scan \/ ApplyRule)
    BY <1>1 DEF FlagsExhausted, NoProgress, AddTransforms, InvalidConditions, Scan,
                ApplyRule, Refuse
  <1>. QED BY <1>1, <1>3, <1>4, <1>5 DEF Next

\* addDescriptor comes to an end for every table: the conditions of a round and those
\* left in it are natural numbers, and every step makes the round shorter or leaves
\* less of it.
THEOREM AddDescriptorEnds ==
    Spec => [](roundLength \in Nat /\ Len(targets) \in Nat) /\ RoundsShrink
  <1>1. Spec => [](IInv /\ AcceptInv)
    BY IInvHolds, InitAccept, NextAccept, PTL DEF Spec
  <1>2. IInv /\ AcceptInv => roundLength \in Nat /\ Len(targets) \in Nat
    <2>1. IInv /\ AcceptInv => roundLength \in Nat /\ targets \in Seq(TableConditions)
      BY DEF IInv, PendingInv, AcceptInv, RoundInv
    <2>. QED BY <2>1
  <1>. QED BY <1>1, <1>2, RoundsStep, PTL DEF Spec, RoundsShrink

-----------------------------------------------------------------------------
(* hangul-js: the letters, and taking a word apart *)

\* The letters that stand for two consonants, or for two vowels.
TwoConsonants == Made(ComplexConsonants)
TwoVowels == Made(ComplexVowels)
BasicVowels == Vowels \ TwoVowels
BasicFinals == Finals \ TwoConsonants

LEMMA MadeConsonants ==
    TwoConsonants = {"gs", "nj", "nh", "rg", "rm", "rb", "rs", "rt", "rp", "rh", "bs"}
  BY DEF TwoConsonants, Made, ComplexConsonants

LEMMA MadeVowels == TwoVowels = {"oa", "oae", "oi", "ueo", "ue", "ui", "eui"}
  BY DEF TwoVowels, Made, ComplexVowels

LEMMA Alphabet ==
    /\ Initials \cap Vowels = {}
    /\ Initials \cap (TwoConsonants \cup TwoVowels) = {}
    /\ TwoConsonants \cap Vowels = {} /\ TwoConsonants \subseteq Finals
    /\ TwoVowels \subseteq Vowels
    /\ BasicFinals \subseteq Initials
    /\ "" \notin Initials \cup Vowels \cup Finals
    /\ Vowels \cap Finals = {}
  BY MadeConsonants, MadeVowels
     DEF Initials, Vowels, Finals, BasicFinals, TwoConsonants, TwoVowels

LEMMA TablesApart ==
    /\ \A d, e \in ComplexConsonants :
           (d[1] = e[1] /\ d[2] = e[2]) \/ d[3] = e[3] => d = e
    /\ \A d, e \in ComplexVowels :
           (d[1] = e[1] /\ d[2] = e[2]) \/ d[3] = e[3] => d = e
    /\ \A d \in ComplexConsonants, e \in ComplexVowels : d[3] # e[3]
  BY DEF ComplexConsonants, ComplexVowels

LEMMA TableLetters ==
    /\ \A e \in ComplexConsonants :
         e[1] \in BasicFinals /\ e[2] \in BasicFinals /\ e[3] \in TwoConsonants
    /\ \A e \in ComplexVowels :
         e[1] \in BasicVowels /\ e[2] \in BasicVowels /\ e[3] \in TwoVowels
    /\ \A d, e \in ComplexVowels : d[2] # e[1]
  <1>1. \A e \in ComplexConsonants : e[1] \in Finals /\ e[2] \in Finals
           /\ e[1] \notin TwoConsonants /\ e[2] \notin TwoConsonants
    BY MadeConsonants DEF ComplexConsonants, Finals, Initials
  <1>2. \A e \in ComplexVowels : e[1] \in Vowels /\ e[2] \in Vowels
           /\ e[1] \notin TwoVowels /\ e[2] \notin TwoVowels
    BY MadeVowels DEF ComplexVowels, Vowels
  <1>3. \A d, e \in ComplexVowels : d[2] # e[1]
    BY DEF ComplexVowels
  <1>. QED BY <1>1, <1>2, <1>3
           DEF BasicFinals, BasicVowels, TwoConsonants, TwoVowels, Made

\* What a letter in a table is taken apart into.
LEMMA SplitEntry ==
    ASSUME NEW entry \in ComplexConsonants \cup ComplexVowels
    PROVE  Split(entry[3]) = << entry[1], entry[2] >>
  <1>. DEFINE e == CHOOSE e \in ComplexConsonants \cup ComplexVowels :
                       e[3] = entry[3]
  <1>1. e \in ComplexConsonants \cup ComplexVowels /\ e[3] = entry[3]
    OBVIOUS
  <1>2. e = entry
    BY <1>1, TablesApart
  <1>3. entry[3] \in Made(ComplexConsonants) \cup Made(ComplexVowels)
    BY DEF Made
  <1>4. Split(entry[3]) = << e[1], e[2] >>
    BY <1>3 DEF Split
  <1>. QED BY <1>2, <1>4

LEMMA JoinedEntry ==
    ASSUME NEW table \in {ComplexConsonants, ComplexVowels}, NEW entry \in table
    PROVE  /\ Joinable(table, entry[1], entry[2])
           /\ Joined(table, entry[1], entry[2]) = entry[3]
  <1>. DEFINE e == CHOOSE e \in table : e[1] = entry[1] /\ e[2] = entry[2]
  <1>1. e \in table /\ e[1] = entry[1] /\ e[2] = entry[2]
    OBVIOUS
  <1>2. e = entry
    <2>. HIDE DEF e
    <2>. QED BY <1>1, TablesApart
  <1>. QED BY <1>2 DEF Joinable, Joined

\* Two letters that join, and what they make.
Joins(table, a, b, made) ==
    /\ Joinable(table, a, b)
    /\ Joined(table, a, b) = made
    /\ Split(made) = << a, b >>

LEMMA JoinableJoins ==
    ASSUME NEW table \in {ComplexConsonants, ComplexVowels}, NEW a, NEW b,
           Joinable(table, a, b)
    PROVE  /\ Joined(table, a, b) \in Made(table)
           /\ Joins(table, a, b, Joined(table, a, b))
  <1>1. PICK entry \in table : entry[1] = a /\ entry[2] = b
    BY DEF Joinable
  <1>2. Joined(table, a, b) = entry[3]
    BY <1>1, JoinedEntry
  <1>. QED BY <1>1, <1>2, SplitEntry DEF Joins, Made

LEMMA MadeJoins ==
    ASSUME NEW table \in {ComplexConsonants, ComplexVowels},
           NEW made \in Made(table)
    PROVE  \E a, b : Joins(table, a, b, made)
  <1>1. PICK entry \in table : entry[3] = made
    BY DEF Made
  <1>2. Joins(table, entry[1], entry[2], made)
    BY <1>1, JoinedEntry, SplitEntry DEF Joins
  <1>. QED BY <1>2

LEMMA JoinedLetters ==
    /\ \A a, b : Joinable(ComplexConsonants, a, b) =>
           a \in BasicFinals /\ b \in BasicFinals
    /\ \A a, b : Joinable(ComplexVowels, a, b) =>
           /\ a \in BasicVowels /\ b \in BasicVowels
           /\ \A c : ~Joinable(ComplexVowels, b, c)
  BY TableLetters DEF Joinable

LEMMA SplitSingle ==
    ASSUME NEW x, x \notin TwoConsonants, x \notin TwoVowels, x # ""
    PROVE  Split(x) = << x >>
  BY DEF Split, TwoConsonants, TwoVowels
-----------------------------------------------------------------------------
\* The beginnings of what pieces spell, one after each piece.
Spelling(h, S, pieces) ==
    /\ h \in [0 .. Len(pieces) -> Seq(S)]
    /\ h[0] = << >>
    /\ \A i \in 1 .. Len(pieces) : h[i] = h[i - 1] \o pieces[i]

\* The pieces, one after another, make s.
Spells(S, pieces, s) ==
    /\ pieces \in Seq(Seq(S))
    /\ \E h : Spelling(h, S, pieces) /\ h[Len(pieces)] = s

\* What pieces spell is what FlattenSeq makes of them.
LEMMA SpellsFlatten ==
    ASSUME NEW S, NEW pieces, NEW s, Spells(S, pieces, s)
    PROVE  FlattenSeq(pieces) = s
  <1>. DEFINE L == Len(pieces)
              P(f) == f = [i \in 1 .. L |->
                             IF i = 1 THEN pieces[i] ELSE f[i - 1] \o pieces[i]]
              g == CHOOSE f : P(f)
  <1>1. PICK h : Spelling(h, S, pieces) /\ h[L] = s
    BY DEF Spells
  <1>2. L \in Nat /\ pieces \in Seq(Seq(S)) /\ \A i \in 1 .. L : pieces[i] \in Seq(S)
    BY DEF Spells
  <1>3. /\ h \in [0 .. L -> Seq(S)] /\ h[0] = << >>
        /\ \A i \in 1 .. L : h[i] = h[i - 1] \o pieces[i]
    BY <1>1 DEF Spelling
  <1>4. CASE L = 0
    <2>1. pieces = << >> /\ h[L] = << >>
      BY <1>2, <1>3, <1>4
    <2>. QED BY <1>1, <1>4, <2>1 DEF FlattenSeq
  <1>5. CASE L # 0
    <2>1. FlattenSeq(pieces) = g[L]
      BY <1>5 DEF FlattenSeq
    <2>2. \E f : P(f)
      <3>. DEFINE k == [i \in 1 .. L |-> h[i]]
      <3>1. ASSUME NEW i \in 1 .. L
            PROVE  k[i] = IF i = 1 THEN pieces[i] ELSE k[i - 1] \o pieces[i]
        <4>1. k[i] = h[i - 1] \o pieces[i]
          BY <1>3
        <4>2. CASE i = 1
          <5>1. << >> \o pieces[1] = pieces[1] /\ h[i - 1] = << >>
            BY <1>2, <1>3, <1>5, <4>2
          <5>. HIDE DEF k
          <5>. QED BY <4>1, <4>2, <5>1
        <4>3. CASE i # 1
          <5>1. i - 1 \in 1 .. L
            BY <1>2, <4>3
          <5>2. k[i - 1] = h[i - 1]
            BY <5>1
          <5>. HIDE DEF k
          <5>. QED BY <4>1, <4>3, <5>2
        <4>. QED BY <4>2, <4>3
      <3>2. P(k)
        BY <3>1
      <3>. HIDE DEF k, P
      <3>. QED BY <3>2
    <2>3. P(g)
      <3>. HIDE DEF P
      <3>. QED BY <2>2
    <2>4. \A i \in 1 .. L : g[i] = IF i = 1 THEN pieces[i] ELSE g[i - 1] \o pieces[i]
      <3>. HIDE DEF g, L
      <3>1. g = [i \in 1 .. L |-> IF i = 1 THEN pieces[i] ELSE g[i - 1] \o pieces[i]]
        BY <2>3
      <3>. HIDE DEF P
      <3>. QED BY <3>1
    <2>. HIDE DEF g, L
    <2>. DEFINE T == { n \in Nat : n + 1 <= L => g[n + 1] = h[n + 1] }
    <2>5. 0 \in T
      <3>1. 1 \in 1 .. L /\ << >> \o pieces[1] = pieces[1]
        BY <1>2, <1>5
      <3>2. g[1] = pieces[1]
        BY <2>4, <3>1
      <3>3. ASSUME NEW i \in 1 .. L, i = 1 PROVE g[i] = h[i]
        <4>1. h[i] = h[i - 1] \o pieces[i]
          BY <1>3
        <4>2. h[i - 1] = << >> /\ pieces[i] = pieces[1] /\ g[i] = g[1]
          BY <1>3, <3>3
        <4>. QED BY <3>1, <3>2, <4>1, <4>2
      <3>4. g[1] = h[1]
        BY <3>1, <3>3
      <3>. QED BY <3>4
    <2>6. ASSUME NEW n \in Nat, n \in T PROVE n + 1 \in T
      <3>1. SUFFICES ASSUME (n + 1) + 1 <= L PROVE g[(n + 1) + 1] = h[(n + 1) + 1]
        OBVIOUS
      <3>2. /\ (n + 1) + 1 \in 1 .. L /\ ((n + 1) + 1) - 1 = n + 1
            /\ (n + 1) + 1 # 1 /\ n + 1 <= L
        BY <1>2, <3>1
      <3>3. g[n + 1] = h[n + 1]
        BY <2>6, <3>2
      <3>. HIDE DEF T
      <3>4. g[(n + 1) + 1] = g[n + 1] \o pieces[(n + 1) + 1]
        BY <2>4, <3>2
      <3>5. h[(n + 1) + 1] = h[n + 1] \o pieces[(n + 1) + 1]
        BY <1>3, <3>2
      <3>. QED BY <3>3, <3>4, <3>5
    <2>7. L - 1 \in T
      <3>1. L - 1 \in Nat
        BY <1>2, <1>5
      <3>. HIDE DEF T
      <3>. QED BY <2>5, <2>6, <3>1, SetInduction
    <2>8. (L - 1) + 1 = L
      BY <1>2
    <2>. QED BY <1>1, <2>1, <2>7, <2>8
  <1>. QED BY <1>4, <1>5

LEMMA SeqsEqual ==
    ASSUME NEW S, NEW s \in Seq(S), NEW t \in Seq(S), Len(s) = Len(t),
           \A k \in 1 .. Len(t) : s[k] = t[k]
    PROVE  s = t
  OBVIOUS

LEMMA NothingSpells == ASSUME NEW S PROVE Spells(S, << >>, << >>)
  <1>. DEFINE h == [i \in 0 .. 0 |-> << >>]
  <1>1. << >> \in Seq(S) /\ << >> \in Seq(Seq(S)) /\ Len(<< >>) = 0
    OBVIOUS
  <1>2. h \in [0 .. 0 -> Seq(S)] /\ h[0] = << >>
    BY <1>1
  <1>. HIDE DEF h
  <1>3. Spelling(h, S, << >>)
    BY <1>1, <1>2 DEF Spelling
  <1>. QED BY <1>1, <1>2, <1>3 DEF Spells


LEMMA SpellsAppend ==
    ASSUME NEW S, NEW p, NEW s, NEW x \in Seq(S), Spells(S, p, s)
    PROVE  Spells(S, Append(p, x), s \o x)
  <1>. DEFINE L == Len(p)
              q == Append(p, x)
  <1>1. PICK h : Spelling(h, S, p) /\ h[L] = s
    BY DEF Spells
  <1>2. L \in Nat /\ p \in Seq(Seq(S))
    BY DEF Spells
  <1>3. /\ h \in [0 .. L -> Seq(S)] /\ h[0] = << >>
        /\ \A i \in 1 .. L : h[i] = h[i - 1] \o p[i]
    BY <1>1 DEF Spelling
  <1>4. /\ q \in Seq(Seq(S)) /\ Len(q) = L + 1 /\ q[L + 1] = x
        /\ \A i \in 1 .. L : q[i] = p[i]
    BY <1>2
  <1>. DEFINE g == [i \in 0 .. L + 1 |-> IF i <= L THEN h[i] ELSE s \o x]
  <1>5. s \in Seq(S) /\ s \o x \in Seq(S)
    <2>1. s \in Seq(S)
      BY <1>1, <1>2, <1>3
    <2>. QED BY <2>1
  <1>6. /\ g \in [0 .. L + 1 -> Seq(S)] /\ g[0] = << >> /\ g[L + 1] = s \o x
        /\ \A i \in 0 .. L : g[i] = h[i]
    <2>. HIDE DEF L
    <2>. QED BY <1>2, <1>3, <1>5
  <1>. HIDE DEF g, q, L
  <1>7. ASSUME NEW i \in 1 .. L + 1 PROVE g[i] = g[i - 1] \o q[i]
    <2>1. CASE i \in 1 .. L
      <3>1. i \in 0 .. L /\ i - 1 \in 0 .. L
        BY <1>2, <2>1
      <3>2. g[i] = h[i] /\ g[i - 1] = h[i - 1]
        BY ONLY <1>6, <3>1
      <3>3. q[i] = p[i] /\ h[i] = h[i - 1] \o p[i]
        BY ONLY <1>3, <1>4, <2>1
      <3>. QED BY ONLY <3>2, <3>3
    <2>2. CASE i = L + 1
      <3>1. i - 1 = L /\ L \in 0 .. L
        BY <1>2, <2>2
      <3>2. g[L] = h[L] /\ g[i - 1] = g[L]
        BY ONLY <1>6, <3>1
      <3>3. g[i] = s \o x /\ q[i] = x /\ h[L] = s
        BY ONLY <1>1, <1>4, <1>6, <2>2
      <3>. QED BY ONLY <3>2, <3>3
    <2>3. i \in 1 .. L \/ i = L + 1
      BY <1>2
    <2>. QED BY ONLY <2>1, <2>2, <2>3
  <1>8. Spelling(g, S, q)
    BY <1>4, <1>6, <1>7 DEF Spelling
  <1>9. Spells(S, q, s \o x)
    BY <1>4, <1>6, <1>8 DEF Spells
  <1>. QED BY <1>9 DEF q

\* Every sequence of sequences spells what FlattenSeq makes of it.
LEMMA FlattenSpells ==
    ASSUME NEW S, NEW p \in Seq(Seq(S))
    PROVE  Spells(S, p, FlattenSeq(p))
  <1>. DEFINE L == Len(p)
              W == Seq(S)
              T == { n \in Nat : n <= L =>
                       \E s : Spells(S, SubSeq(p, 1, n), s) }
  <1>1. L \in Nat /\ p \in Seq(W)
    OBVIOUS
  <1>. HIDE DEF L, W
  <1>2. 0 \in T
    <2>1. SubSeq(p, 1, 0) = << >>
      BY <1>1
    <2>2. Spells(S, << >>, << >>)
      BY NothingSpells
    <2>. QED BY <2>1, <2>2
  <1>3. ASSUME NEW n \in Nat, n \in T PROVE n + 1 \in T
    <2>1. SUFFICES ASSUME n + 1 <= L
                   PROVE  \E s : Spells(S, SubSeq(p, 1, n + 1), s)
      OBVIOUS
    <2>2. PICK s : Spells(S, SubSeq(p, 1, n), s)
      BY <1>1, <1>3, <2>1
    <2>3. p[n + 1] \in W
      BY <1>1, <2>1 DEF L
    <2>4. SubSeq(p, 1, n + 1) = Append(SubSeq(p, 1, n), p[n + 1])
      BY <1>1, <2>1 DEF L
    <2>5. Spells(S, Append(SubSeq(p, 1, n), p[n + 1]), s \o p[n + 1])
      BY <2>2, <2>3, SpellsAppend DEF W
    <2>. QED BY <2>4, <2>5
  <1>4. L \in T
    <2>. HIDE DEF T
    <2>. QED BY <1>1, <1>2, <1>3, SetInduction
  <1>5. PICK s : Spells(S, SubSeq(p, 1, L), s)
    BY <1>1, <1>4
  <1>6. SubSeq(p, 1, L) = p
    BY <1>1 DEF L
  <1>7. Spells(S, p, s)
    BY <1>5, <1>6
  <1>. QED BY <1>7, SpellsFlatten

LEMMA FlattenIsSeq ==
    ASSUME NEW S, NEW p \in Seq(Seq(S))
    PROVE  FlattenSeq(p) \in Seq(S)
  <1>1. PICK h : Spelling(h, S, p) /\ h[Len(p)] = FlattenSeq(p)
    BY FlattenSpells DEF Spells
  <1>2. Len(p) \in 0 .. Len(p)
    OBVIOUS
  <1>. QED BY <1>1, <1>2 DEF Spelling

LEMMA FlattenAppend ==
    ASSUME NEW S, NEW p \in Seq(Seq(S)), NEW x \in Seq(S)
    PROVE  FlattenSeq(Append(p, x)) = FlattenSeq(p) \o x
  <1>1. Spells(S, Append(p, x), FlattenSeq(p) \o x)
    BY FlattenSpells, SpellsAppend
  <1>. QED BY <1>1, SpellsFlatten

LEMMA FlattenNothing == FlattenSeq(<< >>) = << >>
  BY DEF FlattenSeq

-----------------------------------------------------------------------------
\* The letters a part of a character may be.
Letter == STRING \cup Initials \cup Vowels \cup Finals \cup {""}

\* The letters that stand for one.
Single == Letter \ (TwoConsonants \cup TwoVowels \cup {""})

LEMMA SplitType ==
    ASSUME NEW x \in Letter
    PROVE  Split(x) \in Seq(Single)
  <1>1. CASE x \in Made(ComplexConsonants) \cup Made(ComplexVowels)
    <2>1. PICK entry \in ComplexConsonants \cup ComplexVowels : entry[3] = x
      BY <1>1 DEF Made
    <2>2. Split(x) = << entry[1], entry[2] >>
      BY <2>1, SplitEntry
    <2>3. entry[1] \in Single /\ entry[2] \in Single
      BY TableLetters, Alphabet
         DEF Single, Letter, BasicFinals, BasicVowels, TwoConsonants, TwoVowels
    <2>. QED BY <2>2, <2>3
  <1>2. CASE x = ""
    <2>1. x \notin Made(ComplexConsonants) \cup Made(ComplexVowels)
      BY <1>2, MadeConsonants, MadeVowels DEF TwoConsonants, TwoVowels
    <2>2. Split(x) = << >>
      BY <1>2, <2>1 DEF Split
    <2>. QED BY <2>2
  <1>3. CASE x \notin TwoConsonants \cup TwoVowels \cup {""}
    <2>1. Split(x) = << x >> /\ x \in Single
      BY <1>3, SplitSingle DEF Single
    <2>. QED BY <2>1
  <1>. QED BY <1>1, <1>2, <1>3 DEF TwoConsonants, TwoVowels

\* The letters of a character.
LettersOf(c) == FlattenSeq([j \in DOMAIN c |-> Split(c[j])])

LEMMA LettersType ==
    ASSUME NEW c \in Seq(Letter)
    PROVE  /\ [j \in DOMAIN c |-> Split(c[j])] \in Seq(Seq(Single))
           /\ LettersOf(c) \in Seq(Single)
  <1>. DEFINE W == Seq(Single)
              p == [j \in DOMAIN c |-> Split(c[j])]
  <1>1. DOMAIN c = 1 .. Len(c) /\ Len(c) \in Nat
        /\ \A j \in 1 .. Len(c) : c[j] \in Letter
    OBVIOUS
  <1>2. \A j \in DOMAIN c : Split(c[j]) \in W
    BY <1>1, SplitType
  <1>. HIDE DEF W
  <1>3. p \in Seq(W)
    BY <1>1, <1>2
  <1>. HIDE DEF p
  <1>4. FlattenSeq(p) \in Seq(Single)
    BY <1>3, FlattenIsSeq DEF W
  <1>. QED BY <1>3, <1>4 DEF LettersOf, p, W

LEMMA DisassembleType ==
    ASSUME NEW word \in Seq(Seq(Letter))
    PROVE  /\ [k \in DOMAIN word |-> LettersOf(word[k])] \in Seq(Seq(Single))
           /\ Disassemble(word) = FlattenSeq([k \in DOMAIN word |-> LettersOf(word[k])])
           /\ Disassemble(word) \in Seq(Single)
  <1>. DEFINE V == Seq(Letter)
              W == Seq(Single)
              p == [k \in DOMAIN word |-> LettersOf(word[k])]
  <1>1. DOMAIN word = 1 .. Len(word) /\ Len(word) \in Nat
        /\ \A k \in 1 .. Len(word) : word[k] \in V
    <2>1. word \in Seq(V)
      OBVIOUS
    <2>. HIDE DEF V
    <2>. QED BY <2>1
  <1>2. \A k \in DOMAIN word : LettersOf(word[k]) \in W
    BY <1>1, LettersType
  <1>. HIDE DEF W
  <1>3. p \in Seq(W)
    BY <1>1, <1>2
  <1>4. Disassemble(word) = FlattenSeq(p)
    BY DEF Disassemble, LettersOf
  <1>. HIDE DEF p
  <1>5. FlattenSeq(p) \in Seq(Single)
    BY <1>3, FlattenIsSeq DEF W
  <1>. QED BY <1>3, <1>4, <1>5 DEF p, W

\* The letters of a text and one more character.
LEMMA DisassembleAppend ==
    ASSUME NEW word \in Seq(Seq(Letter)), NEW c \in Seq(Letter)
    PROVE  Disassemble(Append(word, c)) = Disassemble(word) \o LettersOf(c)
  <1>. DEFINE V == Seq(Letter)
              W == Seq(Single)
              t == Append(word, c)
              p == [k \in DOMAIN word |-> LettersOf(word[k])]
              q == [k \in DOMAIN t |-> LettersOf(t[k])]
  <1>1. /\ t \in Seq(V) /\ Len(t) = Len(word) + 1 /\ t[Len(word) + 1] = c
        /\ DOMAIN t = 1 .. Len(word) + 1 /\ DOMAIN word = 1 .. Len(word)
        /\ Len(word) \in Nat
        /\ \A k \in 1 .. Len(word) : t[k] = word[k]
    <2>1. word \in Seq(V) /\ c \in V
      OBVIOUS
    <2>. HIDE DEF V
    <2>. QED BY <2>1
  <1>2. /\ p \in Seq(W) /\ Disassemble(word) = FlattenSeq(p)
    BY DisassembleType
  <1>3. Disassemble(t) = FlattenSeq(q) /\ q \in Seq(W)
    BY <1>1, DisassembleType
  <1>4. LettersOf(c) \in W
    BY LettersType
  <1>5. /\ q = [k \in 1 .. Len(word) + 1 |-> q[k]]
        /\ q[Len(word) + 1] = LettersOf(c)
        /\ \A k \in 1 .. Len(word) : q[k] = p[k]
        /\ p = [k \in 1 .. Len(word) |-> p[k]]
    <2>. HIDE DEF t
    <2>. QED BY <1>1
  <1>. HIDE DEF p, q, W, t
  <1>6. q = Append(p, LettersOf(c))
    <2>1. Len(p) = Len(word)
      BY <1>1, <1>2, <1>5
    <2>2. Len(q) = Len(word) + 1
      BY <1>1, <1>3, <1>5
    <2>. DEFINE y == LettersOf(c)
                r == Append(p, y)
    <2>3. y \in W /\ p \in Seq(W) /\ q \in Seq(W)
      BY <1>2, <1>3, <1>4
    <2>. HIDE DEF y
    <2>4. /\ r \in Seq(W) /\ Len(r) = Len(p) + 1 /\ r[Len(p) + 1] = y
          /\ \A k \in 1 .. Len(p) : r[k] = p[k]
      BY ONLY <2>3
    <2>. HIDE DEF r
    <2>5. ASSUME NEW k \in 1 .. Len(word) + 1 PROVE q[k] = r[k]
      <3>1. CASE k \in 1 .. Len(word)
        <4>1. q[k] = p[k] /\ r[k] = p[k]
          BY ONLY <1>5, <2>1, <2>4, <3>1
        <4>. QED BY <4>1
      <3>2. CASE k = Len(word) + 1
        <4>1. q[k] = y /\ r[k] = y
          BY ONLY <1>5, <2>1, <2>4, <3>2 DEF y
        <4>. QED BY <4>1
      <3>. QED BY <1>1, <3>1, <3>2
    <2>6. Len(q) = Len(r) /\ \A k \in 1 .. Len(r) : q[k] = r[k]
      BY <2>1, <2>2, <2>4, <2>5
    <2>7. q = r
      <3>1. r \in Seq(W)
        BY <2>4
      <3>. QED BY ONLY <2>3, <2>6, <3>1, SeqsEqual
    <2>. QED BY <2>7 DEF r, y
  <1>7. FlattenSeq(Append(p, LettersOf(c))) = FlattenSeq(p) \o LettersOf(c)
    BY <1>2, <1>4, FlattenAppend DEF W
  <1>. QED BY <1>2, <1>3, <1>6, <1>7 DEF t

-----------------------------------------------------------------------------
(* What _makeHangul makes of an initial, a vowel and a final *)

\* The letters that disassembleHangul takes a syllable apart into.
Spelt(initial, vowel, final) ==
    << initial >> \o Split(vowel) \o Split(final)

\* The ways to write a vowel and a final.
LEMMA VowelForms ==
    ASSUME NEW v \in Vowels
    PROVE  \/ v \in BasicVowels /\ Split(v) = << v >>
           \/ \E a, b : v \in TwoVowels /\ Joins(ComplexVowels, a, b, v)
  <1>1. CASE v \in TwoVowels
    BY <1>1, MadeJoins DEF TwoVowels
  <1>2. CASE v \notin TwoVowels
    <2>1. v \notin TwoConsonants /\ v # ""
      BY Alphabet
    <2>. QED BY <1>2, <2>1, SplitSingle DEF BasicVowels
  <1>. QED BY <1>1, <1>2

LEMMA FinalForms ==
    ASSUME NEW f \in Finals
    PROVE  \/ f \in BasicFinals /\ f \in Initials /\ Split(f) = << f >>
           \/ \E a, b : f \in TwoConsonants /\ Joins(ComplexConsonants, a, b, f)
  <1>1. CASE f \in TwoConsonants
    BY <1>1, MadeJoins DEF TwoConsonants
  <1>2. CASE f \notin TwoConsonants
    <2>1. f \notin TwoVowels /\ f # "" /\ f \in Initials
      BY <1>2, Alphabet DEF BasicFinals
    <2>. QED BY <1>2, <2>1, SplitSingle DEF BasicFinals
  <1>. QED BY <1>1, <1>2

LEMMA NoFinal == Split("") = << >>
  BY MadeConsonants, MadeVowels DEF Split, TwoConsonants, TwoVowels

LEMMA ConcatFacts ==
    ASSUME NEW S, NEW s \in Seq(S), NEW t \in Seq(S)
    PROVE  /\ s \o t \in Seq(S)
           /\ Len(s \o t) = Len(s) + Len(t)
           /\ \A k \in 1 .. Len(s) : (s \o t)[k] = s[k]
           /\ \A k \in 1 .. Len(t) : (s \o t)[Len(s) + k] = t[k]
  OBVIOUS

\* The final that letters make.
MakesFinal(fs, f) ==
    \/ Len(fs) = 0 /\ f = ""
    \/ Len(fs) = 1 /\ fs[1] = f /\ f \in Finals
    \/ Len(fs) = 2 /\ Joins(ComplexConsonants, fs[1], fs[2], f)

LEMMA FinalIsMade ==
    ASSUME NEW f \in Finals \cup {""}
    PROVE  MakesFinal(Split(f), f)
  <1>1. CASE f = ""
    <2>1. Len(<< >>) = 0
      OBVIOUS
    <2>. QED BY <1>1, <2>1, NoFinal DEF MakesFinal
  <1>2. CASE f \in Finals /\ Split(f) = << f >>
    <2>1. Len(<< f >>) = 1 /\ << f >>[1] = f
      OBVIOUS
    <2>. QED BY <1>2, <2>1 DEF MakesFinal
  <1>3. ASSUME NEW a, NEW b, Joins(ComplexConsonants, a, b, f)
        PROVE  MakesFinal(Split(f), f)
    <2>1. Split(f) = << a, b >>
      BY <1>3 DEF Joins
    <2>2. Len(<< a, b >>) = 2 /\ << a, b >>[1] = a /\ << a, b >>[2] = b
      OBVIOUS
    <2>. QED BY <1>3, <2>1, <2>2 DEF MakesFinal
  <1>. QED BY <1>1, <1>2, <1>3, FinalForms

\* The vowel that letters make.
MakesVowel(vs, v) ==
    \/ Len(vs) = 1 /\ vs[1] = v /\ v \in BasicVowels
    \/ Len(vs) = 2 /\ Joins(ComplexVowels, vs[1], vs[2], v)

LEMMA VowelIsMade ==
    ASSUME NEW v \in Vowels
    PROVE  MakesVowel(Split(v), v)
  <1>2. CASE v \in BasicVowels /\ Split(v) = << v >>
    <2>1. Len(<< v >>) = 1 /\ << v >>[1] = v
      OBVIOUS
    <2>. QED BY <1>2, <2>1 DEF MakesVowel
  <1>3. ASSUME NEW a, NEW b, Joins(ComplexVowels, a, b, v)
        PROVE  MakesVowel(Split(v), v)
    <2>1. Split(v) = << a, b >>
      BY <1>3 DEF Joins
    <2>2. Len(<< a, b >>) = 2 /\ << a, b >>[1] = a /\ << a, b >>[2] = b
      OBVIOUS
    <2>. QED BY <1>3, <2>1, <2>2 DEF MakesVowel
  <1>. QED BY <1>2, <1>3, VowelForms

\* An initial, the letters of a vowel and those of a final.
Written(S, part, vs, fs) ==
    /\ part \in Seq(S) /\ vs \in Seq(S) /\ fs \in Seq(S)
    /\ Len(part) = 1 + Len(vs) + Len(fs)
    /\ \A k \in 1 .. Len(vs) : part[1 + k] = vs[k]
    /\ \A k \in 1 .. Len(fs) : part[1 + Len(vs) + k] = fs[k]

LEMMA FinalsOf ==
    ASSUME NEW S, NEW part, NEW vs, NEW fs, Written(S, part, vs, fs)
    PROVE  SubSeq(part, 2 + Len(vs), Len(part)) = fs
  <1>. DEFINE t == SubSeq(part, 2 + Len(vs), Len(part))
  <1>1. /\ t \in Seq(S) /\ Len(t) = Len(fs)
        /\ \A k \in 1 .. Len(fs) : t[k] = part[1 + Len(vs) + k]
    BY DEF Written
  <1>2. fs \in Seq(S) /\ \A k \in 1 .. Len(fs) : t[k] = fs[k]
    <2>. HIDE DEF t
    <2>. QED BY <1>1 DEF Written
  <1>. HIDE DEF t
  <1>3. t = fs
    BY ONLY <1>1, <1>2, SeqsEqual
  <1>. QED BY <1>3 DEF t

\* The final of the letters after the vowel, in _makeHangul's terms.
FinalMade(finals, vowelJoined) ==
    LET JoinedFinals(a, b, otherwise) ==
            IF Joinable(ComplexConsonants, a, b)
            THEN Joined(ComplexConsonants, a, b) ELSE otherwise
        ofTwo == JoinedFinals(finals[1], finals[2],
                              IF vowelJoined THEN "false" ELSE finals[2])
    IN  CASE Len(finals) = 0 -> ""
          [] Len(finals) = 1 -> finals[1]
          [] Len(finals) = 2 -> ofTwo
          [] OTHER -> JoinedFinals(ofTwo, finals[3], "false")

LEMMA FinalMadeIs ==
    ASSUME NEW fs, NEW f, MakesFinal(fs, f), NEW vowelJoined \in BOOLEAN
    PROVE  FinalMade(fs, vowelJoined) = f
  <1>1. ASSUME Len(fs) = 0 PROVE FinalMade(fs, vowelJoined) = ""
    BY <1>1 DEF FinalMade
  <1>2. CASE Len(fs) = 1 /\ fs[1] = f
    BY <1>2 DEF FinalMade
  <1>3. CASE Len(fs) = 2 /\ Joins(ComplexConsonants, fs[1], fs[2], f)
    BY <1>3 DEF FinalMade, Joins
  <1>. QED BY <1>1, <1>2, <1>3 DEF MakesFinal

LEMMA CharacterOneVowel ==
    ASSUME NEW part, part[1] \notin Vowels, part[1] \in Initials, Len(part) # 1,
           part[2] \notin Initials,
           ~ (Len(part) >= 3 /\ Joinable(ComplexVowels, part[2], part[3]))
    PROVE  Character(part) =
             Syllable(part[1], part[2], FinalMade(SubSeq(part, 3, Len(part)), FALSE))
  BY DEF Character, FinalMade

LEMMA CharacterTwoVowels ==
    ASSUME NEW part, part[1] \notin Vowels, part[1] \in Initials, Len(part) # 1,
           part[2] \notin Initials,
           Len(part) >= 3, Joinable(ComplexVowels, part[2], part[3])
    PROVE  Character(part) =
             Syllable(part[1], Joined(ComplexVowels, part[2], part[3]),
                      FinalMade(SubSeq(part, 4, Len(part)), TRUE))
  BY DEF Character, FinalMade

\* What _makeHangul makes of them.
LEMMA OneVowelMade ==
    ASSUME NEW S, NEW part, NEW vs, NEW fs, Written(S, part, vs, fs),
           part[1] \in Initials, Len(vs) = 1, vs[1] \in BasicVowels,
           NEW f, MakesFinal(fs, f)
    PROVE  Character(part) = Syllable(part[1], vs[1], f)
  <1>1. part[1] \notin Vowels /\ vs[1] \notin Initials
    BY Alphabet DEF BasicVowels
  <1>2. /\ Len(part) = 2 + Len(fs) /\ Len(fs) \in Nat
        /\ part[2] = vs[1]
        /\ \A k \in 1 .. Len(fs) : part[2 + k] = fs[k]
    <2>1. 1 \in 1 .. Len(vs) /\ part[1 + 1] = vs[1]
      BY DEF Written
    <2>. QED BY <2>1 DEF Written
  <1>3. SubSeq(part, 3, Len(part)) = fs
    <2>1. SubSeq(part, 2 + Len(vs), Len(part)) = fs
      BY FinalsOf
    <2>2. 2 + Len(vs) = 3
      OBVIOUS
    <2>. QED BY ONLY <2>1, <2>2
  <1>4. ~ (Len(part) >= 3 /\ Joinable(ComplexVowels, vs[1], part[3]))
    <2>1. SUFFICES ASSUME Len(part) >= 3, Joinable(ComplexVowels, vs[1], part[3])
                   PROVE  FALSE
      OBVIOUS
    <2>2. 1 \in 1 .. Len(fs) /\ Len(fs) # 0
      BY ONLY <1>2, <2>1
    <2>3. part[3] = fs[1]
      BY ONLY <1>2, <2>2
    <2>4. fs[1] \in Finals
      BY <2>2, JoinedLetters DEF MakesFinal, Joins, BasicFinals
    <2>. QED BY <2>1, <2>3, <2>4, JoinedLetters, Alphabet DEF BasicVowels
  <1>5. Len(part) # 1 /\ Len(part) >= 2
    BY ONLY <1>2
  <1>6. FinalMade(fs, FALSE) = f
    BY FinalMadeIs
  <1>. QED BY ONLY <1>1, <1>2, <1>3, <1>4, <1>5, <1>6, CharacterOneVowel,
                   part[1] \in Initials

LEMMA TwoVowelsMade ==
    ASSUME NEW S, NEW part, NEW vs, NEW fs, Written(S, part, vs, fs),
           part[1] \in Initials, NEW v, Len(vs) = 2,
           Joins(ComplexVowels, vs[1], vs[2], v),
           NEW f, MakesFinal(fs, f)
    PROVE  Character(part) = Syllable(part[1], v, f)
  <1>1. part[1] \notin Vowels /\ vs[1] \notin Initials
    BY Alphabet, JoinedLetters DEF BasicVowels, Joins
  <1>2. /\ Len(part) = 3 + Len(fs) /\ Len(fs) \in Nat
        /\ part[2] = vs[1] /\ part[3] = vs[2]
    <2>1. /\ 1 \in 1 .. Len(vs) /\ part[1 + 1] = vs[1]
          /\ 2 \in 1 .. Len(vs) /\ part[1 + 2] = vs[2]
      BY DEF Written
    <2>. QED BY <2>1 DEF Written
  <1>3. SubSeq(part, 4, Len(part)) = fs
    <2>1. SubSeq(part, 2 + Len(vs), Len(part)) = fs
      BY FinalsOf
    <2>2. 2 + Len(vs) = 4
      OBVIOUS
    <2>. QED BY ONLY <2>1, <2>2
  <1>4. /\ Joinable(ComplexVowels, part[2], part[3])
        /\ Joined(ComplexVowels, part[2], part[3]) = v
    BY <1>2 DEF Joins
  <1>5. Len(part) # 1 /\ Len(part) >= 3 /\ part[2] \notin Initials
    BY ONLY <1>1, <1>2
  <1>6. FinalMade(fs, TRUE) = f
    BY FinalMadeIs
  <1>. QED BY ONLY <1>1, <1>2, <1>3, <1>4, <1>5, <1>6, CharacterTwoVowels,
                   part[1] \in Initials

\* The letters of a syllable make that syllable.
LEMMA SyllableOf ==
    ASSUME NEW S, NEW part, NEW vs, NEW fs, Written(S, part, vs, fs),
           part[1] \in Initials, NEW v \in Vowels, NEW f \in Finals \cup {""},
           MakesVowel(vs, v), MakesFinal(fs, f)
    PROVE  Character(part) = << part[1], v, f >>
  <1>1. ASSUME Len(vs) = 1, vs[1] = v, v \in BasicVowels
        PROVE  Character(part) = Syllable(part[1], v, f)
    <2>1. vs[1] \in BasicVowels
      BY <1>1
    <2>2. Character(part) = Syllable(part[1], vs[1], f)
      BY ONLY <1>1, <2>1, OneVowelMade, Written(S, part, vs, fs),
              part[1] \in Initials, MakesFinal(fs, f)
    <2>. QED BY <1>1, <2>2
  <1>2. ASSUME Len(vs) = 2, Joins(ComplexVowels, vs[1], vs[2], v)
        PROVE  Character(part) = Syllable(part[1], v, f)
    BY ONLY <1>2, TwoVowelsMade, Written(S, part, vs, fs), part[1] \in Initials,
            MakesFinal(fs, f), ZenonT(40)
  <1>3. Character(part) = Syllable(part[1], v, f)
    BY <1>1, <1>2 DEF MakesVowel
  <1>. QED BY <1>3 DEF Syllable

LEMMA LettersOfOne == ASSUME NEW x \in Letter PROVE LettersOf(<< x >>) = Split(x)
  <1>. DEFINE c == << x >>
              p == [j \in DOMAIN c |-> Split(c[j])]
  <1>1. p = << Split(x) >>
    OBVIOUS
  <1>2. Split(x) \in Seq(Single)
    BY SplitType
  <1>. DEFINE y == Split(x)
              W == Seq(Single)
  <1>3. y \in W /\ << >> \in Seq(W) /\ << >> \o y = y
    BY <1>2
  <1>. HIDE DEF y, p
  <1>4. FlattenSeq(Append(<< >>, y)) = FlattenSeq(<< >>) \o y
    BY <1>3, FlattenAppend DEF W
  <1>5. Append(<< >>, y) = << y >>
    OBVIOUS
  <1>. QED BY <1>1, <1>3, <1>4, <1>5, FlattenNothing DEF LettersOf, y, p

LEMMA FlattenPrefix ==
    ASSUME NEW S, NEW p \in Seq(Seq(S)), NEW n \in Nat, n + 1 <= Len(p)
    PROVE  FlattenSeq(SubSeq(p, 1, n + 1)) = FlattenSeq(SubSeq(p, 1, n)) \o p[n + 1]
  <1>. DEFINE W == Seq(S)
  <1>1. p \in Seq(W)
    OBVIOUS
  <1>. HIDE DEF W
  <1>2. /\ SubSeq(p, 1, n) \in Seq(W) /\ p[n + 1] \in W
        /\ SubSeq(p, 1, n + 1) = Append(SubSeq(p, 1, n), p[n + 1])
    BY <1>1
  <1>. QED BY <1>2, FlattenAppend DEF W

LEMMA LettersOfSyllable ==
    ASSUME NEW c \in Seq(Letter), Len(c) = 3, c[1] \in Initials
    PROVE  LettersOf(c) = Spelt(c[1], c[2], c[3])
  <1>. DEFINE p == [j \in DOMAIN c |-> Split(c[j])]
              W == Seq(Single)
  <1>1. p \in Seq(W)
    BY LettersType
  <1>2. /\ Len(p) = 3 /\ p[1] = Split(c[1]) /\ p[2] = Split(c[2])
        /\ p[3] = Split(c[3])
    OBVIOUS
  <1>. HIDE DEF p
  <1>3. ASSUME NEW n \in {0, 1, 2}
        PROVE  FlattenSeq(SubSeq(p, 1, n + 1)) = FlattenSeq(SubSeq(p, 1, n)) \o p[n + 1]
    <2>1. n \in Nat /\ n + 1 <= Len(p)
      BY <1>2
    <2>. QED BY ONLY <1>1, <2>1, FlattenPrefix DEF W
  <1>4. /\ FlattenSeq(SubSeq(p, 1, 1)) = FlattenSeq(SubSeq(p, 1, 0)) \o p[1]
        /\ FlattenSeq(SubSeq(p, 1, 2)) = FlattenSeq(SubSeq(p, 1, 1)) \o p[2]
        /\ FlattenSeq(SubSeq(p, 1, 3)) = FlattenSeq(SubSeq(p, 1, 2)) \o p[3]
    <2>1. 0 + 1 = 1 /\ 1 + 1 = 2 /\ 2 + 1 = 3
      OBVIOUS
    <2>. QED BY ONLY <1>3, <2>1
  <1>. HIDE DEF W
  <1>6. SubSeq(p, 1, 0) = << >> /\ SubSeq(p, 1, 3) = p
    BY <1>1, <1>2
  <1>7. << >> \o p[1] = p[1]
    <2>1. c[1] \in Letter
      OBVIOUS
    <2>2. Split(c[1]) \in Seq(Single)
      BY <2>1, SplitType
    <2>. QED BY <1>2, <2>2
  <1>8. FlattenSeq(p) = p[1] \o p[2] \o p[3]
    BY ONLY <1>4, <1>6, <1>7, FlattenNothing
  <1>9. LettersOf(c) = FlattenSeq(p)
    BY DEF LettersOf, p
  <1>10. Split(c[1]) = << c[1] >>
    BY SplitSingle, Alphabet
  <1>. QED BY <1>2, <1>8, <1>9, <1>10 DEF Spelt

-----------------------------------------------------------------------------
(* The letters of a syllable, put together *)

\* The letters of a syllable: vn for the vowel, fn for the final.
Syl(part, vn, fn) ==
    /\ Len(part) = 1 + vn + fn
    /\ part[1] \in Initials
    /\ \/ vn = 1 /\ part[2] \in BasicVowels
       \/ vn = 2 /\ Joinable(ComplexVowels, part[2], part[3])
    /\ \/ fn = 0
       \/ fn = 1 /\ part[vn + 2] \in BasicFinals
       \/ fn = 2 /\ Joinable(ComplexConsonants, part[vn + 2], part[vn + 3])

\* What is made of these letters has these letters.
Back(part) == Character(part) \in Seq(Letter) /\ LettersOf(Character(part)) = part

LEMMA AloneBack ==
    ASSUME NEW part \in Seq(Single), Len(part) = 1,
           part[1] \in Initials \cup Vowels
    PROVE  Character(part) = << part[1] >> /\ Back(part)
  <1>. DEFINE x == part[1]
  <1>1. x \in Letter /\ x \in Single
    <2>1. part[1] \in Single
      OBVIOUS
    <2>. QED BY <2>1 DEF Letter, Single
  <1>2. Character(part) = << x >>
    BY DEF Character
  <1>3. Split(x) = << x >>
    BY <1>1, SplitSingle DEF Single
  <1>4. part = << x >>
    OBVIOUS
  <1>5. << x >> \in Seq(Letter)
    BY <1>1
  <1>6. LettersOf(<< x >>) = << x >>
    BY <1>1, <1>3, LettersOfOne
  <1>. QED BY <1>2, <1>4, <1>5, <1>6 DEF Back

LEMMA JoinedBack ==
    ASSUME NEW part \in Seq(Single), Len(part) = 2,
           NEW table \in {ComplexConsonants, ComplexVowels},
           Joinable(table, part[1], part[2])
    PROVE  Back(part)
  <1>. DEFINE a == part[1]
              b == part[2]
              x == Joined(table, a, b)
  <1>1. x \in Made(table) /\ Joins(table, a, b, x)
    BY JoinableJoins
  <1>2. x \in Letter
    <2>1. TwoConsonants \subseteq Finals /\ TwoVowels \subseteq Vowels
      BY Alphabet
    <2>. QED BY <1>1, <2>1 DEF Letter, TwoConsonants, TwoVowels
  <1>3. part = << a, b >>
    OBVIOUS
  <1>4. Character(part) = << x >>
    <2>1. CASE table = ComplexConsonants
      <3>1. a \in Initials /\ a \notin Vowels /\ b \in Initials
        BY <2>1, JoinedLetters, Alphabet
      <3>. QED BY <2>1, <3>1 DEF Character, JoinedOrGarbage
    <2>2. CASE table = ComplexVowels
      <3>1. a \in Vowels /\ b \in Vowels
        BY <2>2, JoinedLetters DEF BasicVowels
      <3>. QED BY <2>2, <3>1 DEF Character, JoinedOrGarbage
    <2>. QED BY <2>1, <2>2
  <1>. HIDE DEF x
  <1>5. << x >> \in Seq(Letter)
    BY <1>2
  <1>6. LettersOf(<< x >>) = << a, b >>
    BY <1>1, <1>2, LettersOfOne DEF Joins
  <1>. QED BY <1>3, <1>4, <1>5, <1>6 DEF Back

LEMMA SubSeqFacts ==
    ASSUME NEW S, NEW s \in Seq(S), NEW a \in Int, NEW b \in Int,
           1 <= a, a <= b + 1, b <= Len(s)
    PROVE  /\ SubSeq(s, a, b) \in Seq(S)
           /\ Len(SubSeq(s, a, b)) = b - a + 1
           /\ \A i \in 1 .. b - a + 1 : SubSeq(s, a, b)[i] = s[a + i - 1]
  OBVIOUS

LEMMA EmptySeq ==
    ASSUME NEW S, NEW s \in Seq(S), Len(s) = 0
    PROVE  s = << >>
  OBVIOUS

LEMMA VowelSplits ==
    ASSUME NEW S, NEW vs \in Seq(S), NEW v, MakesVowel(vs, v)
    PROVE  Split(v) = vs /\ v \in Vowels
  <1>1. CASE Len(vs) = 1 /\ vs[1] = v /\ v \in BasicVowels
    <2>1. vs = << v >>
      BY <1>1
    <2>2. v \notin TwoConsonants /\ v \notin TwoVowels /\ v # "" /\ v \in Vowels
      BY <1>1, Alphabet DEF BasicVowels
    <2>. QED BY <2>1, <2>2, SplitSingle
  <1>2. CASE Len(vs) = 2 /\ Joins(ComplexVowels, vs[1], vs[2], v)
    <2>1. vs = << vs[1], vs[2] >>
      BY <1>2
    <2>2. v \in Made(ComplexVowels)
      BY <1>2, JoinableJoins DEF Joins
    <2>. QED BY <1>2, <2>1, <2>2, Alphabet DEF Joins, TwoVowels
  <1>. QED BY <1>1, <1>2 DEF MakesVowel

LEMMA FinalSplits ==
    ASSUME NEW S, NEW fs \in Seq(S), NEW f, MakesFinal(fs, f),
           fs = << >> \/ fs[1] \notin TwoConsonants
    PROVE  Split(f) = fs /\ f \in Finals \cup {""}
  <1>1. CASE Len(fs) = 0 /\ f = ""
    <2>1. fs = << >>
      BY <1>1, EmptySeq
    <2>. QED BY <1>1, <2>1, NoFinal
  <1>2. CASE Len(fs) = 1 /\ fs[1] = f /\ f \in Finals
    <2>1. fs = << f >>
      BY <1>2
    <2>2. f \notin TwoVowels /\ f # ""
      BY <1>2, Alphabet
    <2>3. f \notin TwoConsonants
      BY <1>2
    <2>. QED BY <1>2, <2>1, <2>2, <2>3, SplitSingle
  <1>3. CASE Len(fs) = 2 /\ Joins(ComplexConsonants, fs[1], fs[2], f)
    <2>1. fs = << fs[1], fs[2] >>
      BY <1>3
    <2>2. f \in Made(ComplexConsonants)
      BY <1>3, JoinableJoins DEF Joins
    <2>. QED BY <1>3, <2>1, <2>2, Alphabet DEF Joins, TwoConsonants
  <1>. QED BY <1>1, <1>2, <1>3 DEF MakesFinal

\* An initial, the letters of a vowel and those of a final, put together.
LEMMA WrittenSpelt ==
    ASSUME NEW S, NEW part, NEW vs, NEW fs, Written(S, part, vs, fs)
    PROVE  << part[1] >> \o vs \o fs = part
  <1>. DEFINE i == << part[1] >>
              iv == i \o vs
              t == iv \o fs
  <1>1. /\ part \in Seq(S) /\ vs \in Seq(S) /\ fs \in Seq(S)
        /\ Len(part) = 1 + Len(vs) + Len(fs)
        /\ Len(vs) \in Nat /\ Len(fs) \in Nat
    BY DEF Written
  <1>2. i \in Seq(S) /\ Len(i) = 1 /\ i[1] = part[1]
    BY <1>1
  <1>. HIDE DEF i
  <1>2a. i \in Seq(S) /\ vs \in Seq(S)
    BY <1>1, <1>2
  <1>3. /\ iv \in Seq(S) /\ Len(iv) = 1 + Len(vs)
        /\ \A k \in 1 .. Len(i) : iv[k] = i[k]
        /\ \A k \in 1 .. Len(vs) : iv[Len(i) + k] = vs[k]
    <2>1. /\ i \o vs \in Seq(S) /\ Len(i \o vs) = Len(i) + Len(vs)
          /\ \A k \in 1 .. Len(i) : (i \o vs)[k] = i[k]
          /\ \A k \in 1 .. Len(vs) : (i \o vs)[Len(i) + k] = vs[k]
      BY ONLY <1>2a
    <2>. QED BY ONLY <1>2, <2>1
  <1>. HIDE DEF iv
  <1>3a. iv \in Seq(S) /\ fs \in Seq(S)
    BY <1>1, <1>3
  <1>4. /\ t \in Seq(S) /\ Len(t) = Len(part)
        /\ \A k \in 1 .. Len(iv) : t[k] = iv[k]
        /\ \A k \in 1 .. Len(fs) : t[Len(iv) + k] = fs[k]
    <2>1. /\ iv \o fs \in Seq(S) /\ Len(iv \o fs) = Len(iv) + Len(fs)
          /\ \A k \in 1 .. Len(iv) : (iv \o fs)[k] = iv[k]
          /\ \A k \in 1 .. Len(fs) : (iv \o fs)[Len(iv) + k] = fs[k]
      BY ONLY <1>3a
    <2>. QED BY ONLY <1>1, <1>3, <2>1
  <1>. HIDE DEF t
  <1>5. ASSUME NEW k \in 1 .. Len(part) PROVE t[k] = part[k]
    <2>1. CASE k = 1
      <3>1. k \in 1 .. Len(iv) /\ k \in 1 .. Len(i)
        BY ONLY <1>1, <1>2, <1>3, <2>1
      <3>2. t[k] = iv[k] /\ iv[k] = i[k]
        BY ONLY <1>3, <1>4, <3>1
      <3>. QED BY <1>2, <2>1, <3>2
    <2>2. CASE k > 1 /\ k <= 1 + Len(vs)
      <3>. DEFINE j == k - 1
      <3>1. /\ j \in 1 .. Len(vs) /\ k = 1 + j /\ k = Len(i) + j
            /\ k \in 1 .. Len(iv)
        BY ONLY <1>1, <1>2, <1>3, <2>2
      <3>. HIDE DEF j
      <3>2. t[k] = iv[k] /\ iv[k] = vs[j]
        BY ONLY <1>3, <1>4, <3>1
      <3>3. part[k] = vs[j]
        BY ONLY <3>1, Written(S, part, vs, fs) DEF Written
      <3>. QED BY <3>2, <3>3
    <2>3. CASE k > 1 + Len(vs)
      <3>. DEFINE j == k - 1 - Len(vs)
      <3>1. j \in 1 .. Len(fs) /\ k = 1 + Len(vs) + j /\ k = Len(iv) + j
        BY ONLY <1>1, <1>3, <2>3, k \in 1 .. Len(part)
      <3>. HIDE DEF j
      <3>2. t[k] = fs[j]
        BY ONLY <1>4, <3>1
      <3>3. part[k] = fs[j]
        BY ONLY <3>1, Written(S, part, vs, fs) DEF Written
      <3>. QED BY <3>2, <3>3
    <2>. QED BY <1>1, <2>1, <2>2, <2>3
  <1>6. t = part
    BY ONLY <1>1, <1>4, <1>5, SeqsEqual
  <1>. QED BY <1>6 DEF t, iv, i

\* A syllable made has the letters it was made of.
LEMMA SylBack ==
    ASSUME NEW part \in Seq(Single), NEW vn, NEW fn, Syl(part, vn, fn)
    PROVE  /\ Back(part)
           /\ \E v \in Vowels, f \in Finals \cup {""} :
                 /\ Character(part) = << part[1], v, f >>
                 /\ part = Spelt(part[1], v, f)
  <1>. DEFINE i == part[1]
              vs == SubSeq(part, 2, 1 + vn)
              fs == SubSeq(part, 2 + vn, Len(part))
              v == IF vn = 1 THEN part[2]
                   ELSE Joined(ComplexVowels, part[2], part[3])
              f == IF fn = 0 THEN ""
                   ELSE IF fn = 1 THEN part[vn + 2]
                   ELSE Joined(ComplexConsonants, part[vn + 2], part[vn + 3])
  <1>1. /\ vn \in {1, 2} /\ fn \in {0, 1, 2} /\ i \in Initials
        /\ Len(part) = 1 + vn + fn
    BY DEF Syl
  <1>2. /\ vs \in Seq(Single) /\ Len(vs) = vn
        /\ \A k \in 1 .. vn : vs[k] = part[1 + k]
    BY <1>1
  <1>3. /\ fs \in Seq(Single) /\ Len(fs) = fn
        /\ \A k \in 1 .. fn : fs[k] = part[1 + vn + k]
    BY <1>1
  <1>. HIDE DEF vs, fs
  <1>4. Written(Single, part, vs, fs)
    BY <1>1, <1>2, <1>3 DEF Written
  <1>5. MakesVowel(vs, v)
    <2>1. CASE vn = 1
      <3>1. ASSUME NEW k \in 1 .. vn, k = 1 PROVE vs[k] = part[2]
        BY <1>2, <3>1
      <3>2. vs[1] = part[2] /\ part[2] \in BasicVowels
        BY <2>1, <3>1 DEF Syl
      <3>. QED BY <1>2, <2>1, <3>2 DEF MakesVowel
    <2>2. CASE vn = 2
      <3>1. ASSUME NEW k \in 1 .. vn PROVE vs[k] = part[1 + k]
        BY <1>2
      <3>2. vs[1] = part[2] /\ vs[2] = part[3]
        BY <2>2, <3>1
      <3>3. Joins(ComplexVowels, part[2], part[3], v)
        BY <2>2, JoinableJoins DEF Syl
      <3>. QED BY <1>2, <2>2, <3>2, <3>3 DEF MakesVowel
    <2>. QED BY <1>1, <2>1, <2>2
  <1>6. MakesFinal(fs, f) /\ (fs = << >> \/ fs[1] \notin TwoConsonants)
    <2>1. CASE fn = 0
      <3>1. fs = << >>
        BY <1>3, <2>1
      <3>. QED BY <1>3, <2>1, <3>1 DEF MakesFinal
    <2>2. CASE fn = 1
      <3>1. ASSUME NEW k \in 1 .. fn PROVE fs[k] = part[1 + vn + k]
        BY <1>3
      <3>2. fs[1] = part[vn + 2] /\ part[vn + 2] \in BasicFinals
        BY <1>1, <2>2, <3>1 DEF Syl
      <3>. QED BY <1>3, <2>2, <3>2 DEF MakesFinal, BasicFinals
    <2>3. CASE fn = 2
      <3>1. ASSUME NEW k \in 1 .. fn PROVE fs[k] = part[1 + vn + k]
        BY <1>3
      <3>2. fs[1] = part[vn + 2] /\ fs[2] = part[vn + 3]
        BY <1>1, <2>3, <3>1
      <3>3. Joinable(ComplexConsonants, part[vn + 2], part[vn + 3])
        BY <2>3 DEF Syl
      <3>4. Joins(ComplexConsonants, part[vn + 2], part[vn + 3], f)
        BY <2>3, <3>3, JoinableJoins
      <3>. HIDE DEF f
      <3>5. part[vn + 2] \notin TwoConsonants
        BY <3>3, JoinedLetters DEF BasicFinals
      <3>. QED BY <1>3, <2>3, <3>2, <3>4, <3>5 DEF MakesFinal
    <2>. QED BY <1>1, <2>1, <2>2, <2>3
  <1>. HIDE DEF v, f
  <1>7. v \in Vowels /\ Split(v) = vs
    BY <1>2, <1>5, VowelSplits
  <1>8. f \in Finals \cup {""} /\ Split(f) = fs
    BY <1>3, <1>6, FinalSplits
  <1>9. Character(part) = << i, v, f >>
    BY <1>1, <1>4, <1>5, <1>6, <1>7, <1>8, SyllableOf
  <1>10. part = Spelt(i, v, f)
    <2>1. << i >> \o vs \o fs = part
      BY <1>4, WrittenSpelt
    <2>. QED BY <1>7, <1>8, <2>1 DEF Spelt
  <1>11. Back(part)
    <2>. DEFINE c == << i, v, f >>
    <2>1. i \in Letter /\ v \in Letter /\ f \in Letter
      BY <1>1, <1>7, <1>8 DEF Letter
    <2>2. c \in Seq(Letter) /\ Len(c) = 3 /\ c[1] = i /\ c[2] = v /\ c[3] = f
      BY <2>1
    <2>. HIDE DEF c
    <2>3. LettersOf(c) = Spelt(c[1], c[2], c[3])
      BY <1>1, <2>2, LettersOfSyllable
    <2>4. Character(part) = c
      BY <1>9 DEF c
    <2>. QED BY <1>10, <2>2, <2>3, <2>4 DEF Back
  <1>. QED BY <1>7, <1>8, <1>9, <1>10, <1>11

-----------------------------------------------------------------------------
(* The letters a turn of assemble leaves pending *)

\* What the stage says about the letters that are not put together yet.
Pending(part, st, joined) ==
    \/ st = 1 /\ Len(part) = 1 /\ part[1] \in Initials
    \/ st = 2 /\ \E vn \in {1, 2} : Syl(part, vn, 0)
    \/ st = 3 /\ \E vn, fn \in {1, 2} : Syl(part, vn, fn) /\ (joined <=> fn = 2)
    \/ st = 4 /\ Len(part) = 1 /\ part[1] \in BasicVowels
    \/ st = 5 /\ Len(part) = 2 /\ Joinable(ComplexConsonants, part[1], part[2])

\* What is put together so far has the letters up to complete_index, and the
\* stage tells what the others are.
TurnInv(ls, rd, st, pv, joined, cm, res) ==
    /\ ls \in Seq(Single)
    /\ rd \in 0 .. Len(ls) /\ cm \in 0 .. rd
    /\ res \in Seq(Seq(Letter)) /\ Disassemble(res) = SubSeq(ls, 1, cm)
    /\ joined \in BOOLEAN /\ (joined => st = 3)
    /\ cm < rd => pv = ls[rd] /\ Pending(SubSeq(ls, cm + 1, rd), st, joined)
    /\ cm = rd => st = 0 \/ rd = Len(ls)

\* The inductive invariant of assemble.
HangulInv ==
    /\ hangul = << >> \/ hangul \in HangulTexts
    /\ letters = Disassemble(hangul)
    /\ hangul = << >> => stage = 0 /\ result = << >>
    /\ TurnInv(letters, read, stage, previous, jongJoined, complete, result)

LEMMA PendingBack ==
    ASSUME NEW part \in Seq(Single), NEW st, NEW joined, Pending(part, st, joined)
    PROVE  Back(part)
  <1>1. CASE Len(part) = 1 /\ (part[1] \in Initials \/ part[1] \in BasicVowels)
    BY <1>1, AloneBack DEF BasicVowels
  <1>2. ASSUME NEW vn, NEW fn, Syl(part, vn, fn) PROVE Back(part)
    BY <1>2, SylBack
  <1>3. CASE Len(part) = 2 /\ Joinable(ComplexConsonants, part[1], part[2])
    BY <1>3, JoinedBack
  <1>. QED BY <1>1, <1>2, <1>3 DEF Pending

\* The letters pending when one more is read.
Extends(more, part, x) ==
    /\ part \in Seq(Single) /\ more \in Seq(Single)
    /\ Len(more) = Len(part) + 1
    /\ \A k \in 1 .. Len(part) : more[k] = part[k]
    /\ more[Len(part) + 1] = x

LEMMA OneMore ==
    ASSUME NEW ls \in Seq(Single), NEW c \in Nat, NEW r \in Nat,
           c <= r, r + 1 <= Len(ls)
    PROVE  Extends(SubSeq(ls, c + 1, r + 1), SubSeq(ls, c + 1, r), ls[r + 1])
  <1>. DEFINE p == SubSeq(ls, c + 1, r)
              q == SubSeq(ls, c + 1, r + 1)
  <1>1. /\ p \in Seq(Single) /\ Len(p) = r - c
        /\ \A k \in 1 .. r - c : p[k] = ls[c + k]
    OBVIOUS
  <1>2. /\ q \in Seq(Single) /\ Len(q) = r - c + 1
        /\ \A k \in 1 .. r - c + 1 : q[k] = ls[c + k]
    OBVIOUS
  <1>. HIDE DEF p, q
  <1>3. \A k \in 1 .. r - c : q[k] = p[k]
    BY <1>1, <1>2
  <1>4. r - c + 1 \in 1 .. r - c + 1 /\ c + (r - c + 1) = r + 1
    OBVIOUS
  <1>5. q[r - c + 1] = ls[r + 1]
    BY ONLY <1>2, <1>4
  <1>6. Extends(q, p, ls[r + 1])
    BY <1>1, <1>2, <1>3, <1>5 DEF Extends
  <1>. QED BY <1>6 DEF p, q

\* The letters pending with one more, letter by letter.
Grown(more, part, x) ==
    /\ Len(part) \in Nat /\ Len(more) = Len(part) + 1
    /\ Len(part) >= 1 => more[1] = part[1]
    /\ Len(part) >= 2 => more[2] = part[2]
    /\ Len(part) >= 3 => more[3] = part[3]
    /\ Len(part) >= 4 => more[4] = part[4]
    /\ Len(part) = 0 => more[1] = x
    /\ Len(part) = 1 => more[2] = x
    /\ Len(part) = 2 => more[3] = x
    /\ Len(part) = 3 => more[4] = x
    /\ Len(part) = 4 => more[5] = x

LEMMA ExtendsGrown ==
    ASSUME NEW more, NEW part, NEW x, Extends(more, part, x)
    PROVE  Grown(more, part, x)
  <1>1. Len(part) \in Nat /\ Len(more) = Len(part) + 1
    BY DEF Extends
  <1>2. ASSUME NEW k \in 1 .. 4, Len(part) >= k PROVE more[k] = part[k]
    BY <1>1, <1>2 DEF Extends
  <1>3. ASSUME NEW k \in 0 .. 4, Len(part) = k PROVE more[k + 1] = x
    BY <1>3 DEF Extends
  <1>4. /\ Len(part) >= 1 => more[1] = part[1]
        /\ Len(part) >= 2 => more[2] = part[2]
        /\ Len(part) >= 3 => more[3] = part[3]
        /\ Len(part) >= 4 => more[4] = part[4]
    BY ONLY <1>2
  <1>5. /\ Len(part) = 0 => more[0 + 1] = x
        /\ Len(part) = 1 => more[1 + 1] = x
        /\ Len(part) = 2 => more[2 + 1] = x
        /\ Len(part) = 3 => more[3 + 1] = x
        /\ Len(part) = 4 => more[4 + 1] = x
    BY ONLY <1>3
  <1>6. 0 + 1 = 1 /\ 1 + 1 = 2 /\ 2 + 1 = 3 /\ 3 + 1 = 4 /\ 4 + 1 = 5
    OBVIOUS
  <1>. QED BY ONLY <1>1, <1>4, <1>5, <1>6 DEF Grown

\* How the letters of a syllable look.
LEMMA SylForms ==
    ASSUME NEW p
    PROVE  /\ Syl(p, 1, 0) <=> /\ Len(p) = 2 /\ p[1] \in Initials
                               /\ p[2] \in BasicVowels
           /\ Syl(p, 2, 0) <=> /\ Len(p) = 3 /\ p[1] \in Initials
                               /\ Joinable(ComplexVowels, p[2], p[3])
           /\ Syl(p, 1, 1) <=> /\ Len(p) = 3 /\ p[1] \in Initials
                               /\ p[2] \in BasicVowels /\ p[3] \in BasicFinals
           /\ Syl(p, 2, 1) <=> /\ Len(p) = 4 /\ p[1] \in Initials
                               /\ Joinable(ComplexVowels, p[2], p[3])
                               /\ p[4] \in BasicFinals
           /\ Syl(p, 1, 2) <=> /\ Len(p) = 4 /\ p[1] \in Initials
                               /\ p[2] \in BasicVowels
                               /\ Joinable(ComplexConsonants, p[3], p[4])
           /\ Syl(p, 2, 2) <=> /\ Len(p) = 5 /\ p[1] \in Initials
                               /\ Joinable(ComplexVowels, p[2], p[3])
                               /\ Joinable(ComplexConsonants, p[4], p[5])
  <1>1. /\ 1 + 1 + 0 = 2 /\ 1 + 2 + 0 = 3 /\ 1 + 1 + 1 = 3 /\ 1 + 2 + 1 = 4
        /\ 1 + 1 + 2 = 4 /\ 1 + 2 + 2 = 5 /\ 1 + 3 = 4 /\ 2 + 2 = 4 /\ 2 + 3 = 5
        /\ 1 + 2 = 3
    OBVIOUS
  <1>2. Syl(p, 1, 0) <=> Len(p) = 2 /\ p[1] \in Initials /\ p[2] \in BasicVowels
    BY DEF Syl
  <1>3. Syl(p, 2, 0) <=> /\ Len(p) = 3 /\ p[1] \in Initials
                         /\ Joinable(ComplexVowels, p[2], p[3])
    BY DEF Syl
  <1>4. Syl(p, 1, 1) <=> /\ Len(p) = 3 /\ p[1] \in Initials
                         /\ p[2] \in BasicVowels /\ p[3] \in BasicFinals
    BY DEF Syl
  <1>5. Syl(p, 2, 1) <=> /\ Len(p) = 4 /\ p[1] \in Initials
                         /\ Joinable(ComplexVowels, p[2], p[3])
                         /\ p[4] \in BasicFinals
    BY DEF Syl
  <1>6. Syl(p, 1, 2) <=> /\ Len(p) = 4 /\ p[1] \in Initials
                         /\ p[2] \in BasicVowels
                         /\ Joinable(ComplexConsonants, p[3], p[4])
    BY DEF Syl
  <1>7. Syl(p, 2, 2) <=> /\ Len(p) = 5 /\ p[1] \in Initials
                         /\ Joinable(ComplexVowels, p[2], p[3])
                         /\ Joinable(ComplexConsonants, p[4], p[5])
    BY DEF Syl
  <1>. QED BY <1>2, <1>3, <1>4, <1>5, <1>6, <1>7

LEMMA SylSizes ==
    ASSUME NEW p, NEW vn, NEW fn, Syl(p, vn, fn)
    PROVE  vn \in {1, 2} /\ fn \in {0, 1, 2}
  BY DEF Syl

\* How reading a letter makes a syllable longer.
LEMMA VowelAfterInitial ==
    ASSUME NEW more, NEW part, NEW x, Grown(more, part, x),
           Len(part) = 1, part[1] \in Initials, x \in BasicVowels
    PROVE  Syl(more, 1, 0)
  <1>1. Len(more) = 2 /\ more[1] = part[1] /\ more[2] = x
    BY DEF Grown
  <1>. QED BY <1>1, SylForms

LEMMA VowelAfterVowel ==
    ASSUME NEW more, NEW part, NEW x, Grown(more, part, x), NEW vn,
           Syl(part, vn, 0), Joinable(ComplexVowels, part[Len(part)], x)
    PROVE  Syl(more, 2, 0)
  <1>1. CASE vn = 1
    <2>1. Len(part) = 2 /\ part[1] \in Initials
      BY <1>1, SylForms
    <2>2. Len(more) = 3 /\ more[1] = part[1] /\ more[2] = part[2] /\ more[3] = x
      BY <2>1 DEF Grown
    <2>3. Joinable(ComplexVowels, more[2], more[3])
      BY <2>1, <2>2
    <2>. QED BY <2>1, <2>2, <2>3, SylForms
  <1>2. CASE vn = 2
    <2>1. Len(part) = 3 /\ Joinable(ComplexVowels, part[2], part[3])
      BY <1>2, SylForms
    <2>. QED BY <2>1, JoinedLetters
  <1>. QED BY <1>1, <1>2, SylSizes

LEMMA FinalAfterVowel ==
    ASSUME NEW more, NEW part, NEW x, Grown(more, part, x), NEW vn,
           Syl(part, vn, 0), x \in BasicFinals
    PROVE  Syl(more, vn, 1)
  <1>1. CASE vn = 1
    <2>1. Len(part) = 2 /\ part[1] \in Initials /\ part[2] \in BasicVowels
      BY <1>1, SylForms
    <2>2. Len(more) = 3 /\ more[1] = part[1] /\ more[2] = part[2] /\ more[3] = x
      BY <2>1 DEF Grown
    <2>3. Syl(more, 1, 1)
      BY <2>1, <2>2, SylForms
    <2>. QED BY <1>1, <2>3
  <1>2. CASE vn = 2
    <2>1. /\ Len(part) = 3 /\ part[1] \in Initials
          /\ Joinable(ComplexVowels, part[2], part[3])
      BY <1>2, SylForms
    <2>2. /\ Len(more) = 4 /\ more[1] = part[1] /\ more[2] = part[2]
          /\ more[3] = part[3] /\ more[4] = x
      BY <2>1 DEF Grown
    <2>3. Syl(more, 2, 1)
      BY <2>1, <2>2, SylForms
    <2>. QED BY <1>2, <2>3
  <1>. QED BY <1>1, <1>2, SylSizes

LEMMA FinalAfterFinal ==
    ASSUME NEW more, NEW part, NEW x, Grown(more, part, x), NEW vn,
           Syl(part, vn, 1), Joinable(ComplexConsonants, part[Len(part)], x)
    PROVE  Syl(more, vn, 2)
  <1>1. CASE vn = 1
    <2>1. Len(part) = 3 /\ part[1] \in Initials /\ part[2] \in BasicVowels
      BY <1>1, SylForms
    <2>2. /\ Len(more) = 4 /\ more[1] = part[1] /\ more[2] = part[2]
          /\ more[3] = part[3] /\ more[4] = x
      BY <2>1 DEF Grown
    <2>3. Joinable(ComplexConsonants, more[3], more[4])
      BY <2>1, <2>2
    <2>4. Syl(more, 1, 2)
      BY <2>1, <2>2, <2>3, SylForms
    <2>. QED BY <1>1, <2>4
  <1>2. CASE vn = 2
    <2>1. /\ Len(part) = 4 /\ part[1] \in Initials
          /\ Joinable(ComplexVowels, part[2], part[3])
      BY <1>2, SylForms
    <2>2. /\ Len(more) = 5 /\ more[1] = part[1] /\ more[2] = part[2]
          /\ more[3] = part[3] /\ more[4] = part[4] /\ more[5] = x
      BY <2>1 DEF Grown
    <2>3. Joinable(ComplexConsonants, more[4], more[5])
      BY <2>1, <2>2
    <2>4. Syl(more, 2, 2)
      BY <2>1, <2>2, <2>3, SylForms
    <2>. QED BY <1>2, <2>4
  <1>. QED BY <1>1, <1>2, SylSizes

\* A syllable without its last final, which begins another.
LEMMA FinalTaken ==
    ASSUME NEW more, NEW part, NEW x, Grown(more, part, x), NEW vn,
           Syl(more, vn, 1) \/ Syl(more, vn, 2)
    PROVE  x \in BasicFinals /\ (Syl(part, vn, 0) \/ Syl(part, vn, 1))
  <1>0. Len(part) = Len(more) - 1
    BY DEF Grown
  <1>1. vn \in {1, 2}
    BY SylSizes
  <1>2. ASSUME Syl(more, 1, 1) PROVE x \in BasicFinals /\ Syl(part, 1, 0)
    <2>1. Len(more) = 3 /\ more[1] \in Initials /\ more[2] \in BasicVowels
          /\ more[3] \in BasicFinals
      BY <1>2, SylForms
    <2>2. Len(part) = 2
      BY ONLY <1>0, <2>1
    <2>3. /\ more[1] = part[1] /\ more[2] = part[2] /\ more[3] = x
      BY <2>2 DEF Grown
    <2>. QED BY <2>1, <2>2, <2>3, SylForms
  <1>3. ASSUME Syl(more, 2, 1) PROVE x \in BasicFinals /\ Syl(part, 2, 0)
    <2>1. /\ Len(more) = 4 /\ more[1] \in Initials
          /\ Joinable(ComplexVowels, more[2], more[3]) /\ more[4] \in BasicFinals
      BY <1>3, SylForms
    <2>2. Len(part) = 3
      BY ONLY <1>0, <2>1
    <2>3. /\ more[1] = part[1] /\ more[2] = part[2]
          /\ more[3] = part[3] /\ more[4] = x
      BY <2>2 DEF Grown
    <2>. QED BY <2>1, <2>2, <2>3, SylForms
  <1>4. ASSUME Syl(more, 1, 2) PROVE x \in BasicFinals /\ Syl(part, 1, 1)
    <2>1. /\ Len(more) = 4 /\ more[1] \in Initials /\ more[2] \in BasicVowels
          /\ more[3] \in BasicFinals /\ more[4] \in BasicFinals
      BY <1>4, SylForms, JoinedLetters
    <2>2. Len(part) = 3
      BY ONLY <1>0, <2>1
    <2>3. /\ more[1] = part[1] /\ more[2] = part[2]
          /\ more[3] = part[3] /\ more[4] = x
      BY <2>2 DEF Grown
    <2>. QED BY <2>1, <2>2, <2>3, SylForms
  <1>5. ASSUME Syl(more, 2, 2) PROVE x \in BasicFinals /\ Syl(part, 2, 1)
    <2>1. /\ Len(more) = 5 /\ more[1] \in Initials
          /\ Joinable(ComplexVowels, more[2], more[3])
          /\ more[4] \in BasicFinals /\ more[5] \in BasicFinals
      BY <1>5, SylForms, JoinedLetters
    <2>2. Len(part) = 4
      BY ONLY <1>0, <2>1
    <2>3. /\ more[1] = part[1] /\ more[2] = part[2]
          /\ more[3] = part[3] /\ more[4] = part[4] /\ more[5] = x
      BY <2>2 DEF Grown
    <2>. QED BY <2>1, <2>2, <2>3, SylForms
  <1>. QED BY <1>1, <1>2, <1>3, <1>4, <1>5

\* Two parts of a sequence that are next to one another.
LEMMA SubSeqJoin ==
    ASSUME NEW S, NEW s \in Seq(S), NEW b \in Nat, NEW c \in Nat,
           b <= c, c <= Len(s)
    PROVE  SubSeq(s, 1, b) \o SubSeq(s, b + 1, c) = SubSeq(s, 1, c)
  <1>. DEFINE u == SubSeq(s, 1, b)
              v == SubSeq(s, b + 1, c)
              w == SubSeq(s, 1, c)
              uv == u \o v
  <1>1. /\ u \in Seq(S) /\ Len(u) = b
        /\ \A i \in 1 .. b : u[i] = s[i]
    OBVIOUS
  <1>2. /\ v \in Seq(S) /\ Len(v) = c - b
        /\ \A i \in 1 .. c - b : v[i] = s[b + i]
    OBVIOUS
  <1>3. /\ w \in Seq(S) /\ Len(w) = c
        /\ \A i \in 1 .. c : w[i] = s[i]
    OBVIOUS
  <1>. HIDE DEF u, v, w
  <1>4. /\ uv \in Seq(S) /\ Len(uv) = c
        /\ \A i \in 1 .. Len(u) : uv[i] = u[i]
        /\ \A i \in 1 .. Len(v) : uv[Len(u) + i] = v[i]
    <2>1. u \in Seq(S) /\ v \in Seq(S)
      BY <1>1, <1>2
    <2>2. /\ uv \in Seq(S) /\ Len(uv) = Len(u) + Len(v)
          /\ \A i \in 1 .. Len(u) : uv[i] = u[i]
          /\ \A i \in 1 .. Len(v) : uv[Len(u) + i] = v[i]
      BY ONLY <2>1
    <2>. HIDE DEF uv
    <2>. QED BY <1>1, <1>2, <2>2
  <1>. HIDE DEF uv
  <1>5. ASSUME NEW i \in 1 .. c PROVE uv[i] = w[i]
    <2>1. CASE i <= b
      <3>1. i \in 1 .. Len(u) /\ i \in 1 .. b
        BY <1>1, <2>1
      <3>. QED BY <1>1, <1>3, <1>4, <3>1
    <2>2. CASE i > b
      <3>. DEFINE j == i - b
      <3>1. j \in 1 .. Len(v) /\ j \in 1 .. c - b /\ i = b + j /\ i = Len(u) + j
        BY <1>1, <1>2, <2>2
      <3>. HIDE DEF j
      <3>2. uv[i] = v[j] /\ v[j] = s[i]
        BY ONLY <1>2, <1>4, <3>1
      <3>. QED BY <1>3, <3>2
    <2>. QED BY <2>1, <2>2
  <1>6. uv = w
    BY <1>3, <1>4, <1>5, SeqsEqual
  <1>. QED BY <1>6 DEF uv, u, v, w

\* A character more keeps the letters.
LEMMA MakeKeeps ==
    ASSUME NEW ls \in Seq(Single), NEW c \in Nat, NEW index \in Nat,
           c <= index, index <= Len(ls), NEW res \in Seq(Seq(Letter)),
           Disassemble(res) = SubSeq(ls, 1, c), Back(SubSeq(ls, c + 1, index))
    PROVE  /\ Append(res, Character(SubSeq(ls, c + 1, index))) \in Seq(Seq(Letter))
           /\ Disassemble(Append(res, Character(SubSeq(ls, c + 1, index))))
                = SubSeq(ls, 1, index)
  <1>. DEFINE part == SubSeq(ls, c + 1, index)
              ch == Character(part)
              V == Seq(Letter)
  <1>1. ch \in V /\ LettersOf(ch) = part
    BY DEF Back
  <1>2. Disassemble(Append(res, ch)) = Disassemble(res) \o LettersOf(ch)
    <2>. HIDE DEF ch
    <2>. QED BY <1>1, DisassembleAppend
  <1>3. SubSeq(ls, 1, c) \o part = SubSeq(ls, 1, index)
    BY SubSeqJoin
  <1>4. Append(res, ch) \in Seq(V)
    <2>1. res \in Seq(V)
      OBVIOUS
    <2>. HIDE DEF ch, V
    <2>. QED BY <1>1, <2>1
  <1>. QED BY <1>1, <1>2, <1>3, <1>4

-----------------------------------------------------------------------------
(* The turns of assemble *)

\* The turn reads letter x and leaves it pending with the letters before it.
LEMMA Keeping ==
    ASSUME NEW ls, NEW rd, NEW st, NEW pv, NEW joined, NEW cm, NEW res,
           TurnInv(ls, rd, st, pv, joined, cm, res), rd < Len(ls),
           NEW goal, NEW more \in BOOLEAN, more => goal = 3,
           Pending(SubSeq(ls, cm + 1, rd + 1), goal, more)
    PROVE  TurnInv(ls, rd + 1, goal, ls[rd + 1], more, cm, res)
  <1>1. /\ ls \in Seq(Single) /\ rd \in 0 .. Len(ls) /\ cm \in 0 .. rd
        /\ res \in Seq(Seq(Letter)) /\ Disassemble(res) = SubSeq(ls, 1, cm)
    BY DEF TurnInv
  <1>2. rd + 1 \in 0 .. Len(ls) /\ cm \in 0 .. rd + 1 /\ cm # rd + 1
    BY <1>1
  <1>. QED BY <1>1, <1>2 DEF TurnInv

\* The turn makes a character of the letters up to index first.
LEMMA Making ==
    ASSUME NEW ls, NEW rd, NEW st, NEW pv, NEW joined, NEW cm, NEW res,
           TurnInv(ls, rd, st, pv, joined, cm, res), rd < Len(ls),
           NEW index \in Nat, cm <= index, index <= rd + 1,
           Back(SubSeq(ls, cm + 1, index)),
           NEW goal, index = rd + 1 => goal = 0,
           index < rd + 1 => Pending(SubSeq(ls, index + 1, rd + 1), goal, FALSE)
    PROVE  TurnInv(ls, rd + 1, goal, ls[rd + 1], FALSE, index,
                   Append(res, Character(SubSeq(ls, cm + 1, index))))
  <1>1. /\ ls \in Seq(Single) /\ rd \in 0 .. Len(ls) /\ cm \in 0 .. rd
        /\ res \in Seq(Seq(Letter)) /\ Disassemble(res) = SubSeq(ls, 1, cm)
    BY DEF TurnInv
  <1>2. rd + 1 \in 0 .. Len(ls) /\ index \in 0 .. rd + 1
        /\ cm \in Nat /\ index <= Len(ls)
    BY <1>1
  <1>. DEFINE more == Append(res, Character(SubSeq(ls, cm + 1, index)))
  <1>3. more \in Seq(Seq(Letter)) /\ Disassemble(more) = SubSeq(ls, 1, index)
    <2>1. Back(SubSeq(ls, cm + 1, index)) /\ cm <= index /\ index \in Nat
      OBVIOUS
    <2>. QED BY ONLY <1>1, <1>2, <2>1, MakeKeeps
  <1>. HIDE DEF more
  <1>4. TurnInv(ls, rd + 1, goal, ls[rd + 1], FALSE, index, more)
    BY <1>1, <1>2, <1>3 DEF TurnInv
  <1>. QED BY <1>4 DEF more

LEMMA OneOf ==
    ASSUME NEW S, NEW s \in Seq(S), NEW n \in 1 .. Len(s)
    PROVE  /\ SubSeq(s, n, n) \in Seq(S) /\ Len(SubSeq(s, n, n)) = 1
           /\ SubSeq(s, n, n)[1] = s[n]
  <1>. DEFINE t == SubSeq(s, n, n)
  <1>1. t \in Seq(S) /\ Len(t) = 1 /\ \A i \in 1 .. 1 : t[i] = s[n + i - 1]
    OBVIOUS
  <1>2. ASSUME NEW i \in 1 .. 1 PROVE t[i] = s[n]
    <2>1. i = 1 /\ n + i - 1 = n
      OBVIOUS
    <2>2. t[i] = s[n + i - 1]
      BY ONLY <1>1, i \in 1 .. 1
    <2>. QED BY ONLY <2>1, <2>2
  <1>. HIDE DEF t
  <1>3. t[1] = s[n]
    BY <1>2
  <1>. QED BY <1>1, <1>3 DEF t

LEMMA TwoOf ==
    ASSUME NEW S, NEW s \in Seq(S), NEW n \in Nat, 1 <= n, n + 1 <= Len(s)
    PROVE  /\ Len(SubSeq(s, n, n + 1)) = 2
           /\ SubSeq(s, n, n + 1)[1] = s[n]
           /\ SubSeq(s, n, n + 1)[2] = s[n + 1]
  <1>. DEFINE t == SubSeq(s, n, n + 1)
  <1>1. Len(t) = 2 /\ \A i \in 1 .. 2 : t[i] = s[n + i - 1]
    <2>1. /\ n \in Int /\ n + 1 \in Int /\ n <= (n + 1) + 1
          /\ (n + 1) - n + 1 = 2
      OBVIOUS
    <2>2. /\ Len(t) = (n + 1) - n + 1
          /\ \A i \in 1 .. (n + 1) - n + 1 : t[i] = s[n + i - 1]
      BY <2>1, SubSeqFacts
    <2>. HIDE DEF t
    <2>. QED BY ONLY <2>1, <2>2
  <1>2. ASSUME NEW i \in 1 .. 2, i = 1 PROVE t[i] = s[n]
    <2>1. n + i - 1 = n
      BY <1>2
    <2>. QED BY ONLY <1>1, <2>1, i \in 1 .. 2
  <1>3. ASSUME NEW i \in 1 .. 2, i = 2 PROVE t[i] = s[n + 1]
    <2>1. n + i - 1 = n + 1
      BY <1>3
    <2>. QED BY ONLY <1>1, <2>1, i \in 1 .. 2
  <1>. HIDE DEF t
  <1>4. t[1] = s[n] /\ t[2] = s[n + 1]
    BY <1>2, <1>3
  <1>. QED BY <1>1, <1>4 DEF t

\* The letters pending, and what reading x adds to them.
LEMMA Pended ==
    ASSUME NEW ls, NEW rd, NEW st, NEW pv, NEW joined, NEW cm, NEW res,
           TurnInv(ls, rd, st, pv, joined, cm, res), rd < Len(ls)
    PROVE  /\ rd \in Nat /\ cm \in Nat /\ cm <= rd
           /\ SubSeq(ls, cm + 1, rd) \in Seq(Single)
           /\ Len(SubSeq(ls, cm + 1, rd)) = rd - cm
           /\ Grown(SubSeq(ls, cm + 1, rd + 1), SubSeq(ls, cm + 1, rd), ls[rd + 1])
           /\ Len(SubSeq(ls, rd + 1, rd + 1)) = 1
           /\ SubSeq(ls, rd + 1, rd + 1) \in Seq(Single)
           /\ SubSeq(ls, rd + 1, rd + 1)[1] = ls[rd + 1]
           /\ ls[rd + 1] \in Single
           /\ cm < rd => /\ Pending(SubSeq(ls, cm + 1, rd), st, joined)
                         /\ Back(SubSeq(ls, cm + 1, rd))
                         /\ pv = ls[rd]
           /\ st # 0 => cm < rd
           /\ st = 0 => cm = rd
  <1>1. /\ ls \in Seq(Single) /\ rd \in Nat /\ cm \in Nat /\ cm <= rd
        /\ rd + 1 <= Len(ls)
        /\ cm < rd => pv = ls[rd] /\ Pending(SubSeq(ls, cm + 1, rd), st, joined)
        /\ cm = rd => st = 0
    BY DEF TurnInv
  <1>. DEFINE p == SubSeq(ls, cm + 1, rd)
              y == SubSeq(ls, rd + 1, rd + 1)
  <1>2. /\ p \in Seq(Single) /\ Len(p) = rd - cm
        /\ \A i \in 1 .. rd - cm : p[i] = ls[cm + i]
    BY <1>1
  <1>3. y \in Seq(Single) /\ Len(y) = 1 /\ y[1] = ls[rd + 1]
    <2>1. rd + 1 \in 1 .. Len(ls)
      BY <1>1
    <2>. QED BY <1>1, <2>1, OneOf
  <1>4. Grown(SubSeq(ls, cm + 1, rd + 1), p, ls[rd + 1])
    BY <1>1, OneMore, ExtendsGrown
  <1>5. ls[rd + 1] \in Single
    BY <1>1
  <1>. HIDE DEF p, y
  <1>6. cm < rd => Back(p) /\ p[rd - cm] = ls[rd]
    <2>1. SUFFICES ASSUME cm < rd PROVE Back(p) /\ p[rd - cm] = ls[rd]
      OBVIOUS
    <2>2. Back(p)
      BY <1>1, <1>2, <2>1, PendingBack DEF p
    <2>3. rd - cm \in 1 .. rd - cm /\ cm + (rd - cm) = rd
      BY <1>1, <2>1
    <2>. QED BY <1>2, <2>2, <2>3
  <1>7. st # 0 => cm < rd
    BY <1>1
  <1>8. cm < rd => st # 0
    BY <1>1 DEF Pending
  <1>9. st = 0 => cm = rd
    BY <1>1, <1>8
  <1>. QED BY <1>1, <1>2, <1>3, <1>4, <1>5, <1>6, <1>7, <1>9 DEF p, y

\* The last letter pending is the one read last.
LEMMA LastPended ==
    ASSUME NEW ls, NEW rd, NEW st, NEW pv, NEW joined, NEW cm, NEW res,
           TurnInv(ls, rd, st, pv, joined, cm, res)
    PROVE  cm < rd => SubSeq(ls, cm + 1, rd)[rd - cm] = pv
  <1>1. /\ ls \in Seq(Single) /\ rd \in Nat /\ cm \in Nat /\ rd <= Len(ls)
        /\ cm < rd => pv = ls[rd]
    BY DEF TurnInv
  <1>. DEFINE p == SubSeq(ls, cm + 1, rd)
  <1>2. cm < rd => \A i \in 1 .. rd - cm : p[i] = ls[cm + i]
    BY <1>1
  <1>. HIDE DEF p
  <1>3. cm < rd => rd - cm \in 1 .. rd - cm /\ cm + (rd - cm) = rd
    BY <1>1
  <1>4. cm < rd => p[rd - cm] = pv
    BY ONLY <1>1, <1>2, <1>3
  <1>. QED BY <1>4 DEF p

\* A letter that is none of the tables' is an initial or a vowel.
LEMMA LetterKinds ==
    ASSUME NEW x \in Single, IsLetter(x)
    PROVE  /\ x \in Initials \/ x \in BasicVowels
           /\ x \in Vowels <=> x \in BasicVowels
           /\ x \in Initials <=> x \notin Vowels
           /\ x \in Finals <=> x \in BasicFinals
  <1>1. x \notin TwoConsonants /\ x \notin TwoVowels
    BY DEF Single
  <1>. QED BY <1>1, Alphabet DEF IsLetter, BasicVowels, BasicFinals

\* One letter pending.
LEMMA OnePending ==
    ASSUME NEW p, Len(p) = 1
    PROVE  /\ p[1] \in Initials => Pending(p, 1, FALSE)
           /\ p[1] \in BasicVowels => Pending(p, 4, FALSE)
  BY DEF Pending

-----------------------------------------------------------------------------

\* The turn reads a letter of the alphabet.
Reading(letter) == Reads(letter) /\ IsLetter(letter)

LEMMA DisassembleNothing == Disassemble(<< >>) = << >>
  <1>. DEFINE e == [k \in DOMAIN << >> |->
                     FlattenSeq([j \in DOMAIN << >>[k] |-> Split(<< >>[k][j])])]
  <1>1. e = << >>
    OBVIOUS
  <1>2. Disassemble(<< >>) = FlattenSeq(e)
    BY DEF Disassemble
  <1>. HIDE DEF e
  <1>. QED BY <1>1, <1>2, FlattenNothing

LEMMA NoLetters ==
    ASSUME NEW ls, NEW rd, NEW st, NEW pv, NEW joined, NEW cm, NEW res,
           TurnInv(ls, rd, st, pv, joined, cm, res), ls = Disassemble(<< >>)
    PROVE  ls = << >> /\ Len(ls) = 0 /\ rd = 0 /\ cm = 0
  <1>2. ls = << >>
    BY DisassembleNothing
  <1>3. Len(ls) = 0 /\ rd \in 0 .. Len(ls) /\ cm \in 0 .. rd
    BY <1>2 DEF TurnInv
  <1>. QED BY <1>2, <1>3

LEMMA ReadingInv ==
    ASSUME NEW letter, HangulInv, Reading(letter)
    PROVE  /\ TurnInv(letters, read, stage, previous, jongJoined, complete, result)
           /\ read < Len(letters) /\ letter = letters[read + 1]
           /\ IsLetter(letter) /\ letter \in Single /\ hangul # << >>
           /\ letter \in Initials \/ letter \in BasicVowels
           /\ letter \in Vowels <=> letter \in BasicVowels
           /\ letter \in Initials <=> letter \notin Vowels
           /\ letter \in Finals <=> letter \in BasicFinals
  <1>1. /\ TurnInv(letters, read, stage, previous, jongJoined, complete, result)
        /\ read < Len(letters) /\ letter = letters[read + 1] /\ IsLetter(letter)
    BY DEF HangulInv, Reading, Reads
  <1>2. letter \in Single
    BY <1>1, Pended
  <1>3. hangul # << >>
    BY <1>1, NoLetters DEF HangulInv
  <1>. QED BY <1>1, <1>2, <1>3, LetterKinds

\* A turn that makes nothing keeps the invariant, if the stage fits.
LEMMA TurnKept ==
    ASSUME NEW letter, HangulInv, Reading(letter), NEW goal,
           Turn(letter, goal), UNCHANGED << complete, result >>,
           jongJoined' \in BOOLEAN, jongJoined' => goal = 3,
           Pending(SubSeq(letters, complete + 1, read + 1), goal, jongJoined')
    PROVE  HangulInv'
  <1>. DEFINE more == jongJoined'
  <1>1. /\ TurnInv(letters, read, stage, previous, jongJoined, complete, result)
        /\ read < Len(letters) /\ letter = letters[read + 1]
    BY ReadingInv
  <1>2. TurnInv(letters, read + 1, goal, letters[read + 1], more, complete, result)
    <2>1. /\ more \in BOOLEAN /\ (more => goal = 3)
          /\ Pending(SubSeq(letters, complete + 1, read + 1), goal, more)
      OBVIOUS
    <2>. HIDE DEF more
    <2>. QED BY <1>1, <2>1, Keeping
  <1>3. /\ read' = read + 1 /\ stage' = goal /\ previous' = letters[read + 1]
        /\ hangul' = hangul /\ letters' = letters /\ complete' = complete
        /\ result' = result
    BY <1>1 DEF Turn
  <1>4. TurnInv(letters, read, stage, previous, jongJoined, complete, result)'
    BY <1>2, <1>3
  <1>. QED BY <1>3, <1>4, ReadingInv DEF HangulInv

\* So does one that makes a character of the letters up to index.
LEMMA TurnMade ==
    ASSUME NEW letter, HangulInv, Reading(letter), NEW goal, NEW index \in Nat,
           complete < index, index <= read + 1,
           Back(SubSeq(letters, complete + 1, index)),
           index = read + 1 => goal = 0,
           index < read + 1 =>
               Pending(SubSeq(letters, index + 1, read + 1), goal, FALSE),
           TurnMaking(letter, goal, index)
    PROVE  HangulInv'
  <1>1. /\ TurnInv(letters, read, stage, previous, jongJoined, complete, result)
        /\ read < Len(letters) /\ letter = letters[read + 1]
    BY ReadingInv
  <1>. DEFINE more == Append(result, Character(SubSeq(letters, complete + 1, index)))
  <1>2. TurnInv(letters, read + 1, goal, letters[read + 1], FALSE, index, more)
    <2>1. complete <= index
      BY <1>1 DEF TurnInv
    <2>. QED BY <1>1, <2>1, Making
  <1>3. /\ read' = read + 1 /\ stage' = goal /\ previous' = letters[read + 1]
        /\ hangul' = hangul /\ letters' = letters /\ jongJoined' = FALSE
        /\ complete' = index /\ result' = more
    BY <1>1 DEF TurnMaking, Turn, MakeHangul
  <1>. HIDE DEF more
  <1>4. TurnInv(letters, read, stage, previous, jongJoined, complete, result)'
    BY <1>2, <1>3
  <1>. QED BY <1>3, <1>4, ReadingInv DEF HangulInv

\* What is pending is made, and the letter read waits.
LEMMA MakeRead ==
    ASSUME NEW letter, HangulInv, Reading(letter), stage # 0, NEW goal,
           \/ goal = 1 /\ letter \in Initials
           \/ goal = 4 /\ letter \in BasicVowels,
           TurnMaking(letter, goal, read)
    PROVE  HangulInv'
  <1>1. /\ TurnInv(letters, read, stage, previous, jongJoined, complete, result)
        /\ read < Len(letters) /\ letter = letters[read + 1]
    BY ReadingInv
  <1>2. /\ complete < read /\ read \in Nat
        /\ Back(SubSeq(letters, complete + 1, read))
    BY <1>1, Pended
  <1>. DEFINE y == SubSeq(letters, read + 1, read + 1)
  <1>3. Len(y) = 1 /\ y[1] = letter
    BY ONLY <1>1, Pended, SMTT(30)
  <1>. HIDE DEF y
  <1>4. Pending(y, goal, FALSE)
    BY <1>3, OnePending
  <1>5. read <= read + 1 /\ read # read + 1
    BY <1>2
  <1>. QED BY <1>2, <1>4, <1>5, TurnMade DEF y

\* What is pending but for its last letter is made: that letter is the initial
\* of the vowel read.
LEMMA MakeBefore ==
    ASSUME NEW letter, HangulInv, Reading(letter), letter \in BasicVowels,
           read \in Nat, complete < read - 1,
           Back(SubSeq(letters, complete + 1, read - 1)),
           letters[read] \in Initials, TurnMaking(letter, 2, read - 1)
    PROVE  HangulInv'
  <1>1. /\ TurnInv(letters, read, stage, previous, jongJoined, complete, result)
        /\ read < Len(letters) /\ letter = letters[read + 1]
    BY ReadingInv
  <1>2. letters \in Seq(Single) /\ complete \in Nat
    BY <1>1 DEF TurnInv
  <1>. DEFINE y == SubSeq(letters, (read - 1) + 1, read + 1)
  <1>3. /\ (read - 1) + 1 = read /\ read \in Nat /\ 1 <= read
        /\ read + 1 <= Len(letters)
    BY <1>1, <1>2
  <1>4. Len(y) = 2 /\ y[1] = letters[read] /\ y[2] = letters[read + 1]
    <2>1. /\ Len(SubSeq(letters, read, read + 1)) = 2
          /\ SubSeq(letters, read, read + 1)[1] = letters[read]
          /\ SubSeq(letters, read, read + 1)[2] = letters[read + 1]
      BY ONLY <1>2, <1>3, TwoOf
    <2>. QED BY <1>3, <2>1
  <1>. HIDE DEF y
  <1>5. Syl(y, 1, 0)
    BY <1>1, <1>4, SylForms
  <1>6. Pending(y, 2, FALSE)
    BY <1>5 DEF Pending
  <1>7. read - 1 \in Nat /\ read - 1 <= read + 1 /\ read - 1 # read + 1
    BY <1>2
  <1>. QED BY <1>6, <1>7, TurnMade DEF y

LEMMA FirstStep ==
    ASSUME NEW letter, HangulInv, Reading(letter), ReadFirst(letter)
    PROVE  HangulInv'
  <1>1. /\ TurnInv(letters, read, stage, previous, jongJoined, complete, result)
        /\ read < Len(letters) /\ letter = letters[read + 1] /\ stage = 0
    BY ReadingInv DEF ReadFirst
  <1>2. complete = read
    BY <1>1, Pended
  <1>. DEFINE p == SubSeq(letters, complete + 1, read + 1)
              goal == IF letter \in Initials THEN 1
                      ELSE IF letter \in Vowels THEN 4 ELSE 0
  <1>3. Len(p) = 1 /\ p[1] = letter
    BY <1>1, <1>2, Pended
  <1>4. jongJoined = FALSE
    BY <1>1 DEF TurnInv
  <1>5. /\ Turn(letter, goal) /\ UNCHANGED << complete, result >>
        /\ jongJoined' = FALSE
    BY <1>4 DEF ReadFirst, TurnKeeping
  <1>. HIDE DEF p
  <1>6. Pending(p, goal, FALSE)
    BY <1>3, ReadingInv, OnePending
  <1>. HIDE DEF goal
  <1>. QED BY <1>5, <1>6, TurnKept DEF p

\* The letters pending, and those with the next one.
Part == SubSeq(letters, complete + 1, read)
More == SubSeq(letters, complete + 1, read + 1)

LEMMA PartFacts ==
    ASSUME NEW letter, HangulInv, Reading(letter), stage # 0
    PROVE  /\ read \in Nat /\ complete \in Nat /\ complete < read
           /\ Part \in Seq(Single) /\ Len(Part) = read - complete
           /\ Part[Len(Part)] = previous /\ previous = letters[read]
           /\ Grown(More, Part, letter)
           /\ Pending(Part, stage, jongJoined)
           /\ Back(Part)
  <1>1. /\ TurnInv(letters, read, stage, previous, jongJoined, complete, result)
        /\ read < Len(letters) /\ letter = letters[read + 1]
    BY ReadingInv
  <1>2. complete < read
    BY <1>1, Pended
  <1>3. /\ read \in Nat /\ complete \in Nat
        /\ SubSeq(letters, complete + 1, read) \in Seq(Single)
        /\ Len(SubSeq(letters, complete + 1, read)) = read - complete
    BY <1>1, Pended
  <1>4. Grown(SubSeq(letters, complete + 1, read + 1),
              SubSeq(letters, complete + 1, read), letters[read + 1])
    BY <1>1, Pended
  <1>5. /\ Pending(SubSeq(letters, complete + 1, read), stage, jongJoined)
        /\ Back(SubSeq(letters, complete + 1, read))
    BY <1>1, <1>2, Pended
  <1>6. /\ previous = letters[read]
        /\ SubSeq(letters, complete + 1, read)[read - complete] = previous
    <2>1. complete < read => previous = letters[read]
      BY <1>1 DEF TurnInv
    <2>2. complete < read
            => SubSeq(letters, complete + 1, read)[read - complete] = previous
      BY <1>1, LastPended
    <2>. QED BY ONLY <1>2, <2>1, <2>2
  <1>7. Grown(More, Part, letter)
    BY <1>1, <1>4 DEF More, Part
  <1>8. Part[Len(Part)] = previous
    BY <1>3, <1>6 DEF Part
  <1>9. Part \in Seq(Single) /\ Len(Part) = read - complete
    BY <1>3 DEF Part
  <1>. QED BY <1>2, <1>3, <1>5, <1>6, <1>7, <1>8, <1>9 DEF Part

LEMMA MoreWaits ==
    ASSUME NEW letter, HangulInv, Reading(letter), NEW goal,
           TurnKeeping(letter, goal), jongJoined = FALSE,
           Pending(More, goal, FALSE)
    PROVE  HangulInv'
  <1>1. /\ Turn(letter, goal) /\ UNCHANGED << complete, result >>
        /\ jongJoined' = FALSE
    BY DEF TurnKeeping
  <1>. QED BY <1>1, TurnKept DEF More

LEMMA NotJoined ==
    ASSUME HangulInv, stage # 3
    PROVE  jongJoined = FALSE
  BY DEF HangulInv, TurnInv

LEMMA AfterInitialStep ==
    ASSUME NEW letter, HangulInv, Reading(letter), ReadAfterInitial(letter)
    PROVE  HangulInv'
  <1>1. stage = 1 /\ jongJoined = FALSE
    BY NotJoined DEF ReadAfterInitial
  <1>2. Grown(More, Part, letter) /\ Part[Len(Part)] = previous
    BY <1>1, PartFacts
  <1>3. Pending(Part, stage, jongJoined)
    BY <1>1, PartFacts
  <1>4. Len(Part) = 1 /\ Part[1] \in Initials
    BY <1>1, <1>3 DEF Pending
  <1>5. CASE letter \in Vowels
    <2>1. Syl(More, 1, 0)
      BY <1>2, <1>4, <1>5, ReadingInv, VowelAfterInitial
    <2>2. Pending(More, 2, FALSE)
      BY <2>1 DEF Pending
    <2>3. TurnKeeping(letter, 2)
      BY <1>5 DEF ReadAfterInitial
    <2>. QED BY <1>1, <2>2, <2>3, MoreWaits
  <1>6. CASE /\ letter \notin Vowels
             /\ Joinable(ComplexConsonants, previous, letter)
    <2>1. Len(More) = 2 /\ More[1] = Part[1] /\ More[2] = letter
      BY ONLY <1>2, <1>4 DEF Grown
    <2>2. Part[1] = previous
      BY <1>2, <1>4
    <2>3. Pending(More, 5, FALSE)
      BY <1>6, <2>1, <2>2 DEF Pending
    <2>4. TurnKeeping(letter, 5)
      BY <1>6 DEF ReadAfterInitial
    <2>. QED BY <1>1, <2>3, <2>4, MoreWaits
  <1>7. CASE /\ letter \notin Vowels
             /\ ~Joinable(ComplexConsonants, previous, letter)
    <2>1. TurnMaking(letter, 1, read) /\ letter \in Initials
      BY <1>7, ReadingInv DEF ReadAfterInitial
    <2>. QED BY <1>1, <2>1, MakeRead
  <1>. QED BY <1>5, <1>6, <1>7

LEMMA AfterVowelStep ==
    ASSUME NEW letter, HangulInv, Reading(letter), ReadAfterVowel(letter)
    PROVE  HangulInv'
  <1>1. stage = 2 /\ jongJoined = FALSE
    BY NotJoined DEF ReadAfterVowel
  <1>2. Grown(More, Part, letter) /\ Part[Len(Part)] = previous
    BY <1>1, PartFacts
  <1>3. Pending(Part, stage, jongJoined)
    BY <1>1, PartFacts
  <1>4. PICK vn \in {1, 2} : Syl(Part, vn, 0)
    BY <1>1, <1>3 DEF Pending
  <1>5. CASE letter \in Finals
    <2>1. Syl(More, vn, 1)
      BY <1>2, <1>4, <1>5, ReadingInv, FinalAfterVowel
    <2>2. Pending(More, 3, FALSE)
      BY <2>1 DEF Pending
    <2>3. TurnKeeping(letter, 3)
      BY <1>5 DEF ReadAfterVowel
    <2>. QED BY <1>1, <2>2, <2>3, MoreWaits
  <1>6. CASE letter \notin Finals /\ letter \notin Vowels
    <2>1. TurnMaking(letter, 1, read) /\ letter \in Initials
      BY <1>6, ReadingInv DEF ReadAfterVowel
    <2>. QED BY <1>1, <2>1, MakeRead
  <1>7. CASE /\ letter \notin Finals /\ letter \in Vowels
             /\ Joinable(ComplexVowels, previous, letter)
    <2>1. Syl(More, 2, 0)
      BY <1>2, <1>4, <1>7, VowelAfterVowel
    <2>2. Pending(More, 2, FALSE)
      BY <2>1 DEF Pending
    <2>3. TurnKeeping(letter, 2)
      BY <1>7 DEF ReadAfterVowel
    <2>. QED BY <1>1, <2>2, <2>3, MoreWaits
  <1>8. CASE /\ letter \notin Finals /\ letter \in Vowels
             /\ ~Joinable(ComplexVowels, previous, letter)
    <2>1. TurnMaking(letter, 4, read) /\ letter \in BasicVowels
      BY <1>8, ReadingInv DEF ReadAfterVowel
    <2>. QED BY <1>1, <2>1, MakeRead
  <1>. QED BY <1>5, <1>6, <1>7, <1>8

\* The letters pending but for the last one.
Less == SubSeq(letters, complete + 1, read - 1)

LEMMA LessFacts ==
    ASSUME NEW letter, HangulInv, Reading(letter), stage # 0, complete < read - 1
    PROVE  Grown(Part, Less, previous) /\ Less \in Seq(Single)
           /\ Len(Less) = (read - 1) - complete
  <1>1. /\ TurnInv(letters, read, stage, previous, jongJoined, complete, result)
        /\ read < Len(letters)
    BY ReadingInv
  <1>2. /\ read \in Nat /\ complete \in Nat /\ previous = letters[read]
    BY PartFacts
  <1>3. /\ letters \in Seq(Single) /\ read - 1 \in Nat /\ complete <= read - 1
        /\ (read - 1) + 1 = read /\ (read - 1) + 1 <= Len(letters)
    BY <1>1, <1>2 DEF TurnInv
  <1>4. Extends(SubSeq(letters, complete + 1, (read - 1) + 1), Less,
                letters[(read - 1) + 1])
    BY ONLY <1>2, <1>3, OneMore DEF Less
  <1>5. Extends(Part, Less, previous)
    BY <1>2, <1>3, <1>4 DEF Part
  <1>6. Less \in Seq(Single) /\ Len(Less) = (read - 1) - complete
    BY <1>2, <1>3 DEF Less
  <1>. QED BY <1>5, <1>6, ExtendsGrown

LEMMA AfterFinalStep ==
    ASSUME NEW letter, HangulInv, Reading(letter), ReadAfterFinal(letter)
    PROVE  HangulInv'
  <1>1. stage = 3
    BY DEF ReadAfterFinal
  <1>2. /\ Grown(More, Part, letter) /\ Part[Len(Part)] = previous
        /\ Len(Part) = read - complete /\ read \in Nat /\ complete \in Nat
        /\ previous = letters[read]
    BY <1>1, PartFacts
  <1>3. Pending(Part, stage, jongJoined)
    BY <1>1, PartFacts
  <1>4. PICK vn \in {1, 2}, fn \in {1, 2} :
            Syl(Part, vn, fn) /\ (jongJoined <=> fn = 2)
    BY <1>1, <1>3 DEF Pending
  <1>5. CASE letter \in Vowels
    <2>1. complete < read - 1
      <3>1. Len(Part) >= 3
        BY <1>4 DEF Syl
      <3>. QED BY ONLY <1>2, <3>1
    <2>2. Grown(Part, Less, previous) /\ Less \in Seq(Single)
      BY <1>1, <2>1, LessFacts
    <2>3. previous \in BasicFinals /\ (Syl(Less, vn, 0) \/ Syl(Less, vn, 1))
      BY <1>4, <2>2, FinalTaken
    <2>4. Back(Less) /\ previous \in Initials
      BY <2>2, <2>3, SylBack, Alphabet
    <2>5. TurnMaking(letter, 2, read - 1) /\ letter \in BasicVowels
      BY <1>5, ReadingInv DEF ReadAfterFinal
    <2>. QED BY <1>2, <2>1, <2>4, <2>5, MakeBefore DEF Less
  <1>6. CASE /\ letter \notin Vowels /\ letter \in Finals /\ ~jongJoined
             /\ Joinable(ComplexConsonants, previous, letter)
    <2>1. fn = 1
      BY <1>4, <1>6
    <2>2. Syl(More, vn, 2)
      BY <1>2, <1>4, <1>6, <2>1, FinalAfterFinal
    <2>3. Pending(More, 3, TRUE)
      BY <1>4, <2>2 DEF Pending
    <2>4. /\ Turn(letter, 3) /\ jongJoined' = TRUE
          /\ UNCHANGED << complete, result >>
      BY <1>6 DEF ReadAfterFinal
    <2>. QED BY <2>3, <2>4, TurnKept DEF More
  <1>7. CASE /\ letter \notin Vowels
             /\ ~ (/\ letter \in Finals /\ ~jongJoined
                   /\ Joinable(ComplexConsonants, previous, letter))
    <2>1. TurnMaking(letter, 1, read) /\ letter \in Initials
      BY <1>7, ReadingInv DEF ReadAfterFinal
    <2>. QED BY <1>1, <2>1, MakeRead
  <1>. QED BY <1>5, <1>6, <1>7

LEMMA AfterLooseVowelStep ==
    ASSUME NEW letter, HangulInv, Reading(letter), ReadAfterLooseVowel(letter)
    PROVE  HangulInv'
  <1>1. stage = 4
    BY DEF ReadAfterLooseVowel
  <1>2. /\ Grown(More, Part, letter) /\ Part[Len(Part)] = previous
        /\ read \in Nat /\ complete < read /\ complete \in Nat
    BY <1>1, PartFacts
  <1>3. Pending(Part, stage, jongJoined)
    BY <1>1, PartFacts
  <1>4. Len(Part) = 1
    BY <1>1, <1>3 DEF Pending
  <1>5. CASE letter \notin Vowels
    <2>1. TurnMaking(letter, 1, read) /\ letter \in Initials
      BY <1>5, ReadingInv DEF ReadAfterLooseVowel
    <2>. QED BY <1>1, <2>1, MakeRead
  <1>6. CASE letter \in Vowels /\ Joinable(ComplexVowels, previous, letter)
    <2>1. Len(More) = 2 /\ More[1] = Part[1] /\ More[2] = letter
      BY ONLY <1>2, <1>4 DEF Grown
    <2>2. Part[1] = previous
      BY <1>2, <1>4
    <2>3. More \in Seq(Single)
      <3>1. /\ letters \in Seq(Single) /\ read < Len(letters)
        BY ReadingInv DEF TurnInv
      <3>. QED BY <1>2, <3>1 DEF More
    <2>4. Back(More)
      BY <1>6, <2>1, <2>2, <2>3, JoinedBack
    <2>5. TurnMaking(letter, 0, read + 1)
      BY <1>6 DEF ReadAfterLooseVowel
    <2>6. read + 1 \in Nat /\ complete < read + 1 /\ read + 1 <= read + 1
          /\ ~(read + 1 < read + 1)
      BY <1>2
    <2>. QED BY <2>4, <2>5, <2>6, TurnMade DEF More
  <1>7. CASE letter \in Vowels /\ ~Joinable(ComplexVowels, previous, letter)
    <2>1. TurnMaking(letter, 4, read) /\ letter \in BasicVowels
      BY <1>7, ReadingInv DEF ReadAfterLooseVowel
    <2>. QED BY <1>1, <2>1, MakeRead
  <1>. QED BY <1>5, <1>6, <1>7

LEMMA AfterLooseConsonantsStep ==
    ASSUME NEW letter, HangulInv, Reading(letter), ReadAfterLooseConsonants(letter)
    PROVE  HangulInv'
  <1>1. stage = 5
    BY DEF ReadAfterLooseConsonants
  <1>2. /\ Part[Len(Part)] = previous /\ previous = letters[read]
        /\ Len(Part) = read - complete /\ read \in Nat /\ complete \in Nat
    BY <1>1, PartFacts
  <1>3. Pending(Part, stage, jongJoined)
    BY <1>1, PartFacts
  <1>4. Len(Part) = 2 /\ Joinable(ComplexConsonants, Part[1], Part[2])
    BY <1>1, <1>3 DEF Pending
  <1>5. CASE letter \in Vowels
    <2>1. complete < read - 1 /\ (read - 1) - complete = 1
      <3>0. Len(Part) = read - complete /\ Len(Part) = 2
        BY <1>2, <1>4
      <3>1. read - complete = 2 /\ read \in Int /\ complete \in Int
        <4>1. read \in Int /\ complete \in Int
          BY <1>2
        <4>. QED BY ONLY <3>0, <4>1
      <3>2. complete = read - 2
        BY ONLY <3>1
      <3>. QED BY ONLY <3>1, <3>2
    <2>2. /\ Grown(Part, Less, previous) /\ Less \in Seq(Single)
          /\ Len(Less) = (read - 1) - complete
      BY <1>1, <2>1, LessFacts
    <2>3. Len(Less) = 1 /\ Part[1] = Less[1] /\ Part[2] = previous
      <3>1. Len(Less) = 1 /\ Grown(Part, Less, previous)
        BY <2>1, <2>2
      <3>. QED BY ONLY <3>1 DEF Grown
    <2>4. Less[1] \in Initials /\ previous \in Initials
      BY <1>4, <2>3, JoinedLetters, Alphabet
    <2>5. Back(Less)
      BY <2>2, <2>3, <2>4, AloneBack
    <2>6. TurnMaking(letter, 2, read - 1) /\ letter \in BasicVowels
      BY <1>5, ReadingInv DEF ReadAfterLooseConsonants
    <2>. QED BY <1>2, <2>1, <2>4, <2>5, <2>6, MakeBefore DEF Less
  <1>6. CASE letter \notin Vowels
    <2>1. TurnMaking(letter, 1, read) /\ letter \in Initials
      BY <1>6, ReadingInv DEF ReadAfterLooseConsonants
    <2>. QED BY <1>1, <2>1, MakeRead
  <1>. QED BY <1>5, <1>6

\* What is no letter is made of itself, after what comes before it.
LEMMA OtherKeeps ==
    ASSUME NEW ls \in Seq(Single), NEW r \in Nat, r < Len(ls),
           NEW res \in Seq(Seq(Letter)), Disassemble(res) = SubSeq(ls, 1, r)
    PROVE  /\ Append(res, << ls[r + 1] >>) \in Seq(Seq(Letter))
           /\ Disassemble(Append(res, << ls[r + 1] >>)) = SubSeq(ls, 1, r + 1)
  <1>. DEFINE x == ls[r + 1]
              c == << x >>
              V == Seq(Letter)
  <1>1. x \in Single /\ x \in Letter /\ x # ""
        /\ x \notin TwoConsonants /\ x \notin TwoVowels
    <2>1. ls[r + 1] \in Single
      OBVIOUS
    <2>. QED BY <2>1 DEF Single
  <1>2. LettersOf(c) = c
    BY <1>1, SplitSingle, LettersOfOne
  <1>3. c \in V
    <2>1. x \in Letter
      BY <1>1
    <2>. HIDE DEF x
    <2>. QED BY ONLY <2>1
  <1>4. SubSeq(ls, r + 1, r + 1) = c
    <2>. DEFINE t == SubSeq(ls, r + 1, r + 1)
    <2>1. r + 1 \in 1 .. Len(ls)
      OBVIOUS
    <2>2. t \in Seq(Single) /\ Len(t) = 1 /\ t[1] = x
      BY <2>1, OneOf
    <2>. HIDE DEF t, x
    <2>3. t = << x >>
      BY <2>2
    <2>. QED BY <2>3 DEF t
  <1>5. SubSeq(ls, 1, r) \o SubSeq(ls, r + 1, r + 1) = SubSeq(ls, 1, r + 1)
    <2>1. r + 1 \in Nat /\ r <= r + 1 /\ r + 1 <= Len(ls)
      OBVIOUS
    <2>. QED BY <2>1, SubSeqJoin
  <1>. HIDE DEF c, V
  <1>6. Disassemble(Append(res, c)) = Disassemble(res) \o LettersOf(c)
    BY <1>3, DisassembleAppend DEF V
  <1>7. Append(res, c) \in Seq(V)
    BY <1>3 DEF V
  <1>. QED BY <1>2, <1>4, <1>5, <1>6, <1>7 DEF c, V

LEMMA TwoAppends ==
    ASSUME NEW S, NEW s \in Seq(S), NEW a \in S, NEW b \in S
    PROVE  s \o << a, b >> = Append(Append(s, a), b)
  <1>. DEFINE t == << a, b >>
              l == s \o t
              r == Append(Append(s, a), b)
  <1>1. t \in Seq(S) /\ Len(t) = 2 /\ t[1] = a /\ t[2] = b
    OBVIOUS
  <1>2. /\ r \in Seq(S) /\ Len(r) = Len(s) + 2
        /\ r[Len(s) + 1] = a /\ r[Len(s) + 2] = b
        /\ \A k \in 1 .. Len(s) : r[k] = s[k]
    OBVIOUS
  <1>. HIDE DEF t, r
  <1>3. s \in Seq(S) /\ t \in Seq(S) /\ Len(s) \in Nat
    BY <1>1
  <1>4. /\ l \in Seq(S) /\ Len(l) = Len(s) + Len(t)
        /\ \A k \in 1 .. Len(s) : l[k] = s[k]
        /\ \A k \in 1 .. Len(t) : l[Len(s) + k] = t[k]
    BY ONLY <1>3
  <1>. HIDE DEF l
  <1>5. 1 \in 1 .. Len(t) /\ 2 \in 1 .. Len(t)
    BY <1>1
  <1>6. l[Len(s) + 1] = a /\ l[Len(s) + 2] = b
    BY ONLY <1>1, <1>4, <1>5
  <1>7. ASSUME NEW k \in 1 .. Len(r) PROVE l[k] = r[k]
    <2>1. k \in 1 .. Len(s) \/ k = Len(s) + 1 \/ k = Len(s) + 2
      BY <1>2, <1>3
    <2>. QED BY <1>2, <1>4, <1>6, <2>1
  <1>8. l = r
    BY <1>1, <1>2, <1>4, <1>7, SeqsEqual
  <1>. QED BY <1>8 DEF l, r, t

LEMMA OtherStep == HangulInv /\ ReadOther => HangulInv'
  <1>. SUFFICES ASSUME HangulInv, ReadOther PROVE HangulInv'
    OBVIOUS
  <1>1. PICK letter : /\ read < Len(letters) /\ letter = letters[read + 1]
                      /\ read' = read + 1 /\ stage' = 0 /\ jongJoined' = FALSE
                      /\ complete' = read + 1
                      /\ result' = IF read > complete
                           THEN result \o << Character(SubSeq(letters, complete + 1, read)),
                                             << letter >> >>
                           ELSE Append(result, << letter >>)
                      /\ hangul' = hangul /\ letters' = letters
                      /\ previous' = previous
    BY DEF ReadOther, Reads
  <1>2. TurnInv(letters, read, stage, previous, jongJoined, complete, result)
    BY DEF HangulInv
  <1>3. /\ letters \in Seq(Single) /\ read \in Nat /\ complete \in Nat
        /\ complete <= read /\ result \in Seq(Seq(Letter))
        /\ Disassemble(result) = SubSeq(letters, 1, complete)
    BY <1>2 DEF TurnInv
  <1>4. result' \in Seq(Seq(Letter))
        /\ Disassemble(result') = SubSeq(letters, 1, read + 1)
    <2>1. CASE complete < read
      <3>. DEFINE part == SubSeq(letters, complete + 1, read)
                  res == Append(result, Character(part))
      <3>1. Back(part)
        BY <1>1, <1>2, <2>1, Pended
      <3>2. read <= Len(letters)
        BY <1>1, <1>3
      <3>3. res \in Seq(Seq(Letter)) /\ Disassemble(res) = SubSeq(letters, 1, read)
        BY ONLY <1>3, <3>1, <3>2, MakeKeeps
      <3>. HIDE DEF res
      <3>4. /\ Append(res, << letter >>) \in Seq(Seq(Letter))
            /\ Disassemble(Append(res, << letter >>)) = SubSeq(letters, 1, read + 1)
        BY <1>1, <1>3, <3>3, OtherKeeps
      <3>5. Character(part) \in Seq(Letter) /\ << letter >> \in Seq(Letter)
        <4>1. letter \in Single
          BY <1>1, <1>2, Pended
        <4>2. letter \in Letter
          BY <4>1 DEF Single
        <4>. QED BY <3>1, <4>2 DEF Back
      <3>6. result' = result \o << Character(part), << letter >> >>
        BY <1>1, <1>3, <2>1
      <3>7. result' = Append(res, << letter >>)
        <4>. DEFINE V == Seq(Letter)
                    a == Character(part)
                    b == << letter >>
        <4>1. a \in V /\ b \in V /\ result \in Seq(V)
          BY <1>3, <3>5
        <4>. HIDE DEF a, b, V
        <4>2. result \o << a, b >> = Append(Append(result, a), b)
          BY <4>1, TwoAppends
        <4>. QED BY <3>6, <4>2 DEF a, b, res
      <3>. QED BY <3>4, <3>7
    <2>2. CASE complete = read
      <3>1. result' = Append(result, << letter >>)
        BY <1>1, <1>3, <2>2
      <3>2. /\ Append(result, << letter >>) \in Seq(Seq(Letter))
            /\ Disassemble(Append(result, << letter >>)) = SubSeq(letters, 1, read + 1)
        BY <1>1, <1>3, <2>2, OtherKeeps
      <3>. QED BY <3>1, <3>2
    <2>. QED BY <1>3, <2>1, <2>2
  <1>5. TurnInv(letters, read + 1, 0, previous, FALSE, read + 1, result')
    <2>. DEFINE r == read + 1
                res == result'
    <2>1. r \in 0 .. Len(letters) /\ r \in 0 .. r /\ ~(r < r)
      BY <1>1, <1>3
    <2>2. res \in Seq(Seq(Letter)) /\ Disassemble(res) = SubSeq(letters, 1, r)
      BY <1>4
    <2>. HIDE DEF r, res
    <2>3. TurnInv(letters, r, 0, previous, FALSE, r, res)
      BY <1>3, <2>1, <2>2 DEF TurnInv
    <2>. QED BY <2>3 DEF r, res
  <1>6. hangul # << >>
    BY <1>1, <1>2, <1>3, NoLetters DEF HangulInv
  <1>7. TurnInv(letters, read, stage, previous, jongJoined, complete, result)'
    BY <1>1, <1>5
  <1>. QED BY <1>1, <1>6, <1>7 DEF HangulInv

LEMMA ReadLetterStep == HangulInv /\ ReadLetter => HangulInv'
  <1>. SUFFICES ASSUME HangulInv, ReadLetter PROVE HangulInv'
    OBVIOUS
  <1>1. PICK letter :
            /\ Reading(letter)
            /\ \/ ReadFirst(letter) \/ ReadAfterInitial(letter)
               \/ ReadAfterVowel(letter) \/ ReadAfterFinal(letter)
               \/ ReadAfterLooseVowel(letter) \/ ReadAfterLooseConsonants(letter)
    BY DEF ReadLetter, Reading
  <1>. QED BY <1>1, FirstStep, AfterInitialStep, AfterVowelStep, AfterFinalStep,
              AfterLooseVowelStep, AfterLooseConsonantsStep

LEMMA FinishStep == HangulInv /\ Finish => HangulInv'
  <1>. SUFFICES ASSUME HangulInv, Finish PROVE HangulInv'
    OBVIOUS
  <1>1. TurnInv(letters, read, stage, previous, jongJoined, complete, result)
    BY DEF HangulInv
  <1>2. /\ letters \in Seq(Single) /\ read \in Nat /\ complete \in Nat
        /\ result \in Seq(Seq(Letter)) /\ read \in 0 .. Len(letters)
        /\ Disassemble(result) = SubSeq(letters, 1, complete)
    BY <1>1 DEF TurnInv
  <1>. DEFINE part == SubSeq(letters, complete + 1, read)
              res == Append(result, Character(part))
  <1>3. /\ read = Len(letters) /\ complete < read /\ complete' = read
        /\ result' = res /\ jongJoined' = FALSE
        /\ hangul' = hangul /\ letters' = letters /\ read' = read
        /\ stage' = stage /\ previous' = previous
    BY DEF Finish, MakeHangul
  <1>4. Back(part)
    <2>1. Pending(part, stage, jongJoined)
      BY <1>1, <1>3 DEF TurnInv
    <2>2. part \in Seq(Single)
      BY <1>2, <1>3
    <2>. QED BY <2>1, <2>2, PendingBack
  <1>5. complete <= read /\ read <= Len(letters)
    BY <1>2, <1>3
  <1>6. res \in Seq(Seq(Letter)) /\ Disassemble(res) = SubSeq(letters, 1, read)
    BY ONLY <1>2, <1>4, <1>5, MakeKeeps
  <1>. HIDE DEF res
  <1>7. TurnInv(letters, read, stage, previous, FALSE, read, res)
    <2>1. read \in 0 .. read /\ ~(read < read)
      BY <1>2
    <2>. QED BY <1>2, <1>3, <1>6, <2>1 DEF TurnInv
  <1>8. hangul # << >>
    BY <1>1, <1>2, <1>3, NoLetters DEF HangulInv
  <1>9. TurnInv(letters, read, stage, previous, jongJoined, complete, result)'
    BY <1>3, <1>7
  <1>. QED BY <1>3, <1>8, <1>9 DEF HangulInv

LEMMA TextLetters ==
    ASSUME NEW word \in HangulTexts
    PROVE  word \in Seq(Seq(Letter)) /\ Disassemble(word) \in Seq(Single)
  <1>. DEFINE U == Seq(STRING)
              V == Seq(Letter)
  <1>1. word \in Seq(U)
    BY HangulAssumption
  <1>2. U \subseteq V
    <2>1. \A s \in STRING : s \in Letter
      BY DEF Letter
    <2>2. ASSUME NEW u \in Seq(STRING) PROVE u \in Seq(Letter)
      <3>1. /\ Len(u) \in Nat /\ u = [i \in 1 .. Len(u) |-> u[i]]
            /\ \A i \in 1 .. Len(u) : u[i] \in STRING
        OBVIOUS
      <3>2. \A i \in 1 .. Len(u) : u[i] \in Letter
        BY <2>1, <3>1
      <3>. QED BY ONLY <3>1, <3>2
    <2>. QED BY <2>2
  <1>. HIDE DEF U, V
  <1>3. word \in Seq(V)
    BY <1>1, <1>2
  <1>. QED BY <1>3, DisassembleType DEF V

LEMMA BeginStep == HangulInv /\ BeginAssemble => HangulInv'
  <1>. SUFFICES ASSUME HangulInv, BeginAssemble PROVE HangulInv'
    OBVIOUS
  <1>1. /\ hangul = << >> /\ hangul' \in HangulTexts
        /\ letters' = Disassemble(hangul') /\ read' = read /\ stage' = stage
        /\ previous' = previous /\ jongJoined' = jongJoined
        /\ complete' = complete /\ result' = result
    BY DEF BeginAssemble
  <1>2. TurnInv(letters, read, stage, previous, jongJoined, complete, result)
        /\ letters = Disassemble(<< >>) /\ stage = 0 /\ result = << >>
    BY <1>1 DEF HangulInv
  <1>3. read = 0 /\ complete = 0 /\ letters = << >>
    BY <1>2, NoLetters
  <1>. DEFINE new == Disassemble(hangul')
  <1>4. new \in Seq(Single)
    BY <1>1, TextLetters
  <1>. HIDE DEF new
  <1>5. SubSeq(new, 1, 0) = SubSeq(letters, 1, 0)
    <2>1. << >> \in Seq(Single)
      OBVIOUS
    <2>2. SubSeq(new, 1, 0) = << >> /\ SubSeq(<< >>, 1, 0) = << >>
      BY <1>4, <2>1
    <2>. QED BY <1>3, <2>2
  <1>6. TurnInv(new, 0, 0, previous, jongJoined, 0, result)
    <2>1. 0 \in 0 .. Len(new) /\ 0 \in 0 .. 0 /\ ~(0 < 0)
      BY <1>4
    <2>. QED BY <1>2, <1>3, <1>4, <1>5, <2>1 DEF TurnInv
  <1>7. TurnInv(letters, read, stage, previous, jongJoined, complete, result)'
    BY <1>1, <1>2, <1>3, <1>6 DEF new
  <1>. QED BY <1>1, <1>2, <1>7 DEF HangulInv

LEMMA InitHangulInv == HangulInit => HangulInv
  <1>. SUFFICES ASSUME HangulInit PROVE HangulInv
    OBVIOUS
  <1>1. /\ hangul = << >> /\ letters = << >> /\ read = 0 /\ stage = 0
        /\ previous = "" /\ jongJoined = FALSE /\ complete = 0 /\ result = << >>
    BY DEF HangulInit
  <1>2. Disassemble(<< >>) = << >>
    BY DisassembleNothing
  <1>3. TurnInv(<< >>, 0, 0, "", FALSE, 0, << >>)
    <2>1. << >> \in Seq(Single) /\ << >> \in Seq(Seq(Letter)) /\ Len(<< >>) = 0
          /\ 0 \in 0 .. 0 /\ SubSeq(<< >>, 1, 0) = << >> /\ ~(0 < 0)
      OBVIOUS
    <2>. QED BY <1>2, <2>1 DEF TurnInv
  <1>. QED BY <1>1, <1>2, <1>3 DEF HangulInv

LEMMA NextHangulInv == HangulInv /\ [HangulNext]_hangulVars => HangulInv'
  <1>. SUFFICES ASSUME HangulInv, [HangulNext]_hangulVars PROVE HangulInv'
    OBVIOUS
  <1>1. CASE UNCHANGED hangulVars
    <2>1. /\ hangul' = hangul /\ letters' = letters /\ read' = read
          /\ stage' = stage /\ previous' = previous /\ jongJoined' = jongJoined
          /\ complete' = complete /\ result' = result
      BY <1>1 DEF hangulVars
    <2>2. TurnInv(letters, read, stage, previous, jongJoined, complete, result)
      BY DEF HangulInv
    <2>3. TurnInv(letters, read, stage, previous, jongJoined, complete, result)'
      BY <2>1, <2>2
    <2>. QED BY <2>1, <2>3 DEF HangulInv
  <1>. QED BY <1>1, BeginStep, OtherStep, ReadLetterStep, FinishStep DEF HangulNext

\* Whatever the text and however far reassembleHangul is: what it put together
\* is made of exactly the letters up to complete_index, in their order, so none
\* is dropped, doubled or turned into another.
THEOREM NoneLost == HangulSpec => []NoLetterLost
  <1>1. HangulInv => NoLetterLost
    BY DEF HangulInv, TurnInv, NoLetterLost
  <1>. QED BY <1>1, InitHangulInv, NextHangulInv, PTL DEF HangulSpec

-----------------------------------------------------------------------------
(* Where a syllable ends *)

\* The letters r begin with those of a syllable, and another one follows if
\* there are more.
Ahead(r, vn, fn) ==
    /\ vn \in {1, 2} /\ fn \in {0, 1, 2}
    /\ Len(r) \in Nat /\ Len(r) >= 1 + vn + fn
    /\ r[1] \in Initials
    /\ \/ vn = 1 /\ r[2] \in BasicVowels
       \/ vn = 2 /\ Joinable(ComplexVowels, r[2], r[3])
    /\ \/ fn = 0
       \/ fn = 1 /\ r[vn + 2] \in BasicFinals
       \/ fn = 2 /\ Joinable(ComplexConsonants, r[vn + 2], r[vn + 3])
    /\ Len(r) > 1 + vn + fn =>
         /\ Len(r) >= 3 + vn + fn
         /\ r[2 + vn + fn] \in Initials /\ r[3 + vn + fn] \in BasicVowels

\* Vowels and consonants are apart.
LEMMA Kinds ==
    /\ \A x : x \in BasicVowels => x \notin Initials
    /\ \A x : x \in BasicFinals => x \in Initials /\ x \notin BasicVowels
    /\ \A a, b : Joinable(ComplexConsonants, a, b) =>
           a \in BasicFinals /\ b \in BasicFinals
    /\ \A a, b : Joinable(ComplexVowels, a, b) =>
           a \in BasicVowels /\ b \in BasicVowels
  BY Alphabet, JoinedLetters DEF BasicVowels

\* How the letters after complete_index look.
LEMMA AheadForms ==
    ASSUME NEW r, NEW vn, NEW fn, Ahead(r, vn, fn)
    PROVE  /\ Len(r) \in Nat /\ r[1] \in Initials /\ r[2] \in BasicVowels
           /\ vn \in {1, 2} /\ fn \in {0, 1, 2}
           /\ vn = 1 /\ fn = 0 =>
                /\ Len(r) >= 2
                /\ Len(r) > 2 => /\ Len(r) >= 4 /\ r[3] \in Initials
                                 /\ r[4] \in BasicVowels
           /\ vn = 1 /\ fn = 1 =>
                /\ Len(r) >= 3 /\ r[3] \in BasicFinals
                /\ Len(r) > 3 => /\ Len(r) >= 5 /\ r[4] \in Initials
                                 /\ r[5] \in BasicVowels
           /\ vn = 1 /\ fn = 2 =>
                /\ Len(r) >= 4 /\ r[3] \in BasicFinals /\ r[4] \in BasicFinals
                /\ Joinable(ComplexConsonants, r[3], r[4])
                /\ Len(r) > 4 => /\ Len(r) >= 6 /\ r[5] \in Initials
                                 /\ r[6] \in BasicVowels
           /\ vn = 2 /\ fn = 0 =>
                /\ Len(r) >= 3 /\ r[3] \in BasicVowels
                /\ Joinable(ComplexVowels, r[2], r[3])
                /\ Len(r) > 3 => /\ Len(r) >= 5 /\ r[4] \in Initials
                                 /\ r[5] \in BasicVowels
           /\ vn = 2 /\ fn = 1 =>
                /\ Len(r) >= 4 /\ r[3] \in BasicVowels /\ r[4] \in BasicFinals
                /\ Joinable(ComplexVowels, r[2], r[3])
                /\ Len(r) > 4 => /\ Len(r) >= 6 /\ r[5] \in Initials
                                 /\ r[6] \in BasicVowels
           /\ vn = 2 /\ fn = 2 =>
                /\ Len(r) >= 5 /\ r[3] \in BasicVowels
                /\ r[4] \in BasicFinals /\ r[5] \in BasicFinals
                /\ Joinable(ComplexVowels, r[2], r[3])
                /\ Joinable(ComplexConsonants, r[4], r[5])
                /\ Len(r) > 5 => /\ Len(r) >= 7 /\ r[6] \in Initials
                                 /\ r[7] \in BasicVowels
  <1>0. /\ vn \in {1, 2} /\ fn \in {0, 1, 2} /\ Len(r) \in Nat
        /\ r[1] \in Initials /\ r[2] \in BasicVowels
    BY Kinds DEF Ahead
  <1>. DEFINE L == Len(r)
  <1>1. CASE vn = 1 /\ fn = 0
    <2>1. /\ 1 + vn + fn = 2 /\ 2 + vn + fn = 3 /\ 3 + vn + fn = 4
      BY <1>1
    <2>. QED BY <1>0, <1>1, <2>1 DEF Ahead
  <1>2. CASE vn = 1 /\ fn = 1
    <2>1. /\ 1 + vn + fn = 3 /\ 2 + vn + fn = 4 /\ 3 + vn + fn = 5
          /\ vn + 2 = 3
      BY <1>2
    <2>. QED BY <1>0, <1>2, <2>1 DEF Ahead
  <1>3. CASE vn = 1 /\ fn = 2
    <2>1. /\ 1 + vn + fn = 4 /\ 2 + vn + fn = 5 /\ 3 + vn + fn = 6
          /\ vn + 2 = 3 /\ vn + 3 = 4
      BY <1>3
    <2>. QED BY <1>0, <1>3, <2>1, Kinds DEF Ahead
  <1>4. CASE vn = 2 /\ fn = 0
    <2>1. /\ 1 + vn + fn = 3 /\ 2 + vn + fn = 4 /\ 3 + vn + fn = 5
      BY <1>4
    <2>. QED BY <1>0, <1>4, <2>1, Kinds DEF Ahead
  <1>5. CASE vn = 2 /\ fn = 1
    <2>1. /\ 1 + vn + fn = 4 /\ 2 + vn + fn = 5 /\ 3 + vn + fn = 6
          /\ vn + 2 = 4
      BY <1>5
    <2>. QED BY <1>0, <1>5, <2>1, Kinds DEF Ahead
  <1>6. CASE vn = 2 /\ fn = 2
    <2>1. /\ 1 + vn + fn = 5 /\ 2 + vn + fn = 6 /\ 3 + vn + fn = 7
          /\ vn + 2 = 4 /\ vn + 3 = 5
      BY <1>6
    <2>. QED BY <1>0, <1>6, <2>1, Kinds DEF Ahead
  <1>. QED BY <1>0, <1>1, <1>2, <1>3, <1>4, <1>5, <1>6

\* The first letters of r.
Taken(r, p) ==
    /\ Len(p) \in Nat /\ Len(p) <= Len(r)
    /\ Len(p) >= 1 => p[1] = r[1]
    /\ Len(p) >= 2 => p[2] = r[2]
    /\ Len(p) >= 3 => p[3] = r[3]
    /\ Len(p) >= 4 => p[4] = r[4]
    /\ Len(p) >= 5 => p[5] = r[5]

\* A letter that cannot follow the vowel ends the syllable.
LEMMA EndsAtVowel ==
    ASSUME NEW r, NEW p, NEW vn, NEW fn, NEW v, Ahead(r, vn, fn), Taken(r, p),
           Syl(p, v, 0), Len(p) < Len(r), NEW x, x = r[Len(p) + 1],
           x \notin BasicFinals,
           x \notin BasicVowels \/ ~Joinable(ComplexVowels, p[Len(p)], x)
    PROVE  Syl(p, vn, fn)
  <1>0. v \in {1, 2}
    BY SylSizes
  <1>1. CASE v = 1
    <2>1. /\ Len(p) = 2 /\ p[1] \in Initials /\ p[2] \in BasicVowels
      BY <1>1, SylForms
    <2>2. p[2] = r[2] /\ x = r[3] /\ Len(r) > 2
      BY <2>1 DEF Taken
    <2>3. vn = 1 /\ fn = 0
      BY <2>1, <2>2, AheadForms
    <2>. QED BY <1>1, <2>3
  <1>2. CASE v = 2
    <2>1. /\ Len(p) = 3 /\ p[1] \in Initials
          /\ Joinable(ComplexVowels, p[2], p[3])
      BY <1>2, SylForms
    <2>2. p[2] = r[2] /\ p[3] = r[3] /\ x = r[4] /\ Len(r) > 3
      BY <2>1 DEF Taken
    <2>3. vn = 2 /\ fn = 0
      BY <2>1, <2>2, AheadForms, Kinds
    <2>. QED BY <1>2, <2>3
  <1>. QED BY <1>0, <1>1, <1>2

\* A vowel takes the last final of the letters before it.
LEMMA EndsBeforeFinal ==
    ASSUME NEW r, NEW p, NEW vn, NEW fn, NEW v, NEW f,
           Ahead(r, vn, fn), Taken(r, p), Syl(p, v, f), f \in {1, 2},
           Len(p) < Len(r), NEW x, x = r[Len(p) + 1], x \in BasicVowels
    PROVE  vn = v /\ fn = f - 1
  <1>0. v \in {1, 2}
    BY SylSizes
  <1>1. CASE v = 1 /\ f = 1
    <2>1. Len(p) = 3 /\ p[3] \in BasicFinals
      BY <1>1, SylForms
    <2>2. p[3] = r[3] /\ x = r[4] /\ Len(r) > 3
      BY <2>1 DEF Taken
    <2>3. vn = 1 /\ fn = 0
      BY <2>1, <2>2, AheadForms, Kinds
    <2>. QED BY <1>1, <2>3
  <1>2. CASE v = 1 /\ f = 2
    <2>1. Len(p) = 4 /\ p[3] \in BasicFinals /\ p[4] \in BasicFinals
      BY <1>2, SylForms, Kinds
    <2>2. p[3] = r[3] /\ p[4] = r[4] /\ x = r[5] /\ Len(r) > 4
      BY <2>1 DEF Taken
    <2>3. vn = 1 /\ fn = 1
      BY <2>1, <2>2, AheadForms, Kinds
    <2>. QED BY <1>2, <2>3
  <1>3. CASE v = 2 /\ f = 1
    <2>1. Len(p) = 4 /\ p[3] \in BasicVowels /\ p[4] \in BasicFinals
      BY <1>3, SylForms, Kinds
    <2>2. p[3] = r[3] /\ p[4] = r[4] /\ x = r[5] /\ Len(r) > 4
      BY <2>1 DEF Taken
    <2>3. vn = 2 /\ fn = 0
      BY <2>1, <2>2, AheadForms, Kinds
    <2>. QED BY <1>3, <2>3
  <1>4. CASE v = 2 /\ f = 2
    <2>1. /\ Len(p) = 5 /\ p[3] \in BasicVowels /\ p[4] \in BasicFinals
          /\ p[5] \in BasicFinals
      BY <1>4, SylForms, Kinds
    <2>2. p[3] = r[3] /\ p[4] = r[4] /\ p[5] = r[5] /\ x = r[6] /\ Len(r) > 5
      BY <2>1 DEF Taken
    <2>3. vn = 2 /\ fn = 1
      BY <2>1, <2>2, AheadForms, Kinds
    <2>. QED BY <1>4, <2>3
  <1>. QED BY <1>0, <1>1, <1>2, <1>3, <1>4

\* A consonant that does not join the final ends the syllable.
LEMMA EndsAtFinal ==
    ASSUME NEW r, NEW p, NEW vn, NEW fn, NEW v, NEW f,
           Ahead(r, vn, fn), Taken(r, p), Syl(p, v, f), f \in {1, 2},
           Len(p) < Len(r), NEW x, x = r[Len(p) + 1], x \notin BasicVowels,
           ~ (f = 1 /\ x \in BasicFinals
              /\ Joinable(ComplexConsonants, p[Len(p)], x))
    PROVE  Syl(p, vn, fn)
  <1>0. v \in {1, 2}
    BY SylSizes
  <1>1. CASE v = 1 /\ f = 1
    <2>1. Len(p) = 3 /\ p[3] \in BasicFinals
      BY <1>1, SylForms
    <2>2. p[3] = r[3] /\ x = r[4] /\ Len(r) > 3
      BY <2>1 DEF Taken
    <2>3. vn = 1 /\ fn = 1
      BY <1>1, <2>1, <2>2, AheadForms, Kinds
    <2>. QED BY <1>1, <2>3
  <1>2. CASE v = 1 /\ f = 2
    <2>1. Len(p) = 4 /\ p[3] \in BasicFinals /\ p[4] \in BasicFinals
      BY <1>2, SylForms, Kinds
    <2>2. p[3] = r[3] /\ p[4] = r[4] /\ x = r[5] /\ Len(r) > 4
      BY <2>1 DEF Taken
    <2>3. vn = 1 /\ fn = 2
      BY <2>1, <2>2, AheadForms, Kinds
    <2>. QED BY <1>2, <2>3
  <1>3. CASE v = 2 /\ f = 1
    <2>1. Len(p) = 4 /\ p[3] \in BasicVowels /\ p[4] \in BasicFinals
      BY <1>3, SylForms, Kinds
    <2>2. p[3] = r[3] /\ p[4] = r[4] /\ x = r[5] /\ Len(r) > 4
      BY <2>1 DEF Taken
    <2>3. vn = 2 /\ fn = 1
      BY <1>3, <2>1, <2>2, AheadForms, Kinds
    <2>. QED BY <1>3, <2>3
  <1>4. CASE v = 2 /\ f = 2
    <2>1. /\ Len(p) = 5 /\ p[3] \in BasicVowels /\ p[4] \in BasicFinals
          /\ p[5] \in BasicFinals
      BY <1>4, SylForms, Kinds
    <2>2. p[3] = r[3] /\ p[4] = r[4] /\ p[5] = r[5] /\ x = r[6] /\ Len(r) > 5
      BY <2>1 DEF Taken
    <2>3. vn = 2 /\ fn = 2
      BY <2>1, <2>2, AheadForms, Kinds
    <2>. QED BY <1>4, <2>3
  <1>. QED BY <1>0, <1>1, <1>2, <1>3, <1>4

\* Letters of a syllable that are all there is left are all of it.
LEMMA EndsAtEnd ==
    ASSUME NEW r, NEW p, NEW vn, NEW fn, NEW v, NEW f,
           Ahead(r, vn, fn), Taken(r, p), Syl(p, v, f), Len(p) = Len(r)
    PROVE  Syl(p, vn, fn)
  <1>0. v \in {1, 2} /\ f \in {0, 1, 2}
    BY SylSizes
  <1>1. CASE v = 1 /\ f = 0
    <2>1. Len(p) = 2 /\ p[2] \in BasicVowels
      BY <1>1, SylForms
    <2>2. Len(r) = 2
      BY ONLY <2>1, Len(p) = Len(r)
    <2>3. vn = 1 /\ fn = 0
      BY ONLY <2>2, AheadForms, Ahead(r, vn, fn)
    <2>. QED BY <1>1, <2>3
  <1>2. CASE v = 1 /\ f = 1
    <2>1. Len(p) = 3 /\ p[3] \in BasicFinals
      BY <1>2, SylForms
    <2>2. p[3] = r[3] /\ Len(r) = 3
      BY <2>1 DEF Taken
    <2>3. vn = 1 /\ fn = 1
      BY <2>1, <2>2, AheadForms, Kinds
    <2>. QED BY <1>2, <2>3
  <1>3. CASE v = 1 /\ f = 2
    <2>1. Len(p) = 4 /\ p[3] \in BasicFinals /\ p[4] \in BasicFinals
      BY <1>3, SylForms, Kinds
    <2>2. p[3] = r[3] /\ p[4] = r[4] /\ Len(r) = 4
      BY <2>1 DEF Taken
    <2>3. vn = 1 /\ fn = 2
      BY <2>1, <2>2, AheadForms, Kinds
    <2>. QED BY <1>3, <2>3
  <1>4. CASE v = 2 /\ f = 0
    <2>1. Len(p) = 3 /\ p[3] \in BasicVowels
      BY <1>4, SylForms, Kinds
    <2>2. p[3] = r[3] /\ Len(r) = 3
      BY <2>1 DEF Taken
    <2>3. vn = 2 /\ fn = 0
      BY <2>1, <2>2, AheadForms, Kinds
    <2>. QED BY <1>4, <2>3
  <1>5. CASE v = 2 /\ f = 1
    <2>1. Len(p) = 4 /\ p[3] \in BasicVowels /\ p[4] \in BasicFinals
      BY <1>5, SylForms, Kinds
    <2>2. p[3] = r[3] /\ p[4] = r[4] /\ Len(r) = 4
      BY <2>1 DEF Taken
    <2>3. vn = 2 /\ fn = 1
      <3>1. r[3] \in BasicVowels /\ r[4] \in BasicFinals /\ Len(r) = 4
        BY ONLY <2>1, <2>2
      <3>. QED BY ONLY <3>1, AheadForms, Kinds, Ahead(r, vn, fn), SMTT(30)
    <2>. QED BY <1>5, <2>3
  <1>6. CASE v = 2 /\ f = 2
    <2>1. /\ Len(p) = 5 /\ p[3] \in BasicVowels /\ p[4] \in BasicFinals
          /\ p[5] \in BasicFinals
      BY <1>6, SylForms, Kinds
    <2>2. p[3] = r[3] /\ p[4] = r[4] /\ p[5] = r[5] /\ Len(r) = 5
      BY <2>1 DEF Taken
    <2>3. r[3] \in BasicVowels /\ r[4] \in BasicFinals /\ r[5] \in BasicFinals
      BY ONLY <2>1, <2>2
    <2>4. vn \in {1, 2} /\ fn \in {0, 1, 2} /\ Len(r) \in Nat
      BY AheadForms
    <2>5. vn # 1
      BY ONLY <2>2, <2>3, <2>4, AheadForms, Kinds, Ahead(r, vn, fn), SMTT(30)
    <2>6. fn # 0
      BY ONLY <2>2, <2>3, <2>4, <2>5, AheadForms, Kinds, Ahead(r, vn, fn)
    <2>7. fn # 1
      <3>1. SUFFICES ASSUME fn = 1 PROVE FALSE
        OBVIOUS
      <3>2. vn = 2
        BY <2>4, <2>5
      <3>3. Len(r) > 4 => Len(r) >= 6
        BY <3>1, <3>2, AheadForms
      <3>. QED BY ONLY <2>2, <3>3
    <2>8. vn = 2 /\ fn = 2
      BY ONLY <2>4, <2>5, <2>6, <2>7
    <2>. QED BY <1>6, <2>8
  <1>. QED BY <1>0, <1>1, <1>2, <1>3, <1>4, <1>5, <1>6

-----------------------------------------------------------------------------
(* Texts of whole syllables *)

\* The characters that are syllables.
Syllables == Initials \X Vowels \X (Finals \cup {""})

\* A text of whole syllables.
Whole(word) == \A k \in DOMAIN word : Len(word[k]) = 3

LEMMA WholeText ==
    ASSUME NEW word \in HangulTexts, Whole(word)
    PROVE  /\ word \in Seq(Seq(Letter))
           /\ \A k \in 1 .. Len(word) : word[k] \in Syllables
  <1>1. word \in Seq(Seq(Letter))
    BY TextLetters
  <1>2. DOMAIN word = 1 .. Len(word)
    BY <1>1
  <1>3. ASSUME NEW k \in 1 .. Len(word) PROVE word[k] \in Syllables
    <2>1. Len(word[k]) = 3
      BY <1>2 DEF Whole
    <2>2. word[k] \in Syllables \/ Len(word[k]) = 1
      BY <1>2, HangulAssumption DEF Syllables
    <2>. QED BY <2>1, <2>2
  <1>. QED BY <1>1, <1>3

LEMMA ThreeParts ==
    ASSUME NEW A, NEW B, NEW C, NEW c \in A \X B \X C
    PROVE  /\ c[1] \in A /\ c[2] \in B /\ c[3] \in C
           /\ c = << c[1], c[2], c[3] >>
  OBVIOUS

\* Letters written in two ways are the same.
LEMMA WrittenIs ==
    ASSUME NEW S, NEW i \in S, NEW vs \in Seq(S), NEW fs \in Seq(S)
    PROVE  /\ Written(S, << i >> \o vs \o fs, vs, fs)
           /\ (<< i >> \o vs \o fs)[1] = i
  <1>. DEFINE a == << i >>
              b == a \o vs
              d == b \o fs
  <1>1. Len(a) = 1 /\ a[1] = i /\ a \in Seq(S)
    OBVIOUS
  <1>. HIDE DEF a
  <1>2. /\ b \in Seq(S) /\ Len(b) = Len(a) + Len(vs)
        /\ \A k \in 1 .. Len(a) : b[k] = a[k]
        /\ \A k \in 1 .. Len(vs) : b[Len(a) + k] = vs[k]
    <2>1. a \in Seq(S) /\ vs \in Seq(S)
      BY <1>1
    <2>. QED BY ONLY <2>1
  <1>. HIDE DEF b
  <1>3. /\ d \in Seq(S) /\ Len(d) = Len(b) + Len(fs)
        /\ \A k \in 1 .. Len(b) : d[k] = b[k]
        /\ \A k \in 1 .. Len(fs) : d[Len(b) + k] = fs[k]
    <2>1. b \in Seq(S) /\ fs \in Seq(S)
      BY <1>2
    <2>. QED BY ONLY <2>1
  <1>. HIDE DEF d
  <1>4. Len(vs) \in Nat /\ Len(fs) \in Nat
    OBVIOUS
  <1>5. Len(d) = 1 + Len(vs) + Len(fs) /\ Len(b) = 1 + Len(vs)
    BY <1>1, <1>2, <1>3, <1>4
  <1>6. ASSUME NEW k \in 1 .. Len(vs) PROVE d[1 + k] = vs[k]
    <2>1. 1 + k \in 1 .. Len(b) /\ Len(a) + k = 1 + k
      BY <1>1, <1>4, <1>5
    <2>. QED BY <1>2, <1>3, <2>1
  <1>7. ASSUME NEW k \in 1 .. Len(fs) PROVE d[1 + Len(vs) + k] = fs[k]
    BY <1>3, <1>5
  <1>8. d[1] = i
    <2>1. 1 \in 1 .. Len(b) /\ 1 \in 1 .. Len(a)
      BY <1>1, <1>4, <1>5
    <2>2. ASSUME NEW k \in 1 .. Len(a), k \in 1 .. Len(b) PROVE d[k] = a[k]
      BY <1>2, <1>3, <2>2
    <2>3. d[1] = a[1]
      BY <2>1, <2>2
    <2>. QED BY <1>1, <2>3
  <1>9. Written(S, d, vs, fs)
    BY <1>3, <1>5, <1>6, <1>7 DEF Written
  <1>. QED BY <1>8, <1>9 DEF a, b, d

\* A syllable taken apart, and put together again.
LEMMA SyllableSpelt ==
    ASSUME NEW c \in Syllables
    PROVE  /\ LettersOf(c) \in Seq(Single)
           /\ Character(LettersOf(c)) = c
           /\ \E vn, fn : Syl(LettersOf(c), vn, fn)
  <1>. DEFINE i == c[1]
              v == c[2]
              f == c[3]
              vs == Split(v)
              fs == Split(f)
              part == LettersOf(c)
  <1>1. /\ i \in Initials /\ v \in Vowels /\ f \in Finals \cup {""}
        /\ c = << i, v, f >>
    <2>. DEFINE F == Finals \cup {""}
    <2>1. c \in Initials \X Vowels \X F
      BY DEF Syllables
    <2>. HIDE DEF F
    <2>2. /\ c[1] \in Initials /\ c[2] \in Vowels /\ c[3] \in F
          /\ c = << c[1], c[2], c[3] >>
      BY ONLY <2>1, ThreeParts
    <2>. QED BY <2>2 DEF F
  <1>2. i \in Letter /\ v \in Letter /\ f \in Letter
    BY <1>1 DEF Letter
  <1>3. c \in Seq(Letter) /\ Len(c) = 3
    <2>1. << i, v, f >> \in Seq(Letter) /\ Len(<< i, v, f >>) = 3
      <3>. HIDE DEF i, v, f
      <3>. QED BY <1>2
    <2>. QED BY <1>1, <2>1
  <1>4. part = Spelt(i, v, f)
    BY <1>1, <1>3, LettersOfSyllable
  <1>5. part \in Seq(Single)
    BY <1>3, LettersType
  <1>6. vs \in Seq(Single) /\ fs \in Seq(Single)
    BY <1>2, SplitType
  <1>8. MakesVowel(vs, v) /\ MakesFinal(fs, f)
    BY <1>1, VowelIsMade, FinalIsMade
  <1>9. Written(Single, part, vs, fs) /\ part[1] = i
    <2>1. i \in Single
      BY <1>1, <1>2, Alphabet DEF Single
    <2>2. part = << i >> \o vs \o fs
      BY <1>4 DEF Spelt
    <2>. HIDE DEF part, vs, fs, i
    <2>. QED BY <1>6, <2>1, <2>2, WrittenIs
  <1>10. Character(part) = << part[1], v, f >>
    <2>. HIDE DEF part, vs, fs, i
    <2>. QED BY <1>1, <1>8, <1>9, SyllableOf
  <1>11. \E vn, fn : Syl(part, vn, fn)
    <2>. HIDE DEF part, i
    <2>0. /\ vs \in Seq(Single) /\ fs \in Seq(Single)
          /\ Len(part) = 1 + Len(vs) + Len(fs)
          /\ \A k \in 1 .. Len(vs) : part[1 + k] = vs[k]
          /\ \A k \in 1 .. Len(fs) : part[1 + Len(vs) + k] = fs[k]
      BY <1>9 DEF Written
    <2>1. \/ Len(vs) = 1 /\ part[2] \in BasicVowels
          \/ Len(vs) = 2 /\ Joinable(ComplexVowels, part[2], part[3])
      <3>. HIDE DEF vs, fs, v, f
      <3>1. CASE Len(vs) = 1 /\ vs[1] = v /\ v \in BasicVowels
        <4>1. ASSUME NEW k \in 1 .. Len(vs), k = 1 PROVE part[1 + 1] = vs[1]
          BY <2>0, <4>1
        <4>2. part[2] = vs[1]
          BY <3>1, <4>1
        <4>. QED BY <3>1, <4>2
      <3>2. CASE Len(vs) = 2 /\ Joins(ComplexVowels, vs[1], vs[2], v)
        <4>1. ASSUME NEW k \in 1 .. Len(vs), k = 1 PROVE part[1 + 1] = vs[1]
          BY <2>0, <4>1
        <4>2. ASSUME NEW k \in 1 .. Len(vs), k = 2 PROVE part[1 + 2] = vs[2]
          BY <2>0, <4>2
        <4>3. part[2] = vs[1] /\ part[3] = vs[2]
          BY <3>2, <4>1, <4>2
        <4>. QED BY <3>2, <4>3 DEF Joins
      <3>. QED BY <1>8, <3>1, <3>2 DEF MakesVowel
    <2>2. \/ Len(fs) = 0
          \/ Len(fs) = 1 /\ part[Len(vs) + 2] \in BasicFinals
          \/ /\ Len(fs) = 2
             /\ Joinable(ComplexConsonants, part[Len(vs) + 2], part[Len(vs) + 3])
      <3>0. Len(vs) \in Nat /\ 1 + Len(vs) + 1 = Len(vs) + 2
            /\ 1 + Len(vs) + 2 = Len(vs) + 3
        BY <1>6
      <3>1. CASE Len(fs) = 1 /\ fs[1] = f /\ f \in Finals
        <4>1. f \in BasicFinals
          <5>1. \/ f \in BasicFinals
                \/ \E a, b : Joins(ComplexConsonants, a, b, f)
            BY <3>1, FinalForms
          <5>2. ASSUME NEW a, NEW b, Joins(ComplexConsonants, a, b, f) PROVE FALSE
            <6>1. fs = << a, b >>
              BY <5>2 DEF Joins
            <6>2. Len(fs) = 2
              BY <6>1
            <6>. QED BY <3>1, <6>2
          <5>. QED BY <5>1, <5>2
        <4>. HIDE DEF vs, fs, v, f
        <4>2. ASSUME NEW k \in 1 .. Len(fs), k = 1
              PROVE  part[1 + Len(vs) + 1] = fs[1]
          BY <2>0, <4>2
        <4>3. part[Len(vs) + 2] = fs[1]
          BY <3>0, <3>1, <4>2
        <4>. QED BY <3>1, <4>1, <4>3
      <3>2. CASE Len(fs) = 2 /\ Joins(ComplexConsonants, fs[1], fs[2], f)
        <4>. HIDE DEF vs, fs, v, f
        <4>1. ASSUME NEW k \in 1 .. Len(fs), k = 1
              PROVE  part[1 + Len(vs) + 1] = fs[1]
          BY <2>0, <4>1
        <4>2. ASSUME NEW k \in 1 .. Len(fs), k = 2
              PROVE  part[1 + Len(vs) + 2] = fs[2]
          BY <2>0, <4>2
        <4>3. part[Len(vs) + 2] = fs[1] /\ part[Len(vs) + 3] = fs[2]
          BY <3>0, <3>2, <4>1, <4>2
        <4>. QED BY <3>2, <4>3 DEF Joins
      <3>. HIDE DEF vs, fs, v, f
      <3>. QED BY <1>8, <3>1, <3>2 DEF MakesFinal
    <2>. HIDE DEF vs, fs
    <2>3. part[1] \in Initials
      BY <1>1, <1>9
    <2>4. Syl(part, Len(vs), Len(fs))
      BY <2>0, <2>1, <2>2, <2>3 DEF Syl
    <2>. QED BY <2>4
  <1>. QED BY <1>1, <1>5, <1>9, <1>10, <1>11

-----------------------------------------------------------------------------
(* The beginnings of a word taken apart *)

LEMMA NextPrefix ==
    ASSUME NEW word \in Seq(Seq(Letter)), NEW n \in Nat, n + 1 <= Len(word)
    PROVE  /\ SubSeq(word, 1, n) \in Seq(Seq(Letter))
           /\ word[n + 1] \in Seq(Letter)
           /\ SubSeq(word, 1, n + 1) = Append(SubSeq(word, 1, n), word[n + 1])
           /\ Disassemble(SubSeq(word, 1, n + 1))
                = Disassemble(SubSeq(word, 1, n)) \o LettersOf(word[n + 1])
  <1>. DEFINE V == Seq(Letter)
              p == SubSeq(word, 1, n)
              q == SubSeq(word, 1, n + 1)
              c == word[n + 1]
              pc == Append(p, c)
  <1>. HIDE DEF V
  <1>0. word \in Seq(V)
    BY DEF V
  <1>1. c \in V
    BY <1>0
  <1>2. /\ p \in Seq(V) /\ Len(p) = n
        /\ \A i \in 1 .. n : p[i] = word[i]
    BY <1>0
  <1>3. /\ q \in Seq(V) /\ Len(q) = n + 1
        /\ \A i \in 1 .. n + 1 : q[i] = word[i]
    BY <1>0
  <1>. HIDE DEF p, q
  <1>4. /\ pc \in Seq(V) /\ Len(pc) = n + 1
        /\ \A i \in 1 .. n : pc[i] = p[i]
        /\ pc[n + 1] = c
    <2>. HIDE DEF c
    <2>. QED BY <1>1, <1>2
  <1>. HIDE DEF pc
  <1>5. ASSUME NEW i \in 1 .. n + 1 PROVE pc[i] = q[i]
    <2>1. i \in 1 .. n \/ i = n + 1
      OBVIOUS
    <2>. QED BY <1>2, <1>3, <1>4, <2>1
  <1>6. q = pc
    BY <1>3, <1>4, <1>5, SeqsEqual
  <1>7. Disassemble(pc) = Disassemble(p) \o LettersOf(c)
    <2>. HIDE DEF c
    <2>. QED BY <1>1, <1>2, DisassembleAppend DEF V, pc
  <1>. QED BY <1>1, <1>2, <1>6, <1>7 DEF p, q, pc, V

\* A beginning that is as long as the text is the text.
LEMMA WholeSubSeq ==
    ASSUME NEW S, NEW s \in Seq(S)
    PROVE  SubSeq(s, 1, Len(s)) = s
  <1>. DEFINE t == SubSeq(s, 1, Len(s))
  <1>1. /\ t \in Seq(S) /\ Len(t) = Len(s)
        /\ \A i \in 1 .. Len(s) : t[i] = s[i]
    OBVIOUS
  <1>. HIDE DEF t
  <1>2. t = s
    BY <1>1, SeqsEqual
  <1>. QED BY <1>2 DEF t

\* What is said of the letters of a text that begin it.
Begins(ls, d) ==
    /\ d \in Seq(Single) /\ Len(d) <= Len(ls)
    /\ \A i \in 1 .. Len(d) : ls[i] = d[i]

LEMMA PrefixBegins ==
    ASSUME NEW word \in Seq(Seq(Letter)), NEW n \in 0 .. Len(word)
    PROVE  Begins(Disassemble(word), Disassemble(SubSeq(word, 1, n)))
  <1>. DEFINE D(k) == Disassemble(SubSeq(word, 1, k))
              ls == Disassemble(word)
              P(j) == j <= Len(word) => Begins(ls, D(Len(word) - j))
              T == {j \in Nat : P(j)}
  <1>0. Len(word) \in Nat /\ ls \in Seq(Single)
    <2>1. Len(word) \in Nat
      BY ONLY word \in Seq(Seq(Letter))
    <2>2. ls \in Seq(Single)
      BY DisassembleType
    <2>. QED BY <2>1, <2>2
  <1>1. 0 \in T
    <2>1. D(Len(word)) = ls
      BY WholeSubSeq
    <2>2. Begins(ls, ls)
      <3>. HIDE DEF ls
      <3>. QED BY <1>0 DEF Begins
    <2>3. Len(word) - 0 = Len(word)
      BY <1>0
    <2>. HIDE DEF D, ls
    <2>. QED BY <2>1, <2>2, <2>3
  <1>2. ASSUME NEW j \in Nat, j \in T PROVE j + 1 \in T
    <2>1. SUFFICES ASSUME j + 1 <= Len(word) PROVE Begins(ls, D(Len(word) - (j + 1)))
      OBVIOUS
    <2>. DEFINE k == Len(word) - (j + 1)
                x == LettersOf(word[k + 1])
                d == D(k)
                e == D(k + 1)
    <2>2. k \in Nat /\ k + 1 <= Len(word) /\ k + 1 = Len(word) - j /\ j <= Len(word)
      BY <1>0, <2>1
    <2>3. Begins(ls, e)
      <3>1. Begins(ls, D(Len(word) - j))
        BY <1>2, <2>2
      <3>. HIDE DEF D, k
      <3>. QED BY <2>2, <3>1
    <2>. HIDE DEF k
    <2>4. e = d \o x
      BY <2>2, NextPrefix
    <2>5. d \in Seq(Single) /\ x \in Seq(Single)
      <3>1. SubSeq(word, 1, k) \in Seq(Seq(Letter)) /\ word[k + 1] \in Seq(Letter)
        BY <2>2, NextPrefix
      <3>. QED BY <3>1, DisassembleType, LettersType
    <2>. HIDE DEF d, e, x, ls
    <2>6. /\ Len(d \o x) = Len(d) + Len(x)
          /\ \A i \in 1 .. Len(d) : (d \o x)[i] = d[i]
          /\ Len(d) \in Nat /\ Len(x) \in Nat
      BY <2>5, ConcatFacts
    <2>7. /\ Len(e) <= Len(ls) /\ Len(ls) \in Nat
          /\ \A i \in 1 .. Len(e) : ls[i] = e[i]
      BY <1>0, <2>3 DEF Begins
    <2>8. Len(e) = Len(d) + Len(x) /\ \A i \in 1 .. Len(d) : e[i] = d[i]
      BY <2>4, <2>6
    <2>9. Len(d) <= Len(ls)
      BY <2>6, <2>7, <2>8
    <2>10. ASSUME NEW i \in 1 .. Len(d) PROVE ls[i] = d[i]
      <3>1. i \in 1 .. Len(e)
        BY <2>6, <2>8
      <3>. QED BY <2>7, <2>8, <3>1
    <2>11. Begins(ls, d)
      BY <2>5, <2>9, <2>10 DEF Begins
    <2>. QED BY <2>11 DEF d, k
  <1>. HIDE DEF P
  <1>3. Nat \subseteq T
    BY <1>1, <1>2, SetInduction
  <1>4. Len(word) - n \in Nat /\ Len(word) - n <= Len(word)
        /\ Len(word) - (Len(word) - n) = n
    BY <1>0
  <1>5. P(Len(word) - n)
    BY <1>3, <1>4
  <1>6. Begins(ls, D(Len(word) - (Len(word) - n)))
    BY <1>4, <1>5 DEF P
  <1>. QED BY <1>4, <1>6

-----------------------------------------------------------------------------
(* The letters of the goal syllable *)

\* How many letters the first n characters of a text have.
LettersBefore(word, n) == Len(Disassemble(SubSeq(word, 1, n)))

\* Where the letters of a character are among those of the text.
LEMMA LettersAt ==
    ASSUME NEW word \in Seq(Seq(Letter)), NEW n \in Nat, n + 1 <= Len(word)
    PROVE  /\ LettersBefore(word, n) \in Nat
           /\ LettersOf(word[n + 1]) \in Seq(Single)
           /\ Len(LettersOf(word[n + 1])) \in Nat
           /\ LettersBefore(word, n + 1)
                = LettersBefore(word, n) + Len(LettersOf(word[n + 1]))
           /\ LettersBefore(word, n + 1) <= Len(Disassemble(word))
           /\ Len(Disassemble(word)) \in Nat
           /\ n + 1 = Len(word)
                => LettersBefore(word, n + 1) = Len(Disassemble(word))
           /\ \A k \in 1 .. Len(LettersOf(word[n + 1])) :
                 Disassemble(word)[LettersBefore(word, n) + k]
                   = LettersOf(word[n + 1])[k]
  <1>. DEFINE d == Disassemble(SubSeq(word, 1, n))
              e == Disassemble(SubSeq(word, 1, n + 1))
              x == LettersOf(word[n + 1])
              ls == Disassemble(word)
  <1>1. e = d \o x
    BY NextPrefix
  <1>2. d \in Seq(Single) /\ x \in Seq(Single)
    <2>1. SubSeq(word, 1, n) \in Seq(Seq(Letter)) /\ word[n + 1] \in Seq(Letter)
      BY NextPrefix
    <2>. QED BY <2>1, DisassembleType, LettersType
  <1>3. Begins(ls, e)
    <2>1. n + 1 \in 0 .. Len(word)
      OBVIOUS
    <2>. QED BY <2>1, PrefixBegins
  <1>4. ls \in Seq(Single)
    BY DisassembleType
  <1>5. n + 1 = Len(word) => e = ls
    BY WholeSubSeq
  <1>. HIDE DEF d, e, x, ls
  <1>6. /\ Len(e) = Len(d) + Len(x)
        /\ \A k \in 1 .. Len(x) : e[Len(d) + k] = x[k]
        /\ Len(d) \in Nat /\ Len(x) \in Nat /\ Len(ls) \in Nat
    <2>1. /\ Len(d \o x) = Len(d) + Len(x)
          /\ \A k \in 1 .. Len(x) : (d \o x)[Len(d) + k] = x[k]
      BY <1>2, ConcatFacts
    <2>. QED BY <1>1, <1>2, <1>4, <2>1
  <1>7. Len(e) <= Len(ls) /\ \A k \in 1 .. Len(e) : ls[k] = e[k]
    BY <1>3 DEF Begins
  <1>8. ASSUME NEW k \in 1 .. Len(x) PROVE ls[Len(d) + k] = x[k]
    <2>1. Len(d) + k \in 1 .. Len(e)
      BY <1>6
    <2>. QED BY <1>6, <1>7, <2>1
  <1>9. n + 1 = Len(word) => Len(e) = Len(ls)
    BY <1>5
  <1>. QED BY <1>2, <1>6, <1>7, <1>8, <1>9 DEF LettersBefore, d, e, x, ls

\* The letters of a syllable begin with an initial and a vowel.
LEMMA SylBegins ==
    ASSUME NEW p, NEW vn, NEW fn, Syl(p, vn, fn)
    PROVE  Len(p) >= 2 /\ p[1] \in Initials /\ p[2] \in BasicVowels
  <1>1. vn \in {1, 2} /\ fn \in {0, 1, 2} /\ Len(p) = 1 + vn + fn
    BY DEF Syl
  <1>. QED BY <1>1, Kinds DEF Syl

\* They are all initials and vowels.
LEMMA SylLetters ==
    ASSUME NEW p, NEW vn, NEW fn, Syl(p, vn, fn), NEW k \in 1 .. Len(p)
    PROVE  IsLetter(p[k])
  <1>0. /\ BasicFinals \subseteq Finals /\ BasicVowels \subseteq Vowels
    BY DEF BasicFinals, BasicVowels
  <1>1. vn \in {1, 2} /\ fn \in {0, 1, 2}
    BY SylSizes
  <1>. DEFINE Good(z) == z \in Initials \/ z \in BasicVowels \/ z \in BasicFinals
  <1>2. Len(p) \in 2 .. 5
    BY <1>1 DEF Syl
  <1>3. /\ Good(p[1]) /\ Good(p[2])
        /\ Len(p) >= 3 => Good(p[3])
        /\ Len(p) >= 4 => Good(p[4])
        /\ Len(p) >= 5 => Good(p[5])
    <2>1. CASE vn = 1
      BY <1>1, <2>1, SylForms, Kinds
    <2>2. CASE vn = 2
      BY <1>1, <2>2, SylForms, Kinds
    <2>. QED BY <1>1, <2>1, <2>2
  <1>. HIDE DEF Good
  <1>4. k \in {1, 2, 3, 4, 5} /\ k <= Len(p)
    <2>. DEFINE n == Len(p)
    <2>1. n \in 2 .. 5 /\ k \in 1 .. n
      BY <1>2
    <2>. HIDE DEF n
    <2>2. k \in {1, 2, 3, 4, 5} /\ k <= n
      BY ONLY <2>1
    <2>. QED BY <2>2 DEF n
  <1>5. Good(p[k])
    BY <1>3, <1>4
  <1>. QED BY <1>0, <1>5 DEF Good, IsLetter

\* The letters after the first n characters of a text of syllables.
LEMMA NextSyllable ==
    ASSUME NEW word \in Seq(Seq(Letter)), NEW n \in Nat, n + 1 <= Len(word),
           \A k \in 1 .. Len(word) : word[k] \in Syllables,
           NEW r \in Seq(Single),
           Len(r) = Len(Disassemble(word)) - LettersBefore(word, n),
           \A k \in 1 .. Len(r) :
               r[k] = Disassemble(word)[LettersBefore(word, n) + k]
    PROVE  /\ Len(LettersOf(word[n + 1])) <= Len(r)
           /\ \A k \in 1 .. Len(LettersOf(word[n + 1])) :
                 r[k] = LettersOf(word[n + 1])[k]
           /\ \E vn, fn : /\ Syl(LettersOf(word[n + 1]), vn, fn)
                          /\ Ahead(r, vn, fn)
  <1>. DEFINE ls == Disassemble(word)
              c == LettersBefore(word, n)
              x == LettersOf(word[n + 1])
  <1>1. /\ c \in Nat /\ x \in Seq(Single) /\ Len(x) \in Nat /\ Len(ls) \in Nat
        /\ LettersBefore(word, n + 1) = c + Len(x)
        /\ LettersBefore(word, n + 1) <= Len(ls)
        /\ n + 1 = Len(word) => LettersBefore(word, n + 1) = Len(ls)
        /\ \A k \in 1 .. Len(x) : ls[c + k] = x[k]
    BY LettersAt
  <1>2. \E vn, fn : Syl(x, vn, fn)
    <2>1. word[n + 1] \in Syllables
      OBVIOUS
    <2>. QED BY <2>1, SyllableSpelt
  <1>3. Len(r) > Len(x) => /\ Len(r) >= 2 + Len(x)
                           /\ r[1 + Len(x)] \in Initials
                           /\ r[2 + Len(x)] \in BasicVowels
    <2>1. SUFFICES ASSUME Len(r) > Len(x)
                   PROVE  /\ Len(r) >= 2 + Len(x)
                          /\ r[1 + Len(x)] \in Initials
                          /\ r[2 + Len(x)] \in BasicVowels
      OBVIOUS
    <2>. DEFINE n1 == n + 1
                y == LettersOf(word[n1 + 1])
    <2>2. n1 \in Nat /\ n1 + 1 <= Len(word)
      <3>1. Len(word) \in Nat
        BY ONLY word \in Seq(Seq(Letter))
      <3>2. n + 1 # Len(word)
        BY <1>1, <2>1
      <3>. QED BY <3>1, <3>2
    <2>3. /\ Len(y) \in Nat
          /\ LettersBefore(word, n1 + 1) = LettersBefore(word, n1) + Len(y)
          /\ LettersBefore(word, n1 + 1) <= Len(ls)
          /\ \A k \in 1 .. Len(y) : ls[LettersBefore(word, n1) + k] = y[k]
      BY <2>2, LettersAt
    <2>4. PICK vn, fn : Syl(y, vn, fn)
      <3>1. word[n1 + 1] \in Syllables
        BY <2>2
      <3>. QED BY <3>1, SyllableSpelt
    <2>5. Len(y) >= 2 /\ y[1] \in Initials /\ y[2] \in BasicVowels
      BY <2>4, SylBegins
    <2>6. LettersBefore(word, n1) = c + Len(x)
      BY <1>1
    <2>. HIDE DEF ls, c, x, y, n1
    <2>7. Len(r) = Len(ls) - c /\ \A k \in 1 .. Len(r) : r[k] = ls[c + k]
      BY DEF ls, c
    <2>8. Len(r) >= 2 + Len(x)
      <3>. DEFINE b == LettersBefore(word, n1)
                  e == LettersBefore(word, n1 + 1)
      <3>1. e = b + Len(y) /\ b = c + Len(x) /\ e <= Len(ls)
        BY <2>3, <2>6
      <3>. DEFINE xn == Len(x)
                  yn == Len(y)
                  lsn == Len(ls)
                  rn == Len(r)
      <3>2. /\ c \in Nat /\ xn \in Nat /\ yn \in Nat /\ yn >= 2
            /\ lsn \in Nat /\ rn = lsn - c
        BY <1>1, <2>3, <2>5, <2>7
      <3>. HIDE DEF b, e, xn, yn, lsn, rn
      <3>3. e = b + yn /\ b = c + xn /\ e <= lsn
        BY <3>1 DEF xn, yn, lsn
      <3>4. rn >= 2 + xn
        BY ONLY <3>2, <3>3
      <3>. QED BY <3>4 DEF rn, xn
    <2>9. ASSUME NEW k \in 1 .. 2 PROVE r[k + Len(x)] = y[k]
      <3>. DEFINE xn == Len(x)
                  yn == Len(y)
                  rn == Len(r)
      <3>0. /\ c \in Nat /\ xn \in Nat /\ yn \in Nat /\ yn >= 2
            /\ rn \in Nat /\ rn >= 2 + xn
        BY <1>1, <2>3, <2>5, <2>7, <2>8
      <3>. HIDE DEF xn, yn, rn
      <3>9. k + xn \in 1 .. rn /\ k \in 1 .. yn /\ c + (k + xn) = (c + xn) + k
        BY ONLY <3>0, k \in 1 .. 2
      <3>1. /\ k + Len(x) \in 1 .. Len(r) /\ k \in 1 .. Len(y)
            /\ c + (k + Len(x)) = (c + Len(x)) + k
        BY <3>9 DEF xn, yn, rn
      <3>2. r[k + Len(x)] = ls[(c + Len(x)) + k]
        BY <2>7, <3>1
      <3>3. ls[(c + Len(x)) + k] = y[k]
        BY <2>3, <2>6, <3>1
      <3>. QED BY <3>2, <3>3
    <2>10. r[1 + Len(x)] = y[1] /\ r[2 + Len(x)] = y[2]
      BY <2>9
    <2>. QED BY <2>5, <2>8, <2>10
  <1>. HIDE DEF ls, c, x
  <1>4. Len(r) = Len(ls) - c /\ \A k \in 1 .. Len(r) : r[k] = ls[c + k]
    BY DEF ls, c
  <1>5. Len(x) <= Len(r)
    <2>. DEFINE e == LettersBefore(word, n + 1)
    <2>1. e = c + Len(x) /\ e <= Len(ls)
      BY <1>1
    <2>. HIDE DEF e
    <2>. QED BY <1>1, <1>4, <2>1
  <1>6. ASSUME NEW k \in 1 .. Len(x) PROVE r[k] = x[k]
    <2>1. k \in 1 .. Len(r)
      BY <1>1, <1>4, <1>5
    <2>. QED BY <1>1, <1>4, <2>1
  <1>7. PICK vn, fn : Syl(x, vn, fn)
    BY <1>2
  <1>8. Ahead(r, vn, fn)
    <2>1. vn \in {1, 2} /\ fn \in {0, 1, 2} /\ Len(x) = 1 + vn + fn
      BY <1>7 DEF Syl
    <2>2. Len(r) \in Nat /\ Len(r) >= 1 + vn + fn
      BY <1>5, <2>1
    <2>3. Len(r) > 1 + vn + fn =>
            /\ Len(r) >= 3 + vn + fn
            /\ r[2 + vn + fn] \in Initials /\ r[3 + vn + fn] \in BasicVowels
      <3>1. 1 + Len(x) = 2 + vn + fn /\ 2 + Len(x) = 3 + vn + fn
        BY <2>1
      <3>. QED BY <1>3, <2>1, <3>1
    <2>4. r[1] = x[1] /\ r[2] = x[2]
      <3>1. 1 \in 1 .. Len(x) /\ 2 \in 1 .. Len(x)
        BY <2>1
      <3>2. ASSUME NEW k \in {1, 2}, k \in 1 .. Len(x) PROVE r[k] = x[k]
        BY <1>6, <3>2
      <3>. QED BY <3>1, <3>2
    <2>5. vn = 2 => r[3] = x[3]
      <3>1. vn = 2 => 3 \in 1 .. Len(x)
        BY <2>1
      <3>2. ASSUME NEW k \in {3}, k \in 1 .. Len(x) PROVE r[k] = x[k]
        BY <1>6, <3>2
      <3>. QED BY <3>1, <3>2
    <2>6. fn >= 1 => r[vn + 2] = x[vn + 2]
      <3>1. fn >= 1 => vn + 2 \in 1 .. Len(x)
        BY <2>1
      <3>. QED BY <1>6, <3>1
    <2>7. fn = 2 => r[vn + 3] = x[vn + 3]
      <3>1. fn = 2 => vn + 3 \in 1 .. Len(x)
        BY <2>1
      <3>. QED BY <1>6, <3>1
    <2>8. \/ vn = 1 /\ r[2] \in BasicVowels
          \/ vn = 2 /\ Joinable(ComplexVowels, r[2], r[3])
      BY <1>7, <2>4, <2>5 DEF Syl
    <2>9. \/ fn = 0
          \/ fn = 1 /\ r[vn + 2] \in BasicFinals
          \/ fn = 2 /\ Joinable(ComplexConsonants, r[vn + 2], r[vn + 3])
      <3>1. fn = 1 => r[vn + 2] = x[vn + 2]
        BY <2>6
      <3>2. fn = 2 => r[vn + 2] = x[vn + 2]
        BY <2>6
      <3>. QED BY <1>7, <2>7, <3>1, <3>2 DEF Syl
    <2>10. r[1] \in Initials
      BY <1>7, <2>4 DEF Syl
    <2>. QED BY <2>1, <2>2, <2>3, <2>8, <2>9, <2>10 DEF Ahead
  <1>. QED BY <1>5, <1>6, <1>7, <1>8 DEF x

\* The letters of a text of syllables are initials and vowels.
LEMMA SyllableLetters ==
    ASSUME NEW word \in Seq(Seq(Letter)),
           \A k \in 1 .. Len(word) : word[k] \in Syllables,
           NEW i \in 1 .. Len(Disassemble(word))
    PROVE  IsLetter(Disassemble(word)[i])
  <1>. DEFINE ls == Disassemble(word)
              All(n) == \A j \in 1 .. LettersBefore(word, n) : IsLetter(ls[j])
              T == {n \in Nat : n <= Len(word) => All(n)}
  <1>0. Len(word) \in Nat
    BY ONLY word \in Seq(Seq(Letter))
  <1>1. 0 \in T
    <2>1. SubSeq(word, 1, 0) = << >>
      OBVIOUS
    <2>2. LettersBefore(word, 0) = 0
      <3>1. Disassemble(SubSeq(word, 1, 0)) = << >>
        BY <2>1, DisassembleNothing
      <3>2. Len(<< >>) = 0
        OBVIOUS
      <3>. QED BY <3>1, <3>2 DEF LettersBefore
    <2>. QED BY <2>2
  <1>2. ASSUME NEW n \in Nat, n \in T PROVE n + 1 \in T
    <2>1. SUFFICES ASSUME n + 1 <= Len(word) PROVE All(n + 1)
      OBVIOUS
    <2>. DEFINE x == LettersOf(word[n + 1])
                c == LettersBefore(word, n)
    <2>2. All(n)
      BY <1>0, <1>2, <2>1
    <2>3. /\ c \in Nat /\ Len(x) \in Nat
          /\ LettersBefore(word, n + 1) = c + Len(x)
          /\ \A k \in 1 .. Len(x) : ls[c + k] = x[k]
      BY <2>1, LettersAt
    <2>4. PICK vn, fn : Syl(x, vn, fn)
      <3>1. word[n + 1] \in Syllables
        BY <2>1
      <3>. QED BY <3>1, SyllableSpelt
    <2>. HIDE DEF x, c, ls
    <2>5. ASSUME NEW k \in 1 .. Len(x) PROVE IsLetter(x[k])
      <3>. QED BY <2>4, SylLetters
    <2>6. ASSUME NEW j \in 1 .. c + Len(x) PROVE IsLetter(ls[j])
      <3>1. CASE j <= c
        <4>1. j \in 1 .. c
          BY <2>3, <3>1
        <4>. QED BY <2>2, <4>1 DEF c
      <3>2. CASE j > c
        <4>1. j - c \in 1 .. Len(x) /\ c + (j - c) = j
          BY <2>3, <3>2
        <4>2. ls[c + (j - c)] = x[j - c]
          BY <2>3, <4>1
        <4>. QED BY <2>5, <4>1, <4>2
      <3>. QED BY <2>3, <3>1, <3>2
    <2>. QED BY <2>3, <2>6
  <1>. HIDE DEF All
  <1>3. Nat \subseteq T
    BY <1>1, <1>2, SetInduction
  <1>4. All(Len(word))
    BY <1>0, <1>3
  <1>5. LettersBefore(word, Len(word)) = Len(ls)
    BY WholeSubSeq DEF LettersBefore
  <1>. QED BY <1>4, <1>5 DEF All

-----------------------------------------------------------------------------
(* The goal character *)

\* The inductive invariant for texts of whole syllables: what is put together
\* so far is the beginning of the text.
SyllablesInv ==
    Whole(hangul) => /\ Len(result) <= Len(hangul)
                     /\ result = SubSeq(hangul, 1, Len(result))

\* The letters that are not put together yet.
Rest == SubSeq(letters, complete + 1, Len(letters))

\* They begin with those of a syllable, and what is made of these is the next
\* character of the text.
NextIs(vn, fn) ==
    /\ Ahead(Rest, vn, fn)
    /\ \A p \in Seq(Single) :
           Syl(p, vn, fn) /\ (\A k \in 1 .. Len(p) : p[k] = Rest[k])
               => Character(p) = hangul[Len(result) + 1]

LEMMA RestFacts ==
    ASSUME HangulInv
    PROVE  /\ Rest \in Seq(Single) /\ Len(Rest) = Len(letters) - complete
           /\ \A k \in 1 .. Len(Rest) : Rest[k] = letters[complete + k]
           /\ letters \in Seq(Single) /\ complete \in Nat /\ Len(letters) \in Nat
           /\ complete <= Len(letters)
  <1>1. /\ letters \in Seq(Single) /\ complete \in Nat /\ Len(letters) \in Nat
        /\ complete <= Len(letters)
    BY DEF HangulInv, TurnInv
  <1>. QED BY <1>1 DEF Rest

\* The characters put together, as a beginning of the text.
LEMMA MadeSoFar ==
    ASSUME HangulInv, SyllablesInv, Whole(hangul), hangul # << >>
    PROVE  /\ hangul \in HangulTexts /\ hangul \in Seq(Seq(Letter))
           /\ \A k \in 1 .. Len(hangul) : hangul[k] \in Syllables
           /\ letters = Disassemble(hangul)
           /\ Len(result) \in Nat /\ Len(result) <= Len(hangul)
           /\ Len(hangul) \in Nat
           /\ LettersBefore(hangul, Len(result)) = complete
  <1>1. hangul \in HangulTexts /\ letters = Disassemble(hangul)
    BY DEF HangulInv
  <1>2. /\ hangul \in Seq(Seq(Letter))
        /\ \A k \in 1 .. Len(hangul) : hangul[k] \in Syllables
    BY <1>1, WholeText
  <1>3. /\ result \in Seq(Seq(Letter))
        /\ Disassemble(result) = SubSeq(letters, 1, complete)
    BY DEF HangulInv, TurnInv
  <1>4. Len(result) \in Nat /\ Len(hangul) \in Nat
    BY ONLY <1>2, <1>3
  <1>5. /\ Len(result) <= Len(hangul)
        /\ result = SubSeq(hangul, 1, Len(result))
    BY DEF SyllablesInv
  <1>6. Len(SubSeq(letters, 1, complete)) = complete
    BY RestFacts
  <1>7. LettersBefore(hangul, Len(result)) = complete
    <2>. DEFINE d == Disassemble(result)
    <2>1. LettersBefore(hangul, Len(result)) = Len(d)
      BY <1>5 DEF LettersBefore
    <2>2. Len(d) = complete
      BY <1>3, <1>6
    <2>. QED BY <2>1, <2>2
  <1>. QED BY <1>1, <1>2, <1>4, <1>5, <1>7

\* What the letters left begin with is the next syllable of the text.
LEMMA NextCharacter ==
    ASSUME HangulInv, SyllablesInv, Whole(hangul), hangul # << >>,
           complete < Len(letters)
    PROVE  /\ Len(result) + 1 <= Len(hangul)
           /\ \E vn, fn : NextIs(vn, fn)
  <1>. DEFINE n == Len(result)
              x == LettersOf(hangul[n + 1])
  <1>1. /\ hangul \in Seq(Seq(Letter)) /\ n \in Nat /\ n <= Len(hangul)
        /\ \A k \in 1 .. Len(hangul) : hangul[k] \in Syllables
        /\ Len(hangul) \in Nat /\ letters = Disassemble(hangul)
        /\ LettersBefore(hangul, n) = complete
    BY MadeSoFar
  <1>2. n + 1 <= Len(hangul)
    <2>1. SUFFICES ASSUME n = Len(hangul) PROVE FALSE
      BY <1>1
    <2>2. SubSeq(hangul, 1, n) = hangul
      BY <1>1, <2>1, WholeSubSeq
    <2>3. LettersBefore(hangul, n) = Len(letters)
      BY <1>1, <2>2 DEF LettersBefore
    <2>. QED BY <1>1, <2>3, RestFacts
  <1>3. /\ Rest \in Seq(Single)
        /\ Len(Rest) = Len(Disassemble(hangul)) - LettersBefore(hangul, n)
        /\ \A k \in 1 .. Len(Rest) :
               Rest[k] = Disassemble(hangul)[LettersBefore(hangul, n) + k]
    BY <1>1, RestFacts
  <1>4. /\ Len(x) <= Len(Rest) /\ \A k \in 1 .. Len(x) : Rest[k] = x[k]
        /\ \E vn, fn : Syl(x, vn, fn) /\ Ahead(Rest, vn, fn)
    <2>. HIDE DEF n
    <2>. QED BY ONLY <1>1, <1>2, <1>3, NextSyllable
  <1>5. x \in Seq(Single) /\ Character(x) = hangul[n + 1]
    <2>1. hangul[n + 1] \in Syllables
      BY <1>1, <1>2
    <2>. HIDE DEF n
    <2>. QED BY <2>1, SyllableSpelt
  <1>6. PICK vn, fn : Syl(x, vn, fn) /\ Ahead(Rest, vn, fn)
    BY <1>4
  <1>. HIDE DEF x
  <1>7. ASSUME NEW p \in Seq(Single), Syl(p, vn, fn),
               \A k \in 1 .. Len(p) : p[k] = Rest[k]
        PROVE  Character(p) = hangul[n + 1]
    <2>1. Len(p) = Len(x)
      BY <1>6, <1>7 DEF Syl
    <2>2. \A k \in 1 .. Len(x) : p[k] = x[k]
      BY <1>4, <1>7, <2>1
    <2>3. p = x
      BY <1>5, <2>1, <2>2, SeqsEqual
    <2>. QED BY <1>5, <2>3
  <1>8. NextIs(vn, fn)
    BY <1>6, <1>7 DEF NextIs
  <1>. QED BY <1>2, <1>8

\* A step that makes all the letters of the next syllable puts the next
\* character of the text after the others.
LEMMA SyllableMade ==
    ASSUME HangulInv, SyllablesInv, Whole(hangul), hangul # << >>,
           NEW index \in Nat, complete < index, index <= Len(letters),
           NEW vn, NEW fn, NextIs(vn, fn),
           Syl(SubSeq(letters, complete + 1, index), vn, fn),
           hangul' = hangul,
           result' = Append(result, Character(SubSeq(letters, complete + 1, index)))
    PROVE  SyllablesInv'
  <1>. DEFINE p == SubSeq(letters, complete + 1, index)
              n == Len(result)
              c == hangul[n + 1]
  <1>1. /\ Rest \in Seq(Single) /\ Len(Rest) = Len(letters) - complete
        /\ \A k \in 1 .. Len(Rest) : Rest[k] = letters[complete + k]
        /\ letters \in Seq(Single) /\ complete \in Nat /\ Len(letters) \in Nat
    BY RestFacts
  <1>2. /\ p \in Seq(Single) /\ Len(p) = index - complete
        /\ \A k \in 1 .. index - complete : p[k] = letters[complete + k]
    BY <1>1
  <1>3. Character(p) = c
    <2>. HIDE DEF p, c
    <2>1. ASSUME NEW k \in 1 .. Len(p) PROVE p[k] = Rest[k]
      <3>1. k \in 1 .. index - complete /\ k \in 1 .. Len(Rest)
        BY <1>1, <1>2
      <3>. QED BY <1>1, <1>2, <3>1
    <2>. QED BY <1>2, <2>1 DEF NextIs, p, c
  <1>4. /\ n + 1 <= Len(hangul) /\ n \in Nat /\ hangul \in Seq(Seq(Letter))
        /\ result = SubSeq(hangul, 1, n)
    <2>1. complete < Len(letters)
      BY <1>1
    <2>. QED BY <2>1, NextCharacter, MadeSoFar DEF SyllablesInv
  <1>5. SubSeq(hangul, 1, n + 1) = Append(result, c)
    BY <1>4, NextPrefix
  <1>6. result' = Append(result, c)
    BY <1>3
  <1>7. Len(result') = n + 1
    <2>. DEFINE V == Seq(Letter)
    <2>1. result \in Seq(V) /\ c \in V
      <3>1. result \in Seq(Seq(Letter))
        BY DEF HangulInv, TurnInv
      <3>. QED BY <1>4, <3>1, NextPrefix
    <2>. HIDE DEF V, c
    <2>. QED BY <1>6, <2>1
  <1>8. Len(result') <= Len(hangul') /\ result' = SubSeq(hangul', 1, Len(result'))
    BY <1>4, <1>5, <1>6, <1>7
  <1>. QED BY <1>8 DEF SyllablesInv

LEMMA FirstTaken ==
    ASSUME NEW r, NEW p, Len(p) \in Nat, Len(p) <= Len(r),
           \A k \in 1 .. Len(p) : p[k] = r[k]
    PROVE  Taken(r, p)
  <1>1. ASSUME NEW k \in 1 .. 5, Len(p) >= k PROVE p[k] = r[k]
    BY <1>1
  <1>2. /\ Len(p) >= 1 => p[1] = r[1]
        /\ Len(p) >= 2 => p[2] = r[2]
        /\ Len(p) >= 3 => p[3] = r[3]
        /\ Len(p) >= 4 => p[4] = r[4]
        /\ Len(p) >= 5 => p[5] = r[5]
    BY ONLY <1>1
  <1>. QED BY <1>2 DEF Taken

\* The letters pending are the first of those left, and the letter read is the
\* next.
LEMMA PartTaken ==
    ASSUME NEW letter, HangulInv, Reading(letter), stage # 0
    PROVE  /\ Taken(Rest, Part) /\ Len(Part) < Len(Rest)
           /\ letter = Rest[Len(Part) + 1]
           /\ complete < Len(letters) /\ read <= Len(letters)
           /\ read \in Nat /\ complete < read
  <1>1. /\ read < Len(letters) /\ letter = letters[read + 1]
        /\ complete \in Nat /\ read \in Nat /\ complete < read
        /\ Len(Part) = read - complete /\ letters \in Seq(Single)
        /\ Len(letters) \in Nat
    BY ReadingInv, PartFacts, RestFacts
  <1>2. /\ Len(Rest) = Len(letters) - complete
        /\ \A k \in 1 .. Len(Rest) : Rest[k] = letters[complete + k]
    BY RestFacts
  <1>3. \A k \in 1 .. read - complete : Part[k] = letters[complete + k]
    BY <1>1 DEF Part
  <1>4. Len(Part) \in Nat /\ Len(Part) < Len(Rest)
    BY <1>1, <1>2
  <1>5. ASSUME NEW k \in 1 .. Len(Part) PROVE Part[k] = Rest[k]
    <2>1. k \in 1 .. read - complete /\ k \in 1 .. Len(Rest)
      BY <1>1, <1>2, <1>4
    <2>. QED BY <1>2, <1>3, <2>1
  <1>6. letter = Rest[Len(Part) + 1]
    <2>1. Len(Part) + 1 \in 1 .. Len(Rest)
      BY <1>4, <1>2, <1>1
    <2>2. complete + (Len(Part) + 1) = read + 1
      BY <1>1
    <2>. QED BY <1>1, <1>2, <2>1, <2>2
  <1>7. Taken(Rest, Part)
    BY <1>4, <1>5, FirstTaken
  <1>8. complete < Len(letters) /\ read <= Len(letters)
    BY <1>1
  <1>. QED BY <1>1, <1>4, <1>6, <1>7, <1>8

-----------------------------------------------------------------------------
(* The turns of assemble, for a word of syllables *)

LEMMA SameSyllables ==
    ASSUME SyllablesInv, hangul' = hangul, result' = result
    PROVE  SyllablesInv'
  BY DEF SyllablesInv

LEMMA KeepingKeeps ==
    ASSUME NEW letter, NEW goal, SyllablesInv, Turn(letter, goal),
           UNCHANGED << complete, result >>
    PROVE  SyllablesInv'
  BY SameSyllables DEF Turn

LEMMA FirstSyllables ==
    ASSUME NEW letter, SyllablesInv, ReadFirst(letter)
    PROVE  SyllablesInv'
  BY KeepingKeeps DEF ReadFirst, TurnKeeping

\* What a turn that makes the letters up to index does.
LEMMA MakingMakes ==
    ASSUME NEW letter, NEW goal, NEW index, TurnMaking(letter, goal, index),
           complete < index
    PROVE  /\ hangul' = hangul
           /\ result' = Append(result,
                               Character(SubSeq(letters, complete + 1, index)))
  BY DEF TurnMaking, Turn, MakeHangul

\* What is pending is the whole of the next syllable, and is made.
LEMMA PartMade ==
    ASSUME NEW letter, HangulInv, SyllablesInv, Whole(hangul), Reading(letter),
           stage # 0, NEW goal, TurnMaking(letter, goal, read),
           NEW vn, NEW fn, NextIs(vn, fn), Syl(Part, vn, fn)
    PROVE  SyllablesInv'
  <1>1. hangul # << >>
    BY ReadingInv
  <1>2. complete < Len(letters) /\ read <= Len(letters) /\ read \in Nat
        /\ complete < read
    BY PartTaken
  <1>3. /\ hangul' = hangul
        /\ result' = Append(result,
                            Character(SubSeq(letters, complete + 1, read)))
    BY <1>2, MakingMakes
  <1>. QED BY <1>1, <1>2, <1>3, SyllableMade DEF Part

\* The syllable that comes next, when a letter is read.
LEMMA ReadingNext ==
    ASSUME NEW letter, HangulInv, SyllablesInv, Whole(hangul), Reading(letter),
           stage # 0
    PROVE  \E vn, fn : NextIs(vn, fn) /\ Ahead(Rest, vn, fn)
  <1>1. hangul # << >> /\ complete < Len(letters)
    BY ReadingInv, PartTaken
  <1>. QED BY <1>1, NextCharacter DEF NextIs

LEMMA InitialSyllables ==
    ASSUME NEW letter, HangulInv, SyllablesInv, Whole(hangul), Reading(letter),
           ReadAfterInitial(letter)
    PROVE  SyllablesInv'
  <1>1. stage = 1
    BY DEF ReadAfterInitial
  <1>2. /\ Taken(Rest, Part) /\ letter = Rest[Len(Part) + 1]
        /\ Pending(Part, stage, jongJoined)
    BY <1>1, PartTaken, PartFacts
  <1>3. Len(Part) = 1
    BY <1>1, <1>2 DEF Pending
  <1>4. letter = Rest[2]
    BY <1>2, <1>3
  <1>5. letter \in BasicVowels
    BY <1>1, <1>4, ReadingNext, AheadForms
  <1>6. letter \in Vowels
    BY <1>5, ReadingInv
  <1>7. TurnKeeping(letter, 2)
    BY <1>6 DEF ReadAfterInitial
  <1>. QED BY <1>7, KeepingKeeps DEF TurnKeeping

LEMMA VowelSyllables ==
    ASSUME NEW letter, HangulInv, SyllablesInv, Whole(hangul), Reading(letter),
           ReadAfterVowel(letter)
    PROVE  SyllablesInv'
  <1>1. stage = 2
    BY DEF ReadAfterVowel
  <1>2. /\ Taken(Rest, Part) /\ letter = Rest[Len(Part) + 1]
        /\ Len(Part) < Len(Rest) /\ Pending(Part, stage, jongJoined)
        /\ Part[Len(Part)] = previous
    BY <1>1, PartTaken, PartFacts
  <1>3. PICK v \in {1, 2} : Syl(Part, v, 0)
    BY <1>1, <1>2 DEF Pending
  <1>4. PICK vn, fn : NextIs(vn, fn) /\ Ahead(Rest, vn, fn)
    BY <1>1, ReadingNext
  <1>5. /\ letter \in Vowels <=> letter \in BasicVowels
        /\ letter \in Finals <=> letter \in BasicFinals
    BY ReadingInv
  <1>6. ASSUME NEW goal, TurnKeeping(letter, goal) PROVE SyllablesInv'
    BY <1>6, KeepingKeeps DEF TurnKeeping
  <1>7. ASSUME NEW goal, TurnMaking(letter, goal, read),
               letter \notin Finals,
               letter \notin Vowels \/ ~Joinable(ComplexVowels, previous, letter)
        PROVE  SyllablesInv'
    <2>1. /\ letter \notin BasicFinals
          /\ \/ letter \notin BasicVowels
             \/ ~Joinable(ComplexVowels, Part[Len(Part)], letter)
      BY <1>2, <1>5, <1>7
    <2>2. Syl(Part, vn, fn)
      BY ONLY <1>2, <1>3, <1>4, <2>1, EndsAtVowel
    <2>. QED BY <1>1, <1>4, <1>7, <2>2, PartMade
  <1>8. CASE letter \in Finals
    <2>1. TurnKeeping(letter, 3)
      BY <1>8 DEF ReadAfterVowel
    <2>. QED BY <1>6, <2>1
  <1>9. CASE letter \notin Finals /\ letter \notin Vowels
    <2>1. TurnMaking(letter, 1, read)
      BY <1>9 DEF ReadAfterVowel
    <2>. QED BY <1>7, <1>9, <2>1
  <1>10. CASE /\ letter \notin Finals /\ letter \in Vowels
              /\ Joinable(ComplexVowels, previous, letter)
    <2>1. TurnKeeping(letter, 2)
      BY <1>10 DEF ReadAfterVowel
    <2>. QED BY <1>6, <2>1
  <1>11. CASE /\ letter \notin Finals /\ letter \in Vowels
              /\ ~Joinable(ComplexVowels, previous, letter)
    <2>1. TurnMaking(letter, 4, read)
      BY <1>11 DEF ReadAfterVowel
    <2>. QED BY <1>7, <1>11, <2>1
  <1>. QED BY <1>8, <1>9, <1>10, <1>11

LEMMA FinalSyllables ==
    ASSUME NEW letter, HangulInv, SyllablesInv, Whole(hangul), Reading(letter),
           ReadAfterFinal(letter)
    PROVE  SyllablesInv'
  <1>1. stage = 3
    BY DEF ReadAfterFinal
  <1>2. /\ Taken(Rest, Part) /\ letter = Rest[Len(Part) + 1]
        /\ Len(Part) < Len(Rest) /\ Pending(Part, stage, jongJoined)
        /\ Part[Len(Part)] = previous /\ Len(Part) = read - complete
        /\ read \in Nat /\ complete \in Nat /\ complete < Len(letters)
        /\ read <= Len(letters)
    BY <1>1, PartTaken, PartFacts
  <1>3. PICK v \in {1, 2}, f \in {1, 2} :
            Syl(Part, v, f) /\ (jongJoined <=> f = 2)
    BY <1>1, <1>2 DEF Pending
  <1>4. PICK vn, fn : NextIs(vn, fn) /\ Ahead(Rest, vn, fn)
    BY <1>1, ReadingNext
  <1>5. /\ letter \in Vowels <=> letter \in BasicVowels
        /\ letter \in Finals <=> letter \in BasicFinals
    BY ReadingInv
  <1>6. CASE letter \in Vowels
    <2>1. vn = v /\ fn = f - 1
      <3>1. letter \in BasicVowels /\ Syl(Part, v, f) /\ f \in {1, 2}
        BY <1>3, <1>5, <1>6
      <3>. QED BY ONLY <1>2, <1>4, <3>1, EndsBeforeFinal, SMTT(30)
    <2>2. complete < read - 1
      <3>1. Len(Part) >= 3
        BY <1>3 DEF Syl
      <3>. QED BY ONLY <1>2, <3>1
    <2>3. Grown(Part, Less, previous) /\ Len(Less) = (read - 1) - complete
      BY <1>1, <2>2, LessFacts
    <2>4. Syl(Less, v, 0) \/ Syl(Less, v, 1)
      BY <1>3, <2>3, FinalTaken
    <2>5. Syl(Less, vn, fn)
      <3>1. Len(Part) = 1 + v + f
        BY <1>3 DEF Syl
      <3>2. Len(Less) = v + f
        BY <1>2, <1>3, <2>3, <3>1
      <3>3. CASE Syl(Less, v, 0)
        <4>1. Len(Less) = 1 + v + 0
          BY <3>3 DEF Syl
        <4>2. f = 1
          BY <1>3, <3>2, <4>1
        <4>3. fn = 0
          BY <2>1, <4>2
        <4>. QED BY <2>1, <3>3, <4>3
      <3>4. CASE Syl(Less, v, 1)
        <4>1. Len(Less) = 1 + v + 1
          BY <3>4 DEF Syl
        <4>2. f = 2
          BY <1>3, <3>2, <4>1
        <4>3. fn = 1
          BY <2>1, <4>2
        <4>. QED BY <2>1, <3>4, <4>3
      <3>. QED BY <2>4, <3>3, <3>4
    <2>6. TurnMaking(letter, 2, read - 1)
      BY <1>6 DEF ReadAfterFinal
    <2>7. /\ hangul' = hangul
          /\ result' = Append(result,
                              Character(SubSeq(letters, complete + 1, read - 1)))
      BY <2>2, <2>6, MakingMakes
    <2>8. hangul # << >>
      BY ReadingInv
    <2>9. read - 1 \in Nat /\ read - 1 <= Len(letters)
      <3>1. Len(letters) \in Nat
        BY RestFacts
      <3>. QED BY <1>2, <2>2, <3>1
    <2>. QED BY <1>4, <2>2, <2>5, <2>7, <2>8, <2>9, SyllableMade DEF Less
  <1>7. CASE /\ letter \notin Vowels /\ letter \in Finals /\ ~jongJoined
             /\ Joinable(ComplexConsonants, previous, letter)
    <2>1. Turn(letter, 3) /\ UNCHANGED << complete, result >>
      BY <1>7 DEF ReadAfterFinal
    <2>. QED BY <2>1, KeepingKeeps
  <1>8. CASE /\ letter \notin Vowels
             /\ ~ (/\ letter \in Finals /\ ~jongJoined
                   /\ Joinable(ComplexConsonants, previous, letter))
    <2>1. TurnMaking(letter, 1, read)
      BY <1>8 DEF ReadAfterFinal
    <2>2. /\ letter \notin BasicVowels
          /\ ~ (f = 1 /\ letter \in BasicFinals
                /\ Joinable(ComplexConsonants, Part[Len(Part)], letter))
      BY <1>2, <1>3, <1>5, <1>8
    <2>3. Syl(Part, vn, fn)
      <3>1. Syl(Part, v, f) /\ f \in {1, 2}
        BY <1>3
      <3>. QED BY ONLY <1>2, <1>4, <2>2, <3>1, EndsAtFinal
    <2>. QED BY <1>1, <1>4, <2>1, <2>3, PartMade
  <1>. QED BY <1>6, <1>7, <1>8

LEMMA LooseApart ==
    ASSUME NEW r, NEW p, NEW st, NEW joined, Taken(r, p), Pending(p, st, joined),
           r[1] \in Initials, r[2] \in BasicVowels
    PROVE  st # 4 /\ st # 5
  <1>1. ASSUME Len(p) = 1, p[1] \in BasicVowels PROVE FALSE
    BY <1>1, Kinds DEF Taken
  <1>2. ASSUME Len(p) = 2, Joinable(ComplexConsonants, p[1], p[2]) PROVE FALSE
    <2>1. p[2] = r[2]
      BY <1>2 DEF Taken
    <2>. QED BY <1>2, <2>1, Kinds
  <1>. QED BY <1>1, <1>2 DEF Pending

\* No letter of a syllable is a vowel or two consonants on their own.
LEMMA NothingLoose ==
    ASSUME NEW letter, HangulInv, SyllablesInv, Whole(hangul), Reading(letter)
    PROVE  stage # 4 /\ stage # 5
  <1>1. SUFFICES ASSUME stage = 4 \/ stage = 5 PROVE FALSE
    OBVIOUS
  <1>2. /\ Taken(Rest, Part) /\ Pending(Part, stage, jongJoined)
    BY <1>1, PartTaken, PartFacts
  <1>3. Rest[1] \in Initials /\ Rest[2] \in BasicVowels
    BY <1>1, ReadingNext, AheadForms
  <1>. QED BY <1>1, <1>2, <1>3, LooseApart

LEMMA OtherSyllables ==
    ASSUME HangulInv, SyllablesInv, Whole(hangul), ReadOther
    PROVE  FALSE
  <1>1. PICK letter : Reads(letter) /\ ~IsLetter(letter)
    BY DEF ReadOther
  <1>2. read < Len(letters) /\ letter = letters[read + 1]
    BY <1>1 DEF Reads
  <1>3. /\ TurnInv(letters, read, stage, previous, jongJoined, complete, result)
    BY DEF HangulInv
  <1>4. read \in Nat /\ Len(letters) \in Nat
    BY <1>3 DEF TurnInv
  <1>5. hangul # << >>
    BY <1>2, <1>3, NoLetters DEF HangulInv
  <1>6. /\ hangul \in Seq(Seq(Letter)) /\ letters = Disassemble(hangul)
        /\ \A k \in 1 .. Len(hangul) : hangul[k] \in Syllables
    BY <1>5, MadeSoFar
  <1>7. read + 1 \in 1 .. Len(Disassemble(hangul))
    BY <1>2, <1>4, <1>6
  <1>8. IsLetter(Disassemble(hangul)[read + 1])
    BY <1>6, <1>7, SyllableLetters
  <1>. QED BY <1>1, <1>2, <1>6, <1>8

LEMMA FinishSyllables ==
    ASSUME HangulInv, SyllablesInv, Whole(hangul), Finish
    PROVE  SyllablesInv'
  <1>1. /\ read = Len(letters) /\ complete < read /\ hangul' = hangul
        /\ result' = Append(result, Character(SubSeq(letters, complete + 1, read)))
    BY DEF Finish, MakeHangul
  <1>2. /\ TurnInv(letters, read, stage, previous, jongJoined, complete, result)
    BY DEF HangulInv
  <1>3. read \in Nat /\ complete \in Nat /\ complete < Len(letters)
    BY <1>1, <1>2 DEF TurnInv
  <1>4. hangul # << >>
    BY <1>2, <1>1, <1>3, NoLetters DEF HangulInv
  <1>5. PICK vn, fn : NextIs(vn, fn) /\ Ahead(Rest, vn, fn)
    BY <1>3, <1>4, NextCharacter DEF NextIs
  <1>6. Pending(Rest, stage, jongJoined)
    BY <1>1, <1>2 DEF TurnInv, Rest
  <1>7. Taken(Rest, Rest)
    <2>1. Len(Rest) \in Nat
      BY RestFacts
    <2>. QED BY <2>1 DEF Taken
  <1>8. Rest[1] \in Initials /\ Rest[2] \in BasicVowels /\ Len(Rest) >= 2
    <2>1. Len(Rest) >= 1 + vn + fn /\ vn \in {1, 2} /\ fn \in {0, 1, 2}
          /\ Len(Rest) \in Nat
      BY <1>5 DEF Ahead
    <2>. QED BY <1>5, <2>1, AheadForms
  <1>9. \E v, f : Syl(Rest, v, f)
    <2>1. stage # 4 /\ stage # 5
      BY <1>6, <1>7, <1>8, LooseApart
    <2>. QED BY <1>6, <1>8, <2>1 DEF Pending
  <1>10. Syl(Rest, vn, fn)
    <2>1. PICK v, f : Syl(Rest, v, f)
      BY <1>9
    <2>. QED BY <1>5, <1>7, <2>1, EndsAtEnd
  <1>11. Rest = SubSeq(letters, complete + 1, read)
    BY <1>1 DEF Rest
  <1>. QED BY <1>1, <1>3, <1>4, <1>5, <1>10, <1>11, SyllableMade

LEMMA BeginSyllables ==
    ASSUME HangulInv, SyllablesInv, BeginAssemble
    PROVE  SyllablesInv'
  <1>1. hangul = << >> /\ hangul' \in HangulTexts /\ result' = result
    BY DEF BeginAssemble
  <1>2. result' = << >>
    BY <1>1 DEF HangulInv
  <1>. DEFINE t == hangul'
  <1>3. t \in Seq(Seq(Letter))
    BY <1>1, TextLetters
  <1>. HIDE DEF t
  <1>4. Len(<< >>) = 0 /\ SubSeq(t, 1, 0) = << >> /\ 0 <= Len(t)
    BY <1>3
  <1>5. Len(result') <= Len(hangul') /\ result' = SubSeq(hangul', 1, Len(result'))
    BY <1>2, <1>4 DEF t
  <1>. QED BY <1>5 DEF SyllablesInv

LEMMA LetterSyllables ==
    ASSUME HangulInv, SyllablesInv, Whole(hangul), ReadLetter
    PROVE  SyllablesInv'
  <1>1. PICK letter :
            /\ Reading(letter)
            /\ \/ ReadFirst(letter) \/ ReadAfterInitial(letter)
               \/ ReadAfterVowel(letter) \/ ReadAfterFinal(letter)
               \/ ReadAfterLooseVowel(letter) \/ ReadAfterLooseConsonants(letter)
    BY DEF ReadLetter, Reading
  <1>2. ~ReadAfterLooseVowel(letter) /\ ~ReadAfterLooseConsonants(letter)
    BY <1>1, NothingLoose DEF ReadAfterLooseVowel, ReadAfterLooseConsonants
  <1>. QED BY <1>1, <1>2, FirstSyllables, InitialSyllables, VowelSyllables,
              FinalSyllables

LEMMA NextSyllablesInv ==
    HangulInv /\ SyllablesInv /\ [HangulNext]_hangulVars => SyllablesInv'
  <1>. SUFFICES ASSUME HangulInv, SyllablesInv, [HangulNext]_hangulVars
                PROVE  SyllablesInv'
    OBVIOUS
  <1>1. CASE UNCHANGED hangulVars
    BY <1>1, SameSyllables DEF hangulVars
  <1>2. CASE BeginAssemble
    BY <1>2, BeginSyllables
  <1>3. ASSUME HangulNext, ~BeginAssemble PROVE SyllablesInv'
    <2>1. hangul' = hangul
      BY <1>3 DEF HangulNext, ReadOther, ReadLetter, Finish, ReadFirst,
         ReadAfterInitial, ReadAfterVowel, ReadAfterFinal, ReadAfterLooseVowel,
         ReadAfterLooseConsonants, TurnKeeping, TurnMaking, Turn
    <2>2. CASE ~Whole(hangul)
      BY <2>1, <2>2 DEF SyllablesInv, Whole
    <2>3. CASE Whole(hangul)
      BY <1>3, <2>3, OtherSyllables, LetterSyllables, FinishSyllables DEF HangulNext
    <2>. QED BY <2>2, <2>3
  <1>. QED BY <1>1, <1>2, <1>3

LEMMA InitSyllablesInv == HangulInit => SyllablesInv
  <1>. SUFFICES ASSUME HangulInit PROVE SyllablesInv
    OBVIOUS
  <1>1. Len(<< >>) = 0 /\ SubSeq(<< >>, 1, 0) = << >> /\ 0 <= 0
    OBVIOUS
  <1>2. hangul = << >> /\ result = << >>
    BY DEF HangulInit
  <1>3. Len(result) <= Len(hangul) /\ result = SubSeq(hangul, 1, Len(result))
    BY <1>1, <1>2
  <1>. QED BY <1>3 DEF SyllablesInv

\* Once every letter is put together, so is every character.
LEMMA AllMade == HangulInv /\ SyllablesInv => SyllablesComeBack
  <1>. SUFFICES ASSUME HangulInv, SyllablesInv, Whole(hangul),
                       complete = Len(letters)
                PROVE  result = hangul
    BY DEF SyllablesComeBack, Whole
  <1>1. CASE hangul = << >>
    BY <1>1 DEF HangulInv
  <1>2. CASE hangul # << >>
    <2>. DEFINE n == Len(result)
                x == LettersOf(hangul[n + 1])
    <2>1. /\ hangul \in Seq(Seq(Letter)) /\ letters = Disassemble(hangul)
          /\ \A k \in 1 .. Len(hangul) : hangul[k] \in Syllables
          /\ n \in Nat /\ n <= Len(hangul) /\ Len(hangul) \in Nat
          /\ LettersBefore(hangul, n) = complete
      BY <1>2, MadeSoFar
    <2>2. n = Len(hangul)
      <3>1. SUFFICES ASSUME n + 1 <= Len(hangul) PROVE FALSE
        BY <2>1
      <3>. DEFINE b == LettersBefore(hangul, n + 1)
                  m == Len(x)
      <3>2. b = complete + m /\ b <= Len(letters) /\ m \in Nat
        BY <2>1, <3>1, LettersAt
      <3>3. m >= 2
        <4>1. hangul[n + 1] \in Syllables
          BY <2>1, <3>1
        <4>2. PICK vn, fn : Syl(x, vn, fn)
          BY <4>1, SyllableSpelt
        <4>. QED BY <4>2, SylBegins
      <3>4. complete \in Nat
        BY RestFacts
      <3>. HIDE DEF b, m
      <3>. QED BY <3>2, <3>3, <3>4
    <2>3. result = SubSeq(hangul, 1, n)
      BY DEF SyllablesInv
    <2>. QED BY <2>1, <2>2, <2>3, WholeSubSeq
  <1>. QED BY <1>1, <1>2

\* A text of whole syllables, however long, comes back from disassembleHangul and
\* reassembleHangul as it was.
THEOREM AllBack == HangulSpec => []SyllablesComeBack
  <1>1. HangulInit => HangulInv /\ SyllablesInv
    BY InitHangulInv, InitSyllablesInv
  <1>2. HangulInv /\ SyllablesInv /\ [HangulNext]_hangulVars
          => HangulInv' /\ SyllablesInv'
    BY NextHangulInv, NextSyllablesInv
  <1>. QED BY <1>1, <1>2, AllMade, PTL DEF HangulSpec

-----------------------------------------------------------------------------
(* Folds.  FoldLeft is a recursive function on the subsets of the indices;   *)
(* its value is reached one element after the other.                         *)

\* The operators that are folded over sequences, by name, so that what a fold does
\* is proved once for all of them.
Op(name, form, x, y) ==
    CASE name = "processor" -> ReplayProcessor(x, y)
      [] name = "rule" -> ReplayRule(x, y)
      [] name = "extend" -> ExtendAll(x, y)
      [] name = "variant" -> AddVariant(x, y)
      [] name = "process" -> ProcessAll(x, y)
      [] name = "apply" -> ApplyNth(form, x, y)
      [] name = "candidate" -> AddCandidate(x, y)
      [] name = "source" -> AddSource(form, x, y)

\* The function that FoldLeft's definition makes for a sequence of length n.
Folding(f, name, form, base, s, n) ==
    f = [T \in SUBSET (1 .. n) |->
            IF T = {} THEN base
            ELSE Op(name, form, f[T \ {Max(T)}], s[Max(T)])]

\* Max is the largest element of a set of numbers that is not empty.
LEMMA MaxOf ==
    ASSUME NEW n \in Nat, NEW T \in SUBSET (1 .. n), T # {}
    PROVE  Max(T) \in T /\ \A m \in T : m <= Max(T)
  <1>. DEFINE U == { n - m : m \in T }
  <1>0. \A m \in T : m \in 1 .. n /\ n - m \in Nat
    OBVIOUS
  <1>1. U \subseteq Nat /\ U # {}
    BY <1>0
  <1>2. PICK u \in U : \A w \in U : u <= w
    BY <1>1, LeastOf
  <1>3. PICK m \in T : u = n - m
    BY <1>2
  <1>4. ASSUME NEW k \in T PROVE m >= k
    <2>1. n - k \in U
      OBVIOUS
    <2>2. n - m <= n - k
      BY <1>2, <1>3, <2>1
    <2>. QED BY <1>0, <2>2
  <1>5. \A k \in T : Max(T) >= k /\ Max(T) \in T
    BY <1>4 DEF Max
  <1>. QED BY <1>5

\* There is such a function, whatever is folded.
LEMMA FoldingExists ==
    ASSUME NEW name, NEW form, NEW base, NEW s, NEW n \in Nat
    PROVE  \E f : Folding(f, name, form, base, s, n)
  <1>. DEFINE G == { m \in Nat : \E f : Folding(f, name, form, base, s, m) }
  <1>1. 0 \in G
    <2>. DEFINE f == [T \in SUBSET (1 .. 0) |-> base]
    <2>1. \A T \in SUBSET (1 .. 0) : T = {}
      OBVIOUS
    <2>2. f = [T \in SUBSET (1 .. 0) |->
                 IF T = {} THEN base
                 ELSE Op(name, form, f[T \ {Max(T)}], s[Max(T)])]
      BY <2>1
    <2>. QED BY <2>2 DEF Folding
  <1>2. ASSUME NEW m \in Nat, m \in G PROVE m + 1 \in G
    <2>1. PICK f : Folding(f, name, form, base, s, m)
      BY <1>2
    <2>. DEFINE g == [T \in SUBSET (1 .. m + 1) |->
                        IF m + 1 \in T
                        THEN Op(name, form, f[T \ {m + 1}], s[m + 1])
                        ELSE f[T]]
                After(h, T) == Op(name, form, h[T \ {Max(T)}], s[Max(T)])
    <2>2. ASSUME NEW T \in SUBSET (1 .. m + 1)
          PROVE  g[T] = IF T = {} THEN base ELSE After(g, T)
      <3>1. CASE m + 1 \in T
        <4>1. Max(T) = m + 1
          <5>1. m + 1 \in Nat /\ T # {}
            BY <3>1
          <5>2. Max(T) \in T /\ \A k \in T : k <= Max(T)
            BY <5>1, MaxOf
          <5>3. Max(T) \in 1 .. m + 1 /\ m + 1 <= Max(T)
            BY <3>1, <5>2
          <5>. QED BY <5>3
        <4>2. T \ {m + 1} \in SUBSET (1 .. m + 1) /\ m + 1 \notin T \ {m + 1}
          OBVIOUS
        <4>3. g[T \ {m + 1}] = f[T \ {m + 1}]
          BY <4>2
        <4>. QED BY <3>1, <4>1, <4>3
      <3>2. CASE m + 1 \notin T
        <4>1. T \in SUBSET (1 .. m)
          BY <3>2
        <4>2. g[T] = f[T]
          BY <3>2
        <4>3. f[T] = IF T = {} THEN base ELSE After(f, T)
          <5>. HIDE DEF g
          <5>. QED BY <2>1, <4>1 DEF Folding
        <4>4. CASE T = {}
          BY <4>2, <4>3, <4>4
        <4>5. CASE T # {}
          <5>1. T \ {Max(T)} \in SUBSET (1 .. m + 1) /\ m + 1 \notin T \ {Max(T)}
            BY <3>2
          <5>2. g[T \ {Max(T)}] = f[T \ {Max(T)}]
            BY <5>1
          <5>. QED BY <4>2, <4>3, <4>5, <5>2
        <4>. QED BY <4>4, <4>5
      <3>. QED BY <3>1, <3>2
    <2>3. g = [T \in SUBSET (1 .. m + 1) |-> g[T]]
      OBVIOUS
    <2>. HIDE DEF g
    <2>4. g = [T \in SUBSET (1 .. m + 1) |-> IF T = {} THEN base ELSE After(g, T)]
      BY <2>2, <2>3
    <2>5. Folding(g, name, form, base, s, m + 1)
      BY <2>4 DEF Folding
    <2>. QED BY <2>5
  <1>. HIDE DEF G
  <1>3. n \in G
    BY <1>1, <1>2, SetInduction
  <1>. QED BY <1>3 DEF G

\* A fold one element after the other: g[m] is the fold of the first m.
Steps(g, name, form, base, s) ==
    /\ g[0] = base
    /\ \A m \in 1 .. Len(s) : g[m] = Op(name, form, g[m - 1], s[m])

FoldIs(name, form, base, s, v) ==
    \E g : Steps(g, name, form, base, s) /\ v = g[Len(s)]

\* Its value for the whole sequence is what the steps lead to.
LEMMA FoldingSteps ==
    ASSUME NEW name, NEW form, NEW base, NEW S, NEW s \in Seq(S), NEW f,
           Folding(f, name, form, base, s, Len(s))
    PROVE  FoldIs(name, form, base, s, f[DOMAIN s])
  <1>. DEFINE n == Len(s)
              g == [m \in 0 .. n |-> f[1 .. m]]
  <1>1. n \in Nat /\ DOMAIN s = 1 .. n
    OBVIOUS
  <1>. HIDE DEF n
  <1>2. f = [T \in SUBSET (1 .. n) |->
                IF T = {} THEN base
                ELSE Op(name, form, f[T \ {Max(T)}], s[Max(T)])]
    BY DEF Folding, n
  <1>3. g[0] = base
    <2>1. 0 \in 0 .. n /\ 1 .. 0 = {} /\ {} \in SUBSET (1 .. n)
      BY <1>1
    <2>. QED BY <1>2, <2>1
  <1>4. ASSUME NEW m \in 1 .. n
        PROVE  g[m] = Op(name, form, g[m - 1], s[m])
    <2>1. /\ 1 .. m \in SUBSET (1 .. n) /\ 1 .. m # {}
          /\ (1 .. m) \ {m} = 1 .. (m - 1) /\ m \in 0 .. n /\ m - 1 \in 0 .. n
          /\ m \in 1 .. m
      <3>1. m \in 0 .. n /\ m - 1 \in 0 .. n /\ m \in 1 .. m
        BY <1>1
      <3>2. \A k : k \in 1 .. m => k \in 1 .. n
        BY <1>1
      <3>3. \A k : k \in (1 .. m) \ {m} <=> k \in 1 .. (m - 1)
        BY <1>1
      <3>. QED BY <3>1, <3>2, <3>3
    <2>2. Max(1 .. m) = m
      <3>1. Max(1 .. m) \in 1 .. m /\ \A k \in 1 .. m : k <= Max(1 .. m)
        BY <1>1, <2>1, MaxOf
      <3>. QED BY <1>1, <2>1, <3>1
    <2>. DEFINE T == 1 .. m
    <2>. HIDE DEF T
    <2>3. T \in SUBSET (1 .. n) /\ T # {}
      BY <2>1 DEF T
    <2>4. f[T] = Op(name, form, f[T \ {Max(T)}], s[Max(T)])
      BY <1>2, <2>3
    <2>5. f[1 .. m] = Op(name, form, f[1 .. (m - 1)], s[m])
      BY <2>1, <2>2, <2>4 DEF T
    <2>. QED BY <2>1, <2>5
  <1>5. g[n] = f[DOMAIN s]
    BY <1>1
  <1>. HIDE DEF g
  <1>. QED BY <1>3, <1>4, <1>5 DEF FoldIs, Steps, n

\* The steps lead to one value.
LEMMA FoldIsUnique ==
    ASSUME NEW name, NEW form, NEW base, NEW S, NEW s \in Seq(S), NEW v, NEW w,
           FoldIs(name, form, base, s, v), FoldIs(name, form, base, s, w)
    PROVE  v = w
  <1>1. PICK g : Steps(g, name, form, base, s) /\ v = g[Len(s)]
    BY DEF FoldIs
  <1>2. PICK h : Steps(h, name, form, base, s) /\ w = h[Len(s)]
    BY DEF FoldIs
  <1>. DEFINE G == { m \in Nat : m <= Len(s) => g[m] = h[m] }
  <1>3. 0 \in G
    BY <1>1, <1>2 DEF Steps
  <1>4. ASSUME NEW m \in Nat, m \in G PROVE m + 1 \in G
    <2>1. CASE m + 1 <= Len(s)
      <3>1. m + 1 \in 1 .. Len(s) /\ m <= Len(s) /\ (m + 1) - 1 = m
        BY <2>1
      <3>2. /\ g[m + 1] = Op(name, form, g[m], s[m + 1])
            /\ h[m + 1] = Op(name, form, h[m], s[m + 1])
        BY <1>1, <1>2, <3>1 DEF Steps
      <3>. QED BY <1>4, <3>1, <3>2
    <2>. QED BY <2>1
  <1>. HIDE DEF G
  <1>5. Len(s) \in G
    BY <1>3, <1>4, SetInduction
  <1>. QED BY <1>1, <1>2, <1>5 DEF G

LEMMA FoldIsNothing ==
    ASSUME NEW name, NEW form, NEW base
    PROVE  FoldIs(name, form, base, << >>, base)
  <1>. DEFINE g == [m \in {0} |-> base]
  <1>1. g[0] = base /\ Len(<< >>) = 0
    OBVIOUS
  <1>. HIDE DEF g
  <1>. QED BY <1>1 DEF FoldIs, Steps

LEMMA FoldIsAppend ==
    ASSUME NEW name, NEW form, NEW base, NEW S, NEW s \in Seq(S), NEW x \in S, NEW v,
           FoldIs(name, form, base, s, v)
    PROVE  FoldIs(name, form, base, Append(s, x), Op(name, form, v, x))
  <1>1. PICK g : Steps(g, name, form, base, s) /\ v = g[Len(s)]
    BY DEF FoldIs
  <1>. DEFINE n == Len(s)
              t == Append(s, x)
              h == [m \in 0 .. n + 1 |-> IF m = n + 1 THEN Op(name, form, v, x) ELSE g[m]]
  <1>2. /\ n \in Nat /\ Len(t) = n + 1 /\ t[n + 1] = x
        /\ \A m \in 1 .. n : t[m] = s[m]
    OBVIOUS
  <1>. HIDE DEF n, t
  <1>3. \A m \in 1 .. n : g[m] = Op(name, form, g[m - 1], s[m])
    BY <1>1 DEF Steps, n
  <1>4. /\ \A m \in 0 .. n : h[m] = g[m]
        /\ h[n + 1] = Op(name, form, v, x)
    BY <1>2
  <1>. HIDE DEF h
  <1>5. h[0] = base
    BY <1>1, <1>2, <1>4 DEF Steps
  <1>6. ASSUME NEW m \in 1 .. n + 1
        PROVE  h[m] = Op(name, form, h[m - 1], t[m])
    <2>1. CASE m = n + 1
      <3>1. m - 1 = n /\ n \in 0 .. n
        BY <1>2, <2>1
      <3>. QED BY <1>1, <1>2, <1>4, <2>1, <3>1 DEF n
    <2>2. CASE m # n + 1
      <3>1. m \in 1 .. n /\ m \in 0 .. n /\ m - 1 \in 0 .. n
        BY <1>2, <2>2
      <3>. QED BY <1>2, <1>3, <1>4, <3>1
    <2>. QED BY <2>1, <2>2
  <1>7. Steps(h, name, form, base, t)
    BY <1>2, <1>5, <1>6 DEF Steps
  <1>8. Op(name, form, v, x) = h[Len(t)]
    BY <1>2, <1>4
  <1>. QED BY <1>7, <1>8 DEF FoldIs, t

\* FoldLeft, for every operator that is folded.
LEMMA FoldProcessor ==
    ASSUME NEW base, NEW S, NEW s \in Seq(S)
    PROVE  FoldIs("processor", 0, base, s, FoldLeft(ReplayProcessor, base, s))
  <1>. DEFINE P(g) == g = [T \in SUBSET DOMAIN s |->
                              IF T = {} THEN base
                              ELSE ReplayProcessor(g[T \ {Max(T)}], s[Max(T)])]
              f == CHOOSE g : P(g)
  <1>0. DOMAIN s = 1 .. Len(s) /\ Len(s) \in Nat
    OBVIOUS
  <1>1. \A g : P(g) <=> Folding(g, "processor", 0, base, s, Len(s))
    BY <1>0 DEF Folding, Op
  <1>2. P(f)
    BY <1>0, <1>1, FoldingExists
  <1>3. FoldLeft(ReplayProcessor, base, s) = f[DOMAIN s]
    BY DEF FoldLeft, MapThenFoldSet
  <1>. HIDE DEF f, P
  <1>. QED BY <1>1, <1>2, <1>3, FoldingSteps

LEMMA FoldRule ==
    ASSUME NEW base, NEW S, NEW s \in Seq(S)
    PROVE  FoldIs("rule", 0, base, s, FoldLeft(ReplayRule, base, s))
  <1>. DEFINE P(g) == g = [T \in SUBSET DOMAIN s |->
                              IF T = {} THEN base
                              ELSE ReplayRule(g[T \ {Max(T)}], s[Max(T)])]
              f == CHOOSE g : P(g)
  <1>1. DOMAIN s = 1 .. Len(s) /\ Len(s) \in Nat
    OBVIOUS
  <1>2. \A g : P(g) <=> Folding(g, "rule", 0, base, s, Len(s))
    BY <1>1 DEF Folding, Op
  <1>3. P(f)
    BY <1>1, <1>2, FoldingExists
  <1>4. FoldLeft(ReplayRule, base, s) = f[DOMAIN s]
    BY DEF FoldLeft, MapThenFoldSet
  <1>. HIDE DEF f, P
  <1>. QED BY <1>2, <1>3, <1>4, FoldingSteps

LEMMA FoldExtend ==
    ASSUME NEW base, NEW S, NEW s \in Seq(S)
    PROVE  FoldIs("extend", 0, base, s, FoldLeft(ExtendAll, base, s))
  <1>. DEFINE P(g) == g = [T \in SUBSET DOMAIN s |->
                              IF T = {} THEN base
                              ELSE ExtendAll(g[T \ {Max(T)}], s[Max(T)])]
              f == CHOOSE g : P(g)
  <1>1. DOMAIN s = 1 .. Len(s) /\ Len(s) \in Nat
    OBVIOUS
  <1>2. \A g : P(g) <=> Folding(g, "extend", 0, base, s, Len(s))
    BY <1>1 DEF Folding, Op
  <1>3. P(f)
    BY <1>1, <1>2, FoldingExists
  <1>4. FoldLeft(ExtendAll, base, s) = f[DOMAIN s]
    BY DEF FoldLeft, MapThenFoldSet
  <1>. HIDE DEF f, P
  <1>. QED BY <1>2, <1>3, <1>4, FoldingSteps

LEMMA FoldVariant ==
    ASSUME NEW base, NEW S, NEW s \in Seq(S)
    PROVE  FoldIs("variant", 0, base, s, FoldLeft(AddVariant, base, s))
  <1>. DEFINE P(g) == g = [T \in SUBSET DOMAIN s |->
                              IF T = {} THEN base
                              ELSE AddVariant(g[T \ {Max(T)}], s[Max(T)])]
              f == CHOOSE g : P(g)
  <1>1. DOMAIN s = 1 .. Len(s) /\ Len(s) \in Nat
    OBVIOUS
  <1>2. \A g : P(g) <=> Folding(g, "variant", 0, base, s, Len(s))
    BY <1>1 DEF Folding, Op
  <1>3. P(f)
    BY <1>1, <1>2, FoldingExists
  <1>4. FoldLeft(AddVariant, base, s) = f[DOMAIN s]
    BY DEF FoldLeft, MapThenFoldSet
  <1>. HIDE DEF f, P
  <1>. QED BY <1>2, <1>3, <1>4, FoldingSteps

LEMMA FoldProcess ==
    ASSUME NEW base, NEW S, NEW s \in Seq(S)
    PROVE  FoldIs("process", 0, base, s, FoldLeft(ProcessAll, base, s))
  <1>. DEFINE P(g) == g = [T \in SUBSET DOMAIN s |->
                              IF T = {} THEN base
                              ELSE ProcessAll(g[T \ {Max(T)}], s[Max(T)])]
              f == CHOOSE g : P(g)
  <1>1. DOMAIN s = 1 .. Len(s) /\ Len(s) \in Nat
    OBVIOUS
  <1>2. \A g : P(g) <=> Folding(g, "process", 0, base, s, Len(s))
    BY <1>1 DEF Folding, Op
  <1>3. P(f)
    BY <1>1, <1>2, FoldingExists
  <1>4. FoldLeft(ProcessAll, base, s) = f[DOMAIN s]
    BY DEF FoldLeft, MapThenFoldSet
  <1>. HIDE DEF f, P
  <1>. QED BY <1>2, <1>3, <1>4, FoldingSteps

LEMMA FoldCandidate ==
    ASSUME NEW base, NEW S, NEW s \in Seq(S)
    PROVE  FoldIs("candidate", 0, base, s, FoldLeft(AddCandidate, base, s))
  <1>. DEFINE P(g) == g = [T \in SUBSET DOMAIN s |->
                              IF T = {} THEN base
                              ELSE AddCandidate(g[T \ {Max(T)}], s[Max(T)])]
              f == CHOOSE g : P(g)
  <1>1. DOMAIN s = 1 .. Len(s) /\ Len(s) \in Nat
    OBVIOUS
  <1>2. \A g : P(g) <=> Folding(g, "candidate", 0, base, s, Len(s))
    BY <1>1 DEF Folding, Op
  <1>3. P(f)
    BY <1>1, <1>2, FoldingExists
  <1>4. FoldLeft(AddCandidate, base, s) = f[DOMAIN s]
    BY DEF FoldLeft, MapThenFoldSet
  <1>. HIDE DEF f, P
  <1>. QED BY <1>2, <1>3, <1>4, FoldingSteps

LEMMA FoldApply ==
    ASSUME NEW form, NEW S, NEW s \in Seq(S), s = [k \in DOMAIN Rules |-> k],
           NEW base, base = [forms |-> forms, lastIndex |-> lastIndex]
    PROVE  FoldIs("apply", form, base, s, ApplyAll(form))
  <1>. DEFINE P(g) == g = [T \in SUBSET DOMAIN s |->
                              IF T = {} THEN base
                              ELSE ApplyNth(form, g[T \ {Max(T)}], s[Max(T)])]
              f == CHOOSE g : P(g)
  <1>1. DOMAIN s = 1 .. Len(s) /\ Len(s) \in Nat
    OBVIOUS
  <1>2. \A g : P(g) <=> Folding(g, "apply", form, base, s, Len(s))
    BY <1>1 DEF Folding, Op
  <1>3. P(f)
    BY ONLY <1>1, <1>2, FoldingExists
  <1>4. ApplyAll(form) = f[DOMAIN s]
    BY DEF ApplyAll, FoldLeft, MapThenFoldSet
  <1>. HIDE DEF f, P
  <1>. QED BY <1>2, <1>3, <1>4, FoldingSteps

LEMMA FoldSource ==
    ASSUME NEW chars, NEW form, form = Scanned(chars), NEW S, NEW s \in Seq(S),
           s = [n \in DOMAIN Scanned(chars) |-> Len(Scanned(chars)) + 1 - n]
    PROVE  FoldIs("source", form, << >>, s, RawSources(chars))
  <1>. DEFINE P(g) == g = [T \in SUBSET DOMAIN s |->
                              IF T = {} THEN << >>
                              ELSE AddSource(form, g[T \ {Max(T)}], s[Max(T)])]
              f == CHOOSE g : P(g)
  <1>1. DOMAIN s = 1 .. Len(s) /\ Len(s) \in Nat
    OBVIOUS
  <1>2. \A g : P(g) <=> Folding(g, "source", form, << >>, s, Len(s))
    BY <1>1 DEF Folding, Op
  <1>3. P(f)
    BY ONLY <1>1, <1>2, FoldingExists
  <1>4. RawSources(chars) = f[DOMAIN s]
    BY DEF RawSources, FoldLeft, MapThenFoldSet
  <1>. HIDE DEF f, P
  <1>. QED BY <1>2, <1>3, <1>4, FoldingSteps

-----------------------------------------------------------------------------
(* Sequences whose elements can be anything *)

\* A sequence of anything.
IsSeq(s) == s \in Seq(RangeOf(s))

LEMMA SeqIs ==
    ASSUME NEW S, NEW s \in Seq(S)
    PROVE  IsSeq(s) /\ RangeOf(s) \subseteq S
  <1>1. /\ Len(s) \in Nat /\ DOMAIN s = 1 .. Len(s)
        /\ s = [k \in 1 .. Len(s) |-> s[k]] /\ \A k \in 1 .. Len(s) : s[k] \in S
    OBVIOUS
  <1>. DEFINE R == RangeOf(s)
              n == Len(s)
  <1>2. \A k \in 1 .. n : s[k] \in R
    BY <1>1 DEF RangeOf
  <1>. HIDE DEF R
  <1>3. [k \in 1 .. n |-> s[k]] \in Seq(R)
    BY <1>1, <1>2
  <1>. QED BY <1>1, <1>3 DEF IsSeq, RangeOf, R

LEMMA IsSeqFacts ==
    ASSUME NEW s, IsSeq(s)
    PROVE  /\ Len(s) \in Nat /\ DOMAIN s = 1 .. Len(s) /\ s \in Seq(RangeOf(s))
           /\ \A k \in 1 .. Len(s) : s[k] \in RangeOf(s)
  <1>. DEFINE R == RangeOf(s)
  <1>1. s \in Seq(R)
    BY DEF IsSeq
  <1>. HIDE DEF R
  <1>2. /\ Len(s) \in Nat /\ DOMAIN s = 1 .. Len(s)
        /\ \A k \in 1 .. Len(s) : s[k] \in R
    BY <1>1
  <1>. QED BY <1>1, <1>2 DEF R

LEMMA IsSeqIn ==
    ASSUME NEW S, NEW s, IsSeq(s), RangeOf(s) \subseteq S
    PROVE  s \in Seq(S)
  <1>1. s \in Seq(RangeOf(s))
    BY DEF IsSeq
  <1>. QED BY <1>1

LEMMA NothingIsSeq == IsSeq(<< >>) /\ Len(<< >>) = 0 /\ RangeOf(<< >>) = {}
  <1>1. << >> \in Seq({}) /\ Len(<< >>) = 0 /\ DOMAIN << >> = {}
    OBVIOUS
  <1>. QED BY <1>1, SeqIs DEF RangeOf

LEMMA OneIsSeq ==
    ASSUME NEW a
    PROVE  IsSeq(<< a >>) /\ Len(<< a >>) = 1 /\ << a >>[1] = a
  <1>1. << a >> \in Seq({a})
    OBVIOUS
  <1>. QED BY <1>1, SeqIs

LEMMA TwoIsSeq ==
    ASSUME NEW a, NEW b
    PROVE  /\ IsSeq(<< a, b >>) /\ Len(<< a, b >>) = 2
           /\ << a, b >>[1] = a /\ << a, b >>[2] = b
  <1>1. << a, b >> \in Seq({a, b})
    OBVIOUS
  <1>. QED BY <1>1, SeqIs

LEMMA ThreeIsSeq ==
    ASSUME NEW a, NEW b, NEW c
    PROVE  /\ IsSeq(<< a, b, c >>) /\ Len(<< a, b, c >>) = 3
           /\ << a, b, c >>[1] = a /\ << a, b, c >>[2] = b /\ << a, b, c >>[3] = c
  <1>1. << a, b, c >> \in Seq({a, b, c})
    OBVIOUS
  <1>. QED BY <1>1, SeqIs

LEMMA ConcatIsSeq ==
    ASSUME NEW s, NEW t, IsSeq(s), IsSeq(t)
    PROVE  /\ IsSeq(s \o t) /\ Len(s \o t) = Len(s) + Len(t)
           /\ RangeOf(s \o t) \subseteq RangeOf(s) \cup RangeOf(t)
           /\ \A k \in 1 .. Len(s) : (s \o t)[k] = s[k]
           /\ \A k \in 1 .. Len(t) : (s \o t)[Len(s) + k] = t[k]
  <1>. DEFINE S == RangeOf(s) \cup RangeOf(t)
  <1>1. s \in Seq(S) /\ t \in Seq(S)
    BY IsSeqIn
  <1>. HIDE DEF S
  <1>2. s \o t \in Seq(S)
    BY ONLY <1>1
  <1>3. IsSeq(s \o t) /\ RangeOf(s \o t) \subseteq S
    BY ONLY <1>2, SeqIs
  <1>4. /\ Len(s \o t) = Len(s) + Len(t)
        /\ \A k \in 1 .. Len(s) : (s \o t)[k] = s[k]
        /\ \A k \in 1 .. Len(t) : (s \o t)[Len(s) + k] = t[k]
    BY ONLY <1>1, ConcatFacts
  <1>. QED BY <1>3, <1>4 DEF S

LEMMA AppendIsSeq ==
    ASSUME NEW s, NEW x, IsSeq(s)
    PROVE  /\ IsSeq(Append(s, x)) /\ Len(Append(s, x)) = Len(s) + 1
           /\ Append(s, x)[Len(s) + 1] = x
           /\ \A k \in 1 .. Len(s) : Append(s, x)[k] = s[k]
           /\ RangeOf(Append(s, x)) \subseteq RangeOf(s) \cup {x}
  <1>. DEFINE S == RangeOf(s) \cup {x}
              t == Append(s, x)
  <1>1. s \in Seq(S) /\ x \in S
    BY IsSeqIn
  <1>. HIDE DEF S
  <1>2. /\ t \in Seq(S) /\ Len(t) = Len(s) + 1 /\ t[Len(s) + 1] = x
        /\ \A k \in 1 .. Len(s) : t[k] = s[k]
    BY ONLY <1>1
  <1>3. IsSeq(t) /\ RangeOf(t) \subseteq S
    BY ONLY <1>2, SeqIs
  <1>. QED BY <1>2, <1>3 DEF S

LEMMA SubSeqIsSeq ==
    ASSUME NEW s, IsSeq(s), NEW m \in Nat, NEW n \in Nat, 1 <= m, m <= n + 1, n <= Len(s)
    PROVE  /\ IsSeq(SubSeq(s, m, n)) /\ RangeOf(SubSeq(s, m, n)) \subseteq RangeOf(s)
           /\ Len(SubSeq(s, m, n)) = n - m + 1
           /\ \A k \in 1 .. n - m + 1 : SubSeq(s, m, n)[k] = s[m + k - 1]
  <1>. DEFINE S == RangeOf(s)
              t == SubSeq(s, m, n)
  <1>1. s \in Seq(S)
    BY IsSeqFacts
  <1>. HIDE DEF S
  <1>2. /\ t \in Seq(S) /\ Len(t) = n - m + 1
        /\ \A k \in 1 .. n - m + 1 : t[k] = s[m + k - 1]
    BY <1>1
  <1>. HIDE DEF t
  <1>3. IsSeq(t) /\ RangeOf(t) \subseteq S
    BY ONLY <1>2, SeqIs
  <1>. QED BY <1>2, <1>3 DEF S, t

LEMMA FunctionIsSeq ==
    ASSUME NEW f, NEW n \in Nat, f = [k \in 1 .. n |-> f[k]]
    PROVE  IsSeq(f) /\ Len(f) = n
  <1>. DEFINE S == { f[k] : k \in 1 .. n }
  <1>1. \A k \in 1 .. n : f[k] \in S
    OBVIOUS
  <1>. HIDE DEF S
  <1>2. [k \in 1 .. n |-> f[k]] \in Seq(S) /\ Len([k \in 1 .. n |-> f[k]]) = n
    BY <1>1
  <1>. QED BY <1>2, SeqIs

LEMMA IsSeqElement ==
    ASSUME NEW s, IsSeq(s), NEW e \in RangeOf(s)
    PROVE  \E k \in 1 .. Len(s) : e = s[k]
  BY IsSeqFacts DEF RangeOf

\* The elements of a sequence of sequences, one after another.
LEMMA FlattenElements ==
    ASSUME NEW p, IsSeq(p), \A i \in DOMAIN p : IsSeq(p[i])
    PROVE  /\ IsSeq(FlattenSeq(p))
           /\ \A e \in RangeOf(FlattenSeq(p)) : \E i \in DOMAIN p : e \in RangeOf(p[i])
  <1>. DEFINE S == UNION { RangeOf(p[i]) : i \in DOMAIN p }
  <1>1. /\ Len(p) \in Nat /\ DOMAIN p = 1 .. Len(p) /\ p \in Seq(RangeOf(p))
    BY IsSeqFacts
  <1>2. RangeOf(p) \subseteq Seq(S)
    <2>1. ASSUME NEW i \in DOMAIN p PROVE p[i] \in Seq(S)
      <3>1. RangeOf(p[i]) \subseteq S
        OBVIOUS
      <3>. HIDE DEF S
      <3>. QED BY <3>1, IsSeqIn
    <2>. QED BY <2>1 DEF RangeOf
  <1>. HIDE DEF S
  <1>3. p \in Seq(Seq(S))
    BY <1>2, IsSeqIn
  <1>4. FlattenSeq(p) \in Seq(S)
    BY <1>3, FlattenIsSeq
  <1>5. IsSeq(FlattenSeq(p)) /\ RangeOf(FlattenSeq(p)) \subseteq S
    BY <1>4, SeqIs
  <1>. QED BY <1>5 DEF S

\* If the last of them has an element, so has what they make.
LEMMA FlattenSome ==
    ASSUME NEW p, IsSeq(p), \A i \in DOMAIN p : IsSeq(p[i]) /\ Len(p[i]) >= 1,
           Len(p) >= 1
    PROVE  Len(FlattenSeq(p)) >= 1
  <1>. DEFINE S == UNION { RangeOf(p[i]) : i \in DOMAIN p }
  <1>1. /\ Len(p) \in Nat /\ DOMAIN p = 1 .. Len(p) /\ p \in Seq(RangeOf(p))
    BY IsSeqFacts
  <1>2. RangeOf(p) \subseteq Seq(S)
    <2>1. ASSUME NEW i \in DOMAIN p PROVE p[i] \in Seq(S)
      <3>1. RangeOf(p[i]) \subseteq S
        OBVIOUS
      <3>. HIDE DEF S
      <3>. QED BY <3>1, IsSeqIn
    <2>. QED BY <2>1 DEF RangeOf
  <1>. HIDE DEF S
  <1>3. p \in Seq(Seq(S))
    BY <1>2, IsSeqIn
  <1>4. PICK h : Spelling(h, S, p) /\ h[Len(p)] = FlattenSeq(p)
    BY <1>3, FlattenSpells DEF Spells
  <1>. DEFINE n == Len(p)
  <1>5. n \in 1 .. n /\ n - 1 \in 0 .. n /\ IsSeq(p[n]) /\ Len(p[n]) >= 1
    BY <1>1
  <1>6. h[n] = h[n - 1] \o p[n] /\ h[n - 1] \in Seq(S)
    BY <1>4, <1>5 DEF Spelling
  <1>7. IsSeq(h[n - 1]) /\ Len(h[n - 1]) \in Nat /\ Len(p[n]) \in Nat
    BY <1>5, <1>6, SeqIs, IsSeqFacts
  <1>8. Len(h[n]) = Len(h[n - 1]) + Len(p[n])
    BY ONLY <1>5, <1>6, <1>7, ConcatIsSeq
  <1>9. Len(h[n]) >= 1
    <2>. DEFINE a == Len(h[n - 1])
                b == Len(p[n])
    <2>1. a \in Nat /\ b \in Nat /\ b >= 1
      BY <1>5, <1>7
    <2>. HIDE DEF a, b
    <2>2. a + b >= 1
      BY <2>1
    <2>. QED BY <1>8, <2>2 DEF a, b
  <1>. QED BY <1>4, <1>9

\* Replacing a pattern of at least one character gives a text.
LEMMA ReplacedIsSeq ==
    ASSUME NEW pattern, NEW by, NEW chars, IsSeq(pattern), IsSeq(by), IsSeq(chars),
           Len(pattern) >= 1
    PROVE  IsSeq(Replaced(pattern, by, chars))
  <1>. DEFINE n == Len(chars)
              m == Len(pattern)
              N == n + m
              Body(f, k) == IF k > n THEN << >>
                            ELSE IF OccursAt(pattern, chars, k)
                            THEN by \o f[k + m]
                            ELSE << chars[k] >> \o f[k + 1]
              P(f) == f = [k \in 1 .. N |->
                              IF k > n THEN << >>
                              ELSE IF OccursAt(pattern, chars, k)
                              THEN by \o f[k + m]
                              ELSE << chars[k] >> \o f[k + 1]]
              r == CHOOSE f : P(f)
  <1>1. n \in Nat /\ m \in Nat /\ m >= 1 /\ N \in Nat /\ N = n + m
    BY IsSeqFacts
  <1>2. Replaced(pattern, by, chars) = r[1]
    BY DEF Replaced
  <1>. HIDE DEF n, m, N
  <1>3. \E f : P(f)
    <2>. DEFINE From(f, j) == \A k \in (N + 1) - j .. N : k >= 1 => f[k] = Body(f, k)
                G == { j \in Nat : \E f : From(f, j) }
    <2>1. 0 \in G
      BY <1>1
    <2>2. ASSUME NEW j \in Nat, j \in G PROVE j + 1 \in G
      <3>1. PICK f : From(f, j)
        BY <2>2
      <3>. DEFINE a == N - j
                  g == [k \in a .. N |-> IF k = a THEN Body(f, k) ELSE f[k]]
      <3>2. a \in Int /\ (N + 1) - j = a + 1 /\ (N + 1) - (j + 1) = a
        BY <1>1
      <3>. HIDE DEF a
      <3>3. ASSUME NEW k \in a .. N, k >= 1 PROVE g[k] = Body(g, k)
        <4>1. k <= n => /\ k + m \in a .. N /\ k + m # a
                        /\ k + 1 \in a .. N /\ k + 1 # a
          BY <1>1, <3>2, <3>3
        <4>2. k <= n => g[k + m] = f[k + m] /\ g[k + 1] = f[k + 1]
          BY <4>1
        <4>3. Body(g, k) = Body(f, k)
          <5>. HIDE DEF g
          <5>. QED BY <1>1, <3>2, <4>2
        <4>4. k # a => f[k] = Body(f, k)
          <5>1. k # a => k \in a + 1 .. N
            BY <1>1, <3>2
          <5>. QED BY <3>1, <3>2, <3>3, <5>1
        <4>5. g[k] = IF k = a THEN Body(f, k) ELSE f[k]
          OBVIOUS
        <4>. QED BY <4>3, <4>4, <4>5
      <3>. HIDE DEF g
      <3>4. From(g, j + 1)
        BY <3>2, <3>3
      <3>. QED BY <3>4
    <2>. HIDE DEF G
    <2>3. N \in G
      BY <1>1, <2>1, <2>2, SetInduction
    <2>4. PICK f : From(f, N)
      BY <2>3 DEF G
    <2>. DEFINE g == [k \in 1 .. N |-> f[k]]
    <2>5. ASSUME NEW k \in 1 .. N PROVE g[k] = Body(g, k)
      <3>1. k <= n => k + m \in 1 .. N /\ k + 1 \in 1 .. N
        BY <1>1
      <3>2. k <= n => g[k + m] = f[k + m] /\ g[k + 1] = f[k + 1]
        BY <3>1
      <3>3. f[k] = Body(f, k)
        <4>1. k \in (N + 1) - N .. N /\ k >= 1
          BY <1>1
        <4>. QED BY <2>4, <4>1
      <3>4. g[k] = f[k]
        OBVIOUS
      <3>. HIDE DEF g
      <3>. QED BY <1>1, <3>2, <3>3, <3>4
    <2>6. g = [k \in 1 .. N |-> g[k]]
      OBVIOUS
    <2>. HIDE DEF g
    <2>7. g = [k \in 1 .. N |-> Body(g, k)]
      BY <2>5, <2>6
    <2>8. P(g)
      BY <2>7
    <2>. QED BY <2>8
  <1>4. P(r)
    <2>. HIDE DEF P
    <2>. QED BY <1>3
  <1>. HIDE DEF r
  <1>5. \A k \in 1 .. N : r[k] = Body(r, k)
    BY <1>4
  <1>. DEFINE G == { j \in Nat : \A k \in (N + 1) - j .. N : k >= 1 => IsSeq(r[k]) }
  <1>6. 0 \in G
    BY <1>1
  <1>7. ASSUME NEW j \in Nat, j \in G PROVE j + 1 \in G
    <2>. DEFINE a == N - j
    <2>1. a \in Int /\ (N + 1) - j = a + 1 /\ (N + 1) - (j + 1) = a
      BY <1>1
    <2>. HIDE DEF a
    <2>2. \A k \in a + 1 .. N : k >= 1 => IsSeq(r[k])
      BY <1>7, <2>1
    <2>3. ASSUME a >= 1, a <= N PROVE IsSeq(r[a])
      <3>0. a \in 1 .. N
        BY <1>1, <2>1, <2>3
      <3>1. r[a] = Body(r, a)
        BY <1>5, <3>0
      <3>2. CASE a > n
        BY <3>1, <3>2, NothingIsSeq
      <3>3. CASE ~(a > n)
        <4>1. a + m \in a + 1 .. N /\ a + 1 \in a + 1 .. N /\ a + m >= 1 /\ a + 1 >= 1
          BY <1>1, <2>1, <2>3, <3>3
        <4>2. IsSeq(r[a + m]) /\ IsSeq(r[a + 1])
          BY <2>2, <4>1
        <4>3. IsSeq(by \o r[a + m]) /\ IsSeq(<< chars[a] >> \o r[a + 1])
          BY <4>2, ConcatIsSeq, OneIsSeq
        <4>. QED BY <3>1, <3>3, <4>3
      <3>. QED BY <3>2, <3>3
    <2>4. ASSUME NEW k \in a .. N, k >= 1 PROVE IsSeq(r[k])
      <3>1. CASE k = a
        <4>1. a >= 1 /\ a <= N
          BY <2>4, <3>1
        <4>. QED BY <2>3, <3>1, <4>1
      <3>2. CASE k # a
        <4>1. k \in a + 1 .. N
          BY <1>1, <2>1, <3>2
        <4>. QED BY <2>2, <2>4, <4>1
      <3>. QED BY <3>1, <3>2
    <2>. QED BY <2>1, <2>4
  <1>. HIDE DEF G
  <1>8. N \in G
    BY <1>1, <1>6, <1>7, SetInduction
  <1>9. IsSeq(r[1])
    <2>1. 1 \in (N + 1) - N .. N
      BY <1>1
    <2>. QED BY <1>8, <2>1 DEF G
  <1>. QED BY <1>2, <1>9

-----------------------------------------------------------------------------
(* Text processors *)

\* The texts a text processor makes of one: at least one.
TextsMade(made) == IsSeq(made) /\ Len(made) >= 1 /\ \A t \in RangeOf(made) : IsSeq(t)

LEMMA OneMade ==
    ASSUME NEW a, IsSeq(a)
    PROVE  TextsMade(<< a >>)
  <1>1. IsSeq(<< a >>) /\ Len(<< a >>) = 1 /\ << a >>[1] = a
    BY OneIsSeq
  <1>. QED BY <1>1, IsSeqElement DEF TextsMade

LEMMA TwoMade ==
    ASSUME NEW a, NEW b, IsSeq(a), IsSeq(b)
    PROVE  TextsMade(<< a, b >>)
  <1>. DEFINE t == << a, b >>
  <1>1. IsSeq(t) /\ Len(t) = 2 /\ t[1] = a /\ t[2] = b
    BY TwoIsSeq
  <1>. HIDE DEF t
  <1>2. ASSUME NEW e \in RangeOf(t) PROVE IsSeq(e)
    <2>1. PICK k \in 1 .. 2 : e = t[k]
      BY <1>1, IsSeqElement
    <2>2. k = 1 \/ k = 2
      OBVIOUS
    <2>. QED BY <1>1, <2>1, <2>2
  <1>3. TextsMade(t)
    BY <1>1, <1>2 DEF TextsMade
  <1>. QED BY <1>3 DEF t

LEMMA ThreeMade ==
    ASSUME NEW a, NEW b, NEW c, IsSeq(a), IsSeq(b), IsSeq(c)
    PROVE  TextsMade(<< a, b, c >>)
  <1>. DEFINE t == << a, b, c >>
  <1>1. IsSeq(t) /\ Len(t) = 3 /\ t[1] = a /\ t[2] = b /\ t[3] = c
    BY ThreeIsSeq
  <1>. HIDE DEF t
  <1>2. ASSUME NEW e \in RangeOf(t) PROVE IsSeq(e)
    <2>1. PICK k \in 1 .. 3 : e = t[k]
      BY <1>1, IsSeqElement
    <2>2. k = 1 \/ k = 2 \/ k = 3
      OBVIOUS
    <2>. QED BY <1>1, <2>1, <2>2
  <1>3. TextsMade(t)
    BY <1>1, <1>2 DEF TextsMade
  <1>. QED BY <1>3 DEF t

\* The texts that addSerboCroatianDiacritics has, with every choice of a letter.
LEMMA ExtendMade ==
    ASSUME NEW found, NEW choices, TextsMade(found), TextsMade(choices)
    PROVE  TextsMade(ExtendAll(found, choices))
  <1>. DEFINE p == [v \in DOMAIN found |-> [c \in DOMAIN choices |-> found[v] \o choices[c]]]
              made == FlattenSeq(p)
              n == IF Len(made) < MaxProcessVariants THEN Len(made) ELSE MaxProcessVariants
  <1>1. /\ IsSeq(found) /\ Len(found) >= 1 /\ Len(found) \in Nat
        /\ IsSeq(choices) /\ Len(choices) >= 1 /\ Len(choices) \in Nat
        /\ DOMAIN found = 1 .. Len(found) /\ DOMAIN choices = 1 .. Len(choices)
    BY IsSeqFacts DEF TextsMade
  <1>2. IsSeq(p) /\ Len(p) = Len(found) /\ DOMAIN p = DOMAIN found
    BY <1>1, FunctionIsSeq
  <1>3. ASSUME NEW v \in DOMAIN found
        PROVE  /\ IsSeq(p[v]) /\ Len(p[v]) >= 1
               /\ \A e \in RangeOf(p[v]) : IsSeq(e)
    <2>. DEFINE q == [c \in DOMAIN choices |-> found[v] \o choices[c]]
    <2>1. IsSeq(q) /\ Len(q) = Len(choices) /\ DOMAIN q = DOMAIN choices
      BY <1>1, FunctionIsSeq
    <2>2. ASSUME NEW c \in DOMAIN choices PROVE IsSeq(found[v] \o choices[c])
      <3>1. IsSeq(found[v]) /\ IsSeq(choices[c])
        BY <1>1, IsSeqFacts DEF TextsMade
      <3>. QED BY <3>1, ConcatIsSeq
    <2>3. \A e \in RangeOf(q) : IsSeq(e)
      BY <2>1, <2>2 DEF RangeOf
    <2>4. p[v] = q
      OBVIOUS
    <2>. HIDE DEF p, q
    <2>. QED BY <1>1, <2>1, <2>3, <2>4
  <1>. HIDE DEF p
  <1>4. IsSeq(made) /\ Len(made) >= 1 /\ \A e \in RangeOf(made) : IsSeq(e)
    BY <1>1, <1>2, <1>3, FlattenElements, FlattenSome
  <1>5. Len(made) \in Nat
    BY <1>4, IsSeqFacts
  <1>6. ExtendAll(found, choices) = SubSeq(made, 1, n)
    BY DEF ExtendAll, p
  <1>. HIDE DEF made
  <1>7. n \in Nat /\ 1 <= n /\ n <= Len(made) /\ 1 <= n + 1
    BY <1>4, <1>5 DEF MaxProcessVariants
  <1>. HIDE DEF n
  <1>. DEFINE t == SubSeq(made, 1, n)
  <1>8. IsSeq(t) /\ RangeOf(t) \subseteq RangeOf(made) /\ Len(t) = n - 1 + 1
    BY <1>4, <1>7, SubSeqIsSeq
  <1>. HIDE DEF t
  <1>9. TextsMade(t)
    BY <1>4, <1>7, <1>8 DEF TextsMade
  <1>. QED BY <1>6, <1>9 DEF t

LEMMA DiacriticsMade ==
    ASSUME NEW chars, IsSeq(chars)
    PROVE  TextsMade(AddDiacritics(chars))
  <1>. DEFINE Skipped(k) == k > 1 /\ chars[k] = "j" /\ chars[k - 1] = "d"
              ChoicesAt(k) ==
                 IF Skipped(k) THEN << << >> >>
                 ELSE IF OccursAt(<< "d", "j" >>, chars, k)
                 THEN << << "d", "j" >>, << "dj" >> >>
                 ELSE MarkChoices(chars, k)
              s == [k \in DOMAIN chars |-> ChoicesAt(k)]
              base == << << >> >>
  <1>1. AddDiacritics(chars) = FoldLeft(ExtendAll, base, s)
    BY DEF AddDiacritics
  <1>2. TextsMade(base)
    BY NothingIsSeq, OneMade
  <1>3. ASSUME NEW k PROVE TextsMade(ChoicesAt(k))
    <2>1. TextsMade(<< << "d", "j" >>, << "dj" >> >>)
      BY OneIsSeq, TwoIsSeq, TwoMade
    <2>2. TextsMade(MarkChoices(chars, k))
      <3>1. /\ TextsMade(<< << "c" >>, << "c^" >>, << "c/" >> >>)
            /\ TextsMade(<< << "s" >>, << "s^" >> >>)
            /\ TextsMade(<< << chars[k] >> >>)
        BY OneIsSeq, OneMade, TwoMade, ThreeMade
      <3>. QED BY <3>1 DEF MarkChoices
    <2>. QED BY <1>2, <2>1, <2>2
  <1>. HIDE DEF base, ChoicesAt
  <1>4. DOMAIN chars = 1 .. Len(chars) /\ Len(chars) \in Nat
    BY IsSeqFacts
  <1>5. IsSeq(s) /\ Len(s) = Len(chars) /\ \A k \in 1 .. Len(s) : s[k] = ChoicesAt(k)
    <2>1. s = [k \in 1 .. Len(chars) |-> s[k]] /\ \A k \in 1 .. Len(chars) : s[k] = ChoicesAt(k)
      BY <1>4
    <2>. HIDE DEF s
    <2>. QED BY <1>4, <2>1, FunctionIsSeq
  <1>. HIDE DEF s
  <1>6. PICK g : /\ Steps(g, "extend", 0, base, s)
                 /\ FoldLeft(ExtendAll, base, s) = g[Len(s)]
    <2>1. s \in Seq(RangeOf(s))
      BY <1>5 DEF IsSeq
    <2>2. FoldIs("extend", 0, base, s, FoldLeft(ExtendAll, base, s))
      BY <2>1, FoldExtend
    <2>. QED BY <2>2 DEF FoldIs
  <1>. DEFINE G == { m \in Nat : m <= Len(s) => TextsMade(g[m]) }
  <1>7. 0 \in G
    BY <1>2, <1>6 DEF Steps
  <1>8. ASSUME NEW m \in Nat, m \in G PROVE m + 1 \in G
    <2>1. CASE m + 1 <= Len(s)
      <3>1. m + 1 \in 1 .. Len(s) /\ m <= Len(s) /\ (m + 1) - 1 = m
        BY <1>4, <1>5, <2>1
      <3>2. g[m + 1] = ExtendAll(g[m], s[m + 1])
        BY <1>6, <3>1 DEF Steps, Op
      <3>3. TextsMade(s[m + 1])
        BY <1>3, <1>5, <3>1
      <3>. QED BY <1>8, <3>1, <3>2, <3>3, ExtendMade
    <2>. QED BY <2>1
  <1>. HIDE DEF G
  <1>9. Len(s) \in G
    BY <1>4, <1>5, <1>7, <1>8, SetInduction
  <1>. QED BY <1>1, <1>4, <1>5, <1>6, <1>9 DEF G

\* Every text processor makes texts of a text.
LEMMA ProcessMade ==
    ASSUME NEW processor \in Processors, NEW chars, IsSeq(chars)
    PROVE  TextsMade(Process(processor, chars))
  <1>1. DOMAIN chars = 1 .. Len(chars) /\ Len(chars) \in Nat
    BY IsSeqFacts
  <1>2. TextsMade(Decapitalize(chars))
    <2>1. IsSeq([k \in DOMAIN chars |-> Lower(chars[k])])
      BY <1>1, FunctionIsSeq
    <2>. QED BY <2>1, TwoMade DEF Decapitalize
  <1>3. TextsMade(CapitalizeFirstLetter(chars))
    <2>1. IsSeq([k \in DOMAIN chars |-> IF k = 1 THEN Upper(chars[1]) ELSE chars[k]])
      BY <1>1, FunctionIsSeq
    <2>. QED BY <2>1, TwoMade DEF CapitalizeFirstLetter
  <1>4. TextsMade(Eszett(chars))
    <2>1. /\ IsSeq(Replaced(<< "B" >>, << "s", "s" >>, chars))
          /\ IsSeq(Replaced(<< "s", "s" >>, << "B" >>, chars))
      BY OneIsSeq, TwoIsSeq, ReplacedIsSeq
    <2>. QED BY <2>1, ThreeMade DEF Eszett
  <1>5. TextsMade(ApostropheVariants(chars))
    <2>1. /\ IsSeq(Replaced(<< "'" >>, << "rsquo" >>, chars))
          /\ IsSeq(Replaced(<< "rsquo" >>, << "'" >>, chars))
      BY OneIsSeq, ReplacedIsSeq
    <2>. QED BY <2>1, ThreeMade DEF ApostropheVariants
  <1>6. TextsMade(RemoveApostrophedWords(chars))
    <2>1. IsSeq(Replaced(<< "l", "'" >>, << >>, chars))
      BY TwoIsSeq, NothingIsSeq, ReplacedIsSeq
    <2>. QED BY <2>1, TwoMade DEF RemoveApostrophedWords
  <1>7. TextsMade(RemoveDiacritics(chars))
    <2>1. IsSeq(Replaced(<< "/" >>, << >>, chars))
      BY OneIsSeq, NothingIsSeq, ReplacedIsSeq
    <2>. QED BY <2>1, TwoMade DEF RemoveDiacritics
  <1>8. TextsMade(AddHamzaTop(chars))
    <2>. DEFINE first == SelectInSeq(chars, LAMBDA c : c = "alif")
    <2>. HIDE DEF first
    <2>1. IsSeq([k \in DOMAIN chars |-> IF k = first THEN "alif hamza" ELSE chars[k]])
      BY <1>1, FunctionIsSeq
    <2>. QED BY <2>1, TwoMade DEF AddHamzaTop, first
  <1>9. TextsMade(ConvertFinalLetters(chars))
    <2>1. IsSeq([k \in DOMAIN chars |->
                    IF k = Len(chars) /\ chars[k] = "mem" THEN "final mem" ELSE chars[k]])
      BY <1>1, FunctionIsSeq
    <2>. QED BY <2>1, OneMade DEF ConvertFinalLetters
  <1>10. TextsMade(AddDiacritics(chars))
    BY DiacriticsMade
  <1>. QED BY <1>2, <1>3, <1>4, <1>5, <1>6, <1>7, <1>8, <1>9, <1>10
           DEF Processors, Process

-----------------------------------------------------------------------------
(* Chains of text processors *)

\* The texts that processors lead to from some, one after the other.
ProcessorTexts(texts, chain) == FoldLeft(ReplayProcessor, texts, chain)

LEMMA NoProcessor == ASSUME NEW texts PROVE ProcessorTexts(texts, << >>) = texts
  <1>1. << >> \in Seq({})
    OBVIOUS
  <1>2. /\ FoldIs("processor", 0, texts, << >>, FoldLeft(ReplayProcessor, texts, << >>))
        /\ FoldIs("processor", 0, texts, << >>, texts)
    BY <1>1, FoldProcessor, FoldIsNothing
  <1>3. FoldLeft(ReplayProcessor, texts, << >>) = texts
    BY ONLY <1>1, <1>2, FoldIsUnique
  <1>. QED BY <1>3 DEF ProcessorTexts

\* The processor at the end of a chain is the last one to be applied.
LEMMA OneProcessorMore ==
    ASSUME NEW texts, NEW P, NEW chain \in Seq(P), NEW p \in P
    PROVE  ProcessorTexts(texts, Append(chain, p))
              = ReplayProcessor(ProcessorTexts(texts, chain), p)
  <1>. DEFINE c == Append(chain, p)
              v == FoldLeft(ReplayProcessor, texts, chain)
              w == FoldLeft(ReplayProcessor, texts, c)
  <1>1. c \in Seq(P)
    OBVIOUS
  <1>2. FoldIs("processor", 0, texts, chain, v)
    BY FoldProcessor
  <1>3. FoldIs("processor", 0, texts, c, Op("processor", 0, v, p))
    BY <1>2, FoldIsAppend
  <1>4. FoldIs("processor", 0, texts, c, w)
    BY <1>1, FoldProcessor
  <1>. HIDE DEF c, v, w
  <1>5. w = Op("processor", 0, v, p)
    BY ONLY <1>1, <1>3, <1>4, FoldIsUnique
  <1>. QED BY <1>5 DEF ProcessorTexts, Op, c, v, w

\* From more texts they lead to more.
LEMMA MoreTexts ==
    ASSUME NEW texts, NEW more, texts \subseteq more, NEW P, NEW chain \in Seq(P)
    PROVE  ProcessorTexts(texts, chain) \subseteq ProcessorTexts(more, chain)
  <1>1. PICK g : /\ Steps(g, "processor", 0, texts, chain)
                 /\ ProcessorTexts(texts, chain) = g[Len(chain)]
    BY FoldProcessor DEF FoldIs, ProcessorTexts
  <1>2. PICK h : /\ Steps(h, "processor", 0, more, chain)
                 /\ ProcessorTexts(more, chain) = h[Len(chain)]
    BY FoldProcessor DEF FoldIs, ProcessorTexts
  <1>. DEFINE G == { m \in Nat : m <= Len(chain) => g[m] \subseteq h[m] }
  <1>3. 0 \in G
    BY <1>1, <1>2 DEF Steps
  <1>4. ASSUME NEW m \in Nat, m \in G PROVE m + 1 \in G
    <2>1. CASE m + 1 <= Len(chain)
      <3>1. m + 1 \in 1 .. Len(chain) /\ m <= Len(chain) /\ (m + 1) - 1 = m
        BY <2>1
      <3>2. /\ g[m + 1] = ReplayProcessor(g[m], chain[m + 1])
            /\ h[m + 1] = ReplayProcessor(h[m], chain[m + 1])
        BY <1>1, <1>2, <3>1 DEF Steps, Op
      <3>3. g[m] \subseteq h[m]
        BY <1>4, <3>1
      <3>4. g[m + 1] \subseteq h[m + 1]
        BY <3>2, <3>3 DEF ReplayProcessor
      <3>. QED BY <3>4
    <2>. QED BY <2>1
  <1>. HIDE DEF G
  <1>5. Len(chain) \in G
    BY <1>3, <1>4, SetInduction
  <1>. QED BY <1>1, <1>2, <1>5 DEF G

-----------------------------------------------------------------------------
(* getVariants *)

LEMMA LimitedIs ==
    ASSUME NEW s, IsSeq(s)
    PROVE  /\ IsSeq(Limited(s)) /\ RangeOf(Limited(s)) \subseteq RangeOf(s)
           /\ Len(s) >= 1 => Len(Limited(s)) >= 1
  <1>. DEFINE n == IF Len(s) < MaxVariants THEN Len(s) ELSE MaxVariants
              t == SubSeq(s, 1, n)
  <1>1. Limited(s) = t
    BY DEF Limited
  <1>2. Len(s) \in Nat /\ MaxVariants \in Nat /\ MaxVariants >= 1
    BY IsSeqFacts, LookupAssumption
  <1>3. n \in Nat /\ 1 <= n + 1 /\ n <= Len(s) /\ (Len(s) >= 1 => n >= 1)
    BY <1>2
  <1>. HIDE DEF n
  <1>4. IsSeq(t) /\ RangeOf(t) \subseteq RangeOf(s) /\ Len(t) = n - 1 + 1
    BY <1>3, SubSeqIsSeq
  <1>. HIDE DEF t
  <1>. QED BY <1>1, <1>3, <1>4

\* A variant of a text, with chains of processors that lead to it.
VariantOf(source, P, variant) ==
    /\ IsSeq(variant.text) /\ variant.chains \in Seq(Seq(P))
    /\ \A chain \in RangeOf(variant.chains) :
           variant.text \in ProcessorTexts({source}, chain)

VariantsOf(source, P, found) ==
    IsSeq(found) /\ \A variant \in RangeOf(found) : VariantOf(source, P, variant)

\* What a processor makes of a variant has the processor at the end of its chains.
LEMMA ProcessedIs ==
    ASSUME NEW source, NEW P, P \subseteq Processors, NEW variant,
           VariantOf(source, P, variant), NEW p \in P
    PROVE  /\ VariantsOf(source, P, Processed(p, variant))
           /\ Len(Processed(p, variant)) >= 1
  <1>. DEFINE made == Process(p, variant.text)
              values == Limited(made)
              chains == variant.chains
              longer == [c \in DOMAIN chains |-> Append(chains[c], p)]
              s == [k \in DOMAIN values |->
                       Variant(values[k],
                               IF values[k] = variant.text THEN chains ELSE longer)]
  <1>1. Processed(p, variant) = s
    BY DEF Processed
  <1>2. TextsMade(made)
    BY ProcessMade DEF VariantOf
  <1>3. /\ IsSeq(values) /\ RangeOf(values) \subseteq RangeOf(made)
        /\ Len(values) >= 1
    BY <1>2, LimitedIs DEF TextsMade
  <1>4. Len(values) \in Nat /\ DOMAIN values = 1 .. Len(values)
    BY <1>3, IsSeqFacts
  <1>5. chains \in Seq(Seq(P)) /\ DOMAIN chains = 1 .. Len(chains) /\ Len(chains) \in Nat
    <2>1. chains \in Seq(Seq(P))
      BY DEF VariantOf
    <2>2. IsSeq(chains)
      BY <2>1, SeqIs
    <2>. QED BY <2>1, <2>2, IsSeqFacts
  <1>6. longer \in Seq(Seq(P))
    <2>1. \A c \in 1 .. Len(chains) : chains[c] \in Seq(P)
      BY <1>5
    <2>2. \A c \in 1 .. Len(chains) : Append(chains[c], p) \in Seq(P)
      BY <2>1
    <2>. QED BY <1>5, <2>2
  <1>7. ASSUME NEW k \in 1 .. Len(values) PROVE VariantOf(source, P, s[k])
    <2>1. values[k] \in RangeOf(made) /\ IsSeq(values[k])
      BY <1>2, <1>3, <1>4 DEF TextsMade, RangeOf
    <2>2. CASE values[k] = variant.text
      <3>1. s[k].text = variant.text /\ s[k].chains = variant.chains
        BY <1>4, <2>2 DEF Variant
      <3>. HIDE DEF s
      <3>. QED BY <3>1 DEF VariantOf
    <2>3. CASE values[k] # variant.text
      <3>1. s[k].text = values[k] /\ s[k].chains = longer
        BY <1>4, <2>3 DEF Variant
      <3>2. ASSUME NEW c \in RangeOf(longer) PROVE values[k] \in ProcessorTexts({source}, c)
        <4>1. PICK j \in DOMAIN chains : c = Append(chains[j], p)
          BY DEF RangeOf
        <4>2. chains[j] \in Seq(P) /\ variant.text \in ProcessorTexts({source}, chains[j])
          <5>1. chains[j] \in Seq(P)
            BY <1>5
          <5>2. chains[j] \in RangeOf(variant.chains)
            BY DEF RangeOf
          <5>. QED BY <5>1, <5>2 DEF VariantOf
        <4>3. ProcessorTexts({source}, c)
                 = ReplayProcessor(ProcessorTexts({source}, chains[j]), p)
          BY <4>1, <4>2, OneProcessorMore
        <4>. QED BY <2>1, <4>2, <4>3 DEF ReplayProcessor
      <3>. HIDE DEF values, longer, s
      <3>. QED BY <1>6, <2>1, <3>1, <3>2 DEF VariantOf
    <2>. QED BY <2>2, <2>3
  <1>8. IsSeq(s) /\ Len(s) = Len(values) /\ DOMAIN s = 1 .. Len(values)
    BY <1>4, FunctionIsSeq
  <1>. HIDE DEF s, values
  <1>9. VariantsOf(source, P, s)
    BY <1>7, <1>8 DEF VariantsOf, RangeOf
  <1>. QED BY <1>1, <1>3, <1>8, <1>9

LEMMA ManyVariants ==
    MaxVariants \in Nat /\ MaxVariants >= 1
  BY LookupAssumption

\* The chains of a text that has been found are kept, up to a number.
LEMMA SetVariantIs ==
    ASSUME NEW source, NEW P, NEW found, NEW variant,
           VariantsOf(source, P, found), VariantOf(source, P, variant)
    PROVE  /\ VariantsOf(source, P, SetVariant(found, variant.text, variant.chains))
           /\ Len(SetVariant(found, variant.text, variant.chains)) >= 1
  <1>. DEFINE chars == variant.text
              chains == variant.chains
              Kept(k) == Variant(chars, Limited(found[k].chains \o chains))
              set == [k \in DOMAIN found |->
                         IF found[k].text = chars THEN Kept(k) ELSE found[k]]
              new == Variant(chars, Limited(chains))
  <1>1. IsSeq(found) /\ Len(found) \in Nat /\ DOMAIN found = 1 .. Len(found)
    BY IsSeqFacts DEF VariantsOf
  <1>2. IsSeq(chains) /\ chains \in Seq(Seq(P)) /\ IsSeq(chars)
    BY SeqIs DEF VariantOf
  <1>3. VariantOf(source, P, new)
    <2>1. IsSeq(Limited(chains)) /\ RangeOf(Limited(chains)) \subseteq RangeOf(chains)
      BY <1>2, LimitedIs
    <2>2. RangeOf(chains) \subseteq Seq(P)
      BY <1>2, SeqIs
    <2>3. Limited(chains) \in Seq(Seq(P))
      BY <2>1, <2>2, IsSeqIn
    <2>4. new.text = chars /\ new.chains = Limited(chains)
      BY DEF Variant
    <2>. HIDE DEF new
    <2>. QED BY <1>2, <2>1, <2>3, <2>4 DEF VariantOf
  <1>4. ASSUME NEW k \in DOMAIN found, found[k].text = chars
        PROVE  VariantOf(source, P, Kept(k))
    <2>. DEFINE old == found[k].chains
                both == old \o chains
    <2>1. VariantOf(source, P, found[k])
      BY DEF VariantsOf, RangeOf
    <2>2. old \in Seq(Seq(P)) /\ IsSeq(old) /\ RangeOf(old) \subseteq Seq(P)
          /\ RangeOf(chains) \subseteq Seq(P)
      BY <1>2, <2>1, SeqIs DEF VariantOf
    <2>3. IsSeq(both) /\ RangeOf(both) \subseteq RangeOf(old) \cup RangeOf(chains)
      BY <1>2, <2>2, ConcatIsSeq
    <2>4. IsSeq(Limited(both)) /\ RangeOf(Limited(both)) \subseteq RangeOf(both)
      BY <2>3, LimitedIs
    <2>5. Limited(both) \in Seq(Seq(P))
      <3>1. RangeOf(Limited(both)) \subseteq Seq(P)
        BY <2>2, <2>3, <2>4
      <3>. QED BY <2>4, <3>1, IsSeqIn
    <2>6. Kept(k).text = chars /\ Kept(k).chains = Limited(both)
      BY DEF Variant
    <2>7. \A c \in RangeOf(Limited(both)) : chars \in ProcessorTexts({source}, c)
      BY <1>4, <2>1, <2>3, <2>4 DEF VariantOf
    <2>. HIDE DEF Kept, both
    <2>. QED BY <1>2, <2>5, <2>6, <2>7 DEF VariantOf
  <1>5. CASE \E k \in DOMAIN found : found[k].text = chars
    <2>1. SetVariant(found, chars, chains) = set
      BY <1>5 DEF SetVariant
    <2>2. IsSeq(set) /\ Len(set) = Len(found) /\ DOMAIN set = DOMAIN found
      BY <1>1, FunctionIsSeq
    <2>3. ASSUME NEW k \in DOMAIN found PROVE VariantOf(source, P, set[k])
      <3>1. CASE found[k].text = chars
        <4>1. set[k] = Kept(k)
          BY <3>1
        <4>. QED BY <1>4, <3>1, <4>1
      <3>2. CASE found[k].text # chars
        <4>1. set[k] = found[k]
          BY <3>2
        <4>. QED BY <4>1 DEF VariantsOf, RangeOf
      <3>. QED BY <3>1, <3>2
    <2>. HIDE DEF set
    <2>4. VariantsOf(source, P, set)
      BY <2>2, <2>3 DEF VariantsOf, RangeOf
    <2>. QED BY <1>1, <1>5, <2>1, <2>2, <2>4
  <1>6. CASE ~ \E k \in DOMAIN found : found[k].text = chars
    <2>1. SetVariant(found, chars, chains) = Append(found, new)
      BY <1>6 DEF SetVariant
    <2>. HIDE DEF new
    <2>2. /\ IsSeq(Append(found, new)) /\ Len(Append(found, new)) = Len(found) + 1
          /\ RangeOf(Append(found, new)) \subseteq RangeOf(found) \cup {new}
      BY <1>1, AppendIsSeq
    <2>3. VariantsOf(source, P, Append(found, new))
      BY <1>3, <2>2 DEF VariantsOf
    <2>. QED BY <1>1, <2>1, <2>2, <2>3
  <1>. QED BY <1>5, <1>6

LEMMA AddVariantIs ==
    ASSUME NEW source, NEW P, NEW found, NEW variant,
           VariantsOf(source, P, found), VariantOf(source, P, variant)
    PROVE  /\ VariantsOf(source, P, AddVariant(found, variant))
           /\ Len(AddVariant(found, variant)) >= 1
  <1>1. CASE Len(found) >= MaxVariants
    <2>1. AddVariant(found, variant) = found
      BY <1>1 DEF AddVariant
    <2>2. Len(found) \in Nat
      BY IsSeqFacts DEF VariantsOf
    <2>3. Len(found) >= 1
      BY <1>1, <2>2, ManyVariants
    <2>. QED BY <2>1, <2>3
  <1>2. CASE ~(Len(found) >= MaxVariants)
    BY <1>2, SetVariantIs DEF AddVariant
  <1>. QED BY <1>1, <1>2

LEMMA ProcessAllIs ==
    ASSUME NEW source, NEW P, P \subseteq Processors, NEW found, NEW p \in P,
           VariantsOf(source, P, found), Len(found) >= 1
    PROVE  /\ VariantsOf(source, P, ProcessAll(found, p))
           /\ Len(ProcessAll(found, p)) >= 1
  <1>. DEFINE made == [k \in DOMAIN found |-> Processed(p, found[k])]
              s == FlattenSeq(made)
  <1>1. IsSeq(found) /\ Len(found) \in Nat /\ DOMAIN found = 1 .. Len(found)
    BY IsSeqFacts DEF VariantsOf
  <1>2. IsSeq(made) /\ Len(made) = Len(found) /\ DOMAIN made = DOMAIN found
    BY <1>1, FunctionIsSeq
  <1>3. ASSUME NEW k \in DOMAIN found
        PROVE  VariantsOf(source, P, made[k]) /\ Len(made[k]) >= 1
    <2>1. VariantOf(source, P, found[k])
      BY DEF VariantsOf, RangeOf
    <2>. QED BY <2>1, ProcessedIs
  <1>4. ProcessAll(found, p) = FoldLeft(AddVariant, << >>, s)
    BY DEF ProcessAll
  <1>. HIDE DEF made
  <1>5. IsSeq(s) /\ Len(s) >= 1 /\ \A e \in RangeOf(s) : VariantOf(source, P, e)
    <2>1. \A k \in DOMAIN made : IsSeq(made[k]) /\ Len(made[k]) >= 1
      BY <1>2, <1>3 DEF VariantsOf
    <2>2. IsSeq(s) /\ Len(s) >= 1
      BY <1>1, <1>2, <2>1, FlattenElements, FlattenSome
    <2>3. \A e \in RangeOf(s) : \E k \in DOMAIN made : e \in RangeOf(made[k])
      BY <1>2, <2>1, FlattenElements
    <2>. QED BY <1>2, <1>3, <2>2, <2>3 DEF VariantsOf
  <1>. HIDE DEF s
  <1>6. PICK g : /\ Steps(g, "variant", 0, << >>, s)
                 /\ FoldLeft(AddVariant, << >>, s) = g[Len(s)]
    <2>1. s \in Seq(RangeOf(s))
      BY <1>5 DEF IsSeq
    <2>2. FoldIs("variant", 0, << >>, s, FoldLeft(AddVariant, << >>, s))
      BY <2>1, FoldVariant
    <2>. QED BY <2>2 DEF FoldIs
  <1>. DEFINE G == { m \in Nat : m <= Len(s) =>
                        /\ VariantsOf(source, P, g[m])
                        /\ m >= 1 => Len(g[m]) >= 1 }
  <1>7. 0 \in G
    <2>1. g[0] = << >>
      BY <1>6 DEF Steps
    <2>2. VariantsOf(source, P, << >>)
      BY NothingIsSeq DEF VariantsOf
    <2>. QED BY <2>1, <2>2
  <1>8. Len(s) \in Nat /\ \A m \in 1 .. Len(s) : VariantOf(source, P, s[m])
    BY <1>5, IsSeqFacts
  <1>9. ASSUME NEW m \in Nat, m \in G PROVE m + 1 \in G
    <2>1. CASE m + 1 <= Len(s)
      <3>1. m + 1 \in 1 .. Len(s) /\ m <= Len(s) /\ (m + 1) - 1 = m
        BY <1>8, <2>1
      <3>2. g[m + 1] = AddVariant(g[m], s[m + 1])
        BY <1>6, <3>1 DEF Steps, Op
      <3>3. VariantsOf(source, P, g[m]) /\ VariantOf(source, P, s[m + 1])
        BY <1>8, <1>9, <3>1
      <3>4. VariantsOf(source, P, g[m + 1]) /\ Len(g[m + 1]) >= 1
        BY ONLY <3>2, <3>3, AddVariantIs
      <3>. QED BY <3>4
    <2>. QED BY <2>1
  <1>. HIDE DEF G
  <1>10. Len(s) \in G
    BY <1>7, <1>8, <1>9, SetInduction
  <1>. QED BY <1>4, <1>5, <1>6, <1>8, <1>10 DEF G

\* Every variant of a text is what its chains of processors make of the text, and
\* there is one.
LEMMA GetVariantsIs ==
    ASSUME NEW source, IsSeq(source), NEW P, P \subseteq Processors,
           NEW processors \in Seq(P)
    PROVE  /\ VariantsOf(source, P, GetVariants(source, processors))
           /\ Len(GetVariants(source, processors)) >= 1
  <1>. DEFINE v == Variant(source, << << >> >>)
              base == << v >>
  <1>1. GetVariants(source, processors) = FoldLeft(ProcessAll, base, processors)
    BY DEF GetVariants
  <1>2. VariantOf(source, P, v)
    <2>. DEFINE chains == << << >> >>
    <2>1. v.text = source /\ v.chains = chains
      BY DEF Variant
    <2>2. << >> \in Seq(P) /\ chains \in Seq(Seq(P))
      OBVIOUS
    <2>3. IsSeq(chains) /\ Len(chains) = 1 /\ chains[1] = << >>
      BY OneIsSeq
    <2>. HIDE DEF v, chains
    <2>4. \A c \in RangeOf(chains) : c = << >>
      BY <2>3, IsSeqElement
    <2>. QED BY <2>1, <2>2, <2>4, NoProcessor DEF VariantOf
  <1>3. VariantsOf(source, P, base) /\ Len(base) >= 1
    <2>1. IsSeq(base) /\ Len(base) = 1 /\ base[1] = v
      BY OneIsSeq
    <2>. HIDE DEF base
    <2>. QED BY <1>2, <2>1, IsSeqElement DEF VariantsOf
  <1>. HIDE DEF base
  <1>4. PICK g : /\ Steps(g, "process", 0, base, processors)
                 /\ FoldLeft(ProcessAll, base, processors) = g[Len(processors)]
    BY FoldProcess DEF FoldIs
  <1>. DEFINE n == Len(processors)
              G == { m \in Nat : m <= n =>
                        VariantsOf(source, P, g[m]) /\ Len(g[m]) >= 1 }
  <1>5. 0 \in G
    BY <1>3, <1>4 DEF Steps
  <1>6. ASSUME NEW m \in Nat, m \in G PROVE m + 1 \in G
    <2>1. CASE m + 1 <= n
      <3>1. m + 1 \in 1 .. n /\ m <= n /\ (m + 1) - 1 = m /\ processors[m + 1] \in P
        BY <2>1
      <3>2. g[m + 1] = ProcessAll(g[m], processors[m + 1])
        BY <1>4, <3>1 DEF Steps, Op
      <3>. QED BY <1>6, <3>1, <3>2, ProcessAllIs
    <2>. QED BY <2>1
  <1>7. n \in Nat
    OBVIOUS
  <1>. HIDE DEF G, n
  <1>8. n \in G
    BY <1>5, <1>6, <1>7, SetInduction
  <1>. QED BY <1>1, <1>4, <1>7, <1>8 DEF G, n

-----------------------------------------------------------------------------
(* transform *)

\* The texts that the rules of a trace, the last one first, lead to from some.
RuleTexts(texts, trace) == FoldLeft(ReplayRule, texts, Reverse(trace))

LEMMA ReverseIs ==
    ASSUME NEW S, NEW s \in Seq(S)
    PROVE  /\ Reverse(s) \in Seq(S) /\ Len(Reverse(s)) = Len(s)
           /\ \A k \in 1 .. Len(s) : Reverse(s)[k] = s[Len(s) - k + 1]
  <1>1. Len(s) \in Nat /\ \A k \in 1 .. Len(s) : s[k] \in S
    OBVIOUS
  <1>2. ASSUME NEW k \in 1 .. Len(s) PROVE (Len(s) - k) + 1 \in 1 .. Len(s)
    BY <1>1
  <1>3. \A k \in 1 .. Len(s) : s[(Len(s) - k) + 1] \in S
    BY <1>1, <1>2
  <1>4. [k \in 1 .. Len(s) |-> s[(Len(s) - k) + 1]] \in Seq(S)
    BY <1>1, <1>3
  <1>. QED BY <1>1, <1>4 DEF Reverse

LEMMA NoRule == ASSUME NEW texts PROVE RuleTexts(texts, << >>) = texts
  <1>1. << >> \in Seq({}) /\ Len(<< >>) = 0
    OBVIOUS
  <1>2. Reverse(<< >>) \in Seq({}) /\ Len(Reverse(<< >>)) = 0
    BY <1>1, ReverseIs
  <1>3. Reverse(<< >>) = << >>
    BY ONLY <1>2, EmptySeq
  <1>4. /\ FoldIs("rule", 0, texts, << >>, FoldLeft(ReplayRule, texts, << >>))
        /\ FoldIs("rule", 0, texts, << >>, texts)
    BY <1>1, FoldRule, FoldIsNothing
  <1>5. FoldLeft(ReplayRule, texts, << >>) = texts
    BY ONLY <1>1, <1>4, FoldIsUnique
  <1>. QED BY <1>3, <1>5 DEF RuleTexts

\* The rule at the head of a trace is the last one to be applied.
LEMMA ReverseMore ==
    ASSUME NEW S, NEW s \in Seq(S), NEW x \in S
    PROVE  Reverse(<< x >> \o s) = Append(Reverse(s), x)
  <1>. DEFINE t == << x >> \o s
              n == Len(s)
              u == Reverse(t)
              r == Reverse(s)
              v == Append(r, x)
  <1>0. n \in Nat
    OBVIOUS
  <1>1. /\ t \in Seq(S) /\ Len(t) = n + 1 /\ t[1] = x
        /\ \A k \in 1 .. n : t[1 + k] = s[k]
    <2>1. << x >> \in Seq(S) /\ Len(<< x >>) = 1 /\ << x >>[1] = x
      OBVIOUS
    <2>2. /\ t \in Seq(S) /\ Len(t) = 1 + n
          /\ \A k \in 1 .. 1 : t[k] = << x >>[k]
          /\ \A k \in 1 .. n : t[1 + k] = s[k]
      BY <2>1, ConcatFacts
    <2>. HIDE DEF t, n
    <2>3. 1 \in 1 .. 1
      OBVIOUS
    <2>. QED BY <1>0, <2>1, <2>2, <2>3
  <1>. HIDE DEF t
  <1>2. /\ u \in Seq(S) /\ Len(u) = n + 1
        /\ \A k \in 1 .. n + 1 : u[k] = t[(n + 1) - k + 1]
    BY <1>1, ReverseIs
  <1>3. /\ r \in Seq(S) /\ Len(r) = n
        /\ \A k \in 1 .. n : r[k] = s[n - k + 1]
    BY ReverseIs
  <1>. HIDE DEF u, r, n
  <1>4. /\ v \in Seq(S) /\ Len(v) = n + 1 /\ v[n + 1] = x
        /\ \A k \in 1 .. n : v[k] = r[k]
    BY <1>3
  <1>. HIDE DEF v
  <1>5. ASSUME NEW k \in 1 .. n + 1 PROVE u[k] = v[k]
    <2>1. CASE k = n + 1
      <3>1. (n + 1) - k + 1 = 1
        BY <1>0, <2>1
      <3>2. u[k] = t[1]
        BY ONLY <1>2, <3>1, k \in 1 .. n + 1
      <3>. QED BY <1>1, <1>4, <2>1, <3>2
    <2>2. CASE k # n + 1
      <3>1. k \in 1 .. n
        BY <1>0, <2>2
      <3>. DEFINE j == n - k + 1
      <3>2. (n + 1) - k + 1 = 1 + j /\ j \in 1 .. n
        BY <1>0, <3>1
      <3>3. r[k] = s[j]
        BY <1>3, <3>1
      <3>. HIDE DEF j
      <3>4. u[k] = t[1 + j]
        BY <1>2, <3>2
      <3>. QED BY <1>1, <1>4, <3>1, <3>2, <3>3, <3>4
    <2>. QED BY <2>1, <2>2
  <1>6. u = v
    <2>1. Len(u) = Len(v) /\ \A k \in 1 .. Len(v) : u[k] = v[k]
      BY <1>2, <1>4, <1>5
    <2>. QED BY ONLY <1>2, <1>4, <2>1, SeqsEqual
  <1>. QED BY <1>6 DEF u, v, t, r

LEMMA OneRuleMore ==
    ASSUME NEW texts, NEW trace, IsSeq(trace), NEW frame
    PROVE  RuleTexts(texts, << frame >> \o trace)
              = ReplayRule(RuleTexts(texts, trace), frame)
  <1>. DEFINE S == RangeOf(trace) \cup {frame}
              r == Reverse(trace)
              c == Append(r, frame)
              v == FoldLeft(ReplayRule, texts, r)
              w == FoldLeft(ReplayRule, texts, c)
  <1>1. trace \in Seq(S) /\ frame \in S
    BY IsSeqIn
  <1>. HIDE DEF S
  <1>2. Reverse(<< frame >> \o trace) = c
    BY <1>1, ReverseMore
  <1>3. r \in Seq(S)
    BY <1>1, ReverseIs
  <1>. HIDE DEF r
  <1>4. c \in Seq(S)
    BY <1>1, <1>3
  <1>5. FoldIs("rule", 0, texts, r, v)
    BY <1>3, FoldRule
  <1>6. FoldIs("rule", 0, texts, c, Op("rule", 0, v, frame))
    BY <1>1, <1>3, <1>5, FoldIsAppend
  <1>7. FoldIs("rule", 0, texts, c, w)
    BY <1>4, FoldRule
  <1>. HIDE DEF c, v, w
  <1>8. w = Op("rule", 0, v, frame)
    BY ONLY <1>4, <1>6, <1>7, FoldIsUnique
  <1>. QED BY <1>2, <1>8 DEF RuleTexts, Op, c, v, w, r

LEMMA MoreRuleTexts ==
    ASSUME NEW texts, NEW more, texts \subseteq more, NEW trace, IsSeq(trace)
    PROVE  RuleTexts(texts, trace) \subseteq RuleTexts(more, trace)
  <1>. DEFINE S == RangeOf(trace)
              s == Reverse(trace)
  <1>0. trace \in Seq(S)
    BY DEF IsSeq
  <1>. HIDE DEF S
  <1>1. s \in Seq(S)
    BY <1>0, ReverseIs
  <1>2. /\ RuleTexts(texts, trace) = FoldLeft(ReplayRule, texts, s)
        /\ RuleTexts(more, trace) = FoldLeft(ReplayRule, more, s)
    BY DEF RuleTexts
  <1>. HIDE DEF s
  <1>3. PICK g : /\ Steps(g, "rule", 0, texts, s)
                 /\ RuleTexts(texts, trace) = g[Len(s)]
    BY <1>1, <1>2, FoldRule DEF FoldIs
  <1>4. PICK h : /\ Steps(h, "rule", 0, more, s)
                 /\ RuleTexts(more, trace) = h[Len(s)]
    BY <1>1, <1>2, FoldRule DEF FoldIs
  <1>. DEFINE G == { m \in Nat : m <= Len(s) => g[m] \subseteq h[m] }
  <1>5. 0 \in G
    BY <1>3, <1>4 DEF Steps
  <1>6. ASSUME NEW m \in Nat, m \in G PROVE m + 1 \in G
    <2>1. CASE m + 1 <= Len(s)
      <3>1. m + 1 \in 1 .. Len(s) /\ m <= Len(s) /\ (m + 1) - 1 = m
        BY <1>1, <2>1
      <3>2. /\ g[m + 1] = ReplayRule(g[m], s[m + 1])
            /\ h[m + 1] = ReplayRule(h[m], s[m + 1])
        BY <1>3, <1>4, <3>1 DEF Steps, Op
      <3>3. g[m] \subseteq h[m]
        BY <1>6, <3>1
      <3>4. g[m + 1] \subseteq h[m + 1]
        BY <3>2, <3>3 DEF ReplayRule
      <3>. QED BY <3>4
    <2>. QED BY <2>1
  <1>. HIDE DEF G
  <1>7. Len(s) \in G
    BY <1>1, <1>5, <1>6, SetInduction
  <1>. QED BY <1>1, <1>3, <1>4, <1>7 DEF G

\* What the assumption on descriptors says of a rule.
RuleOk(rule) ==
    /\ IsSeq(rule.from) /\ IsSeq(rule.to) /\ rule.global \in BOOLEAN
    /\ rule.global <=> rule.kind \notin {"suffix", "prefix"}
    /\ rule.global => Len(rule.from) >= 1

\* A global expression that matches after its lastIndex matches the text.
LEMMA MatchAnywhere ==
    ASSUME NEW rule, RuleOk(rule), NEW chars, NEW index \in Nat
    PROVE  /\ rule.global => MatchEnd(rule, chars, index) \in Nat
           /\ MatchEnd(rule, chars, index) # 0 => MatchEnd(rule, chars, 0) # 0
  <1>1. CASE ~rule.global
    <2>1. rule.kind = "suffix" \/ rule.kind = "prefix"
      BY <1>1 DEF RuleOk
    <2>2. MatchEnd(rule, chars, index) = MatchEnd(rule, chars, 0)
      BY <1>1, <2>1 DEF MatchEnd
    <2>. QED BY <1>1, <2>2
  <1>2. CASE rule.global
    <2>. DEFINE found(i) == { k \in i + 1 .. Len(chars) : OccursAt(rule.from, chars, k) }
                first(i) == CHOOSE k \in found(i) : \A j \in found(i) : k <= j
                m == Len(rule.from)
    <2>1. rule.kind # "suffix" /\ rule.kind # "prefix" /\ m \in Nat /\ m >= 1
      BY <1>2, IsSeqFacts DEF RuleOk
    <2>2. ASSUME NEW i \in Nat
          PROVE  MatchEnd(rule, chars, i)
                    = IF found(i) = {} THEN 0 ELSE first(i) + m - 1
      BY <1>2, <2>1 DEF MatchEnd
    <2>3. ASSUME NEW i \in Nat, found(i) # {}
          PROVE  first(i) \in found(i) /\ first(i) \in Nat /\ first(i) >= 1
      <3>1. \A k \in found(i) : k \in Nat /\ k >= 1
        OBVIOUS
      <3>. HIDE DEF found
      <3>2. \E k \in found(i) : \A j \in found(i) : k <= j
        BY <2>3, <3>1, LeastOf
      <3>3. first(i) \in found(i)
        BY <3>2
      <3>. QED BY <3>1, <3>3
    <2>4. found(index) \subseteq found(0)
      OBVIOUS
    <2>. HIDE DEF found, first, m
    <2>5. ASSUME NEW i \in Nat
          PROVE  /\ MatchEnd(rule, chars, i) \in Nat
                 /\ found(i) # {} => MatchEnd(rule, chars, i) # 0
                 /\ found(i) = {} => MatchEnd(rule, chars, i) = 0
      BY <2>1, <2>2, <2>3
    <2>. QED BY <2>4, <2>5
  <1>. QED BY <1>1, <1>2 DEF RuleOk

LEMMA DeinflectIsSeq ==
    ASSUME NEW rule, RuleOk(rule), NEW chars, IsSeq(chars),
           MatchEnd(rule, chars, 0) # 0
    PROVE  IsSeq(Deinflect(rule, chars))
  <1>. DEFINE n == Len(chars)
              m == Len(rule.from)
  <1>1. n \in Nat /\ m \in Nat /\ IsSeq(rule.from) /\ IsSeq(rule.to)
    BY IsSeqFacts DEF RuleOk
  <1>2. CASE rule.kind = "suffix"
    <2>1. ~rule.global
      BY <1>2 DEF RuleOk
    <2>2. IsSuffix(rule.from, chars)
      BY <1>2, <2>1 DEF MatchEnd
    <2>3. Len(Reverse(rule.from)) = m /\ Len(Reverse(chars)) = n
      BY <1>1, IsSeqFacts, ReverseIs
    <2>4. m <= n
      BY <2>2, <2>3 DEF IsSuffix, IsPrefix
    <2>5. Deinflect(rule, chars) = SubSeq(chars, 1, n - m) \o rule.to
      BY <1>2, <2>1 DEF Deinflect
    <2>. HIDE DEF n, m
    <2>6. n - m \in Nat /\ 1 <= (n - m) + 1 /\ n - m <= n
      BY <1>1, <2>4
    <2>7. IsSeq(SubSeq(chars, 1, n - m))
      BY <2>6, SubSeqIsSeq DEF n
    <2>. QED BY <1>1, <2>5, <2>7, ConcatIsSeq
  <1>3. CASE rule.kind = "prefix"
    <2>1. ~rule.global
      BY <1>3 DEF RuleOk
    <2>2. IsPrefix(rule.from, chars)
      BY <1>3, <2>1 DEF MatchEnd
    <2>4. m <= n
      BY <2>2 DEF IsPrefix
    <2>5. Deinflect(rule, chars) = rule.to \o SubSeq(chars, m + 1, n)
      BY <1>3, <2>1 DEF Deinflect
    <2>. HIDE DEF n, m
    <2>6. m + 1 \in Nat /\ 1 <= m + 1 /\ m + 1 <= n + 1 /\ n <= n
      BY <1>1, <2>4
    <2>7. IsSeq(SubSeq(chars, m + 1, n))
      BY <1>1, <2>6, SubSeqIsSeq DEF n
    <2>. QED BY <1>1, <2>5, <2>7, ConcatIsSeq
  <1>4. CASE rule.global
    <2>1. rule.kind # "suffix" /\ rule.kind # "prefix" /\ Len(rule.from) >= 1
      BY <1>4 DEF RuleOk
    <2>2. Deinflect(rule, chars) = Replaced(rule.from, rule.to, chars)
      BY <1>4, <2>1 DEF Deinflect
    <2>. QED BY <1>1, <2>1, <2>2, ReplacedIsSeq
  <1>. QED BY <1>2, <1>3, <1>4 DEF RuleOk

\* The rules of the descriptor.
RulesOk == IsSeq(Rules) /\ \A k \in DOMAIN Rules : RuleOk(Rules[k])

\* A form is what the rules of its trace make of the text that was transformed.
FormOf(source, form) ==
    /\ IsSeq(form.text) /\ IsSeq(form.trace)
    /\ form.text \in RuleTexts({source}, form.trace)

FormsOf(source, found) ==
    IsSeq(found) /\ \A k \in DOMAIN found : FormOf(source, found[k])

FormsMade(source, made) ==
    FormsOf(source, made.forms) /\ made.lastIndex \in [DOMAIN Rules -> Nat]

LEMMA FirstForm ==
    ASSUME NEW source, IsSeq(source)
    PROVE  FormsOf(source, << Form(source, {}, << >>) >>)
  <1>. DEFINE f == Form(source, {}, << >>)
  <1>1. f.text = source /\ f.trace = << >>
    BY DEF Form
  <1>. HIDE DEF f
  <1>2. FormOf(source, f)
    <2>1. RuleTexts({source}, << >>) = {source}
      BY NoRule
    <2>. QED BY <1>1, <2>1, NothingIsSeq DEF FormOf
  <1>3. IsSeq(<< f >>) /\ Len(<< f >>) = 1 /\ << f >>[1] = f
    BY OneIsSeq
  <1>4. \A k \in DOMAIN << f >> : << f >>[k] = f
    BY <1>3, IsSeqFacts
  <1>5. FormsOf(source, << f >>)
    BY <1>2, <1>3, <1>4 DEF FormsOf
  <1>. QED BY <1>5 DEF f

\* What a rule makes of a form has the rule at the head of its trace, and a
\* global expression that matched after its lastIndex matches the text anyway.
LEMMA DeinflectedForm ==
    ASSUME RulesOk, NEW source, NEW form, FormOf(source, form), NEW k \in DOMAIN Rules,
           MatchEnd(Rules[k], form.text, 0) # 0, NEW conditions
    PROVE  FormOf(source, Form(Deinflect(Rules[k], form.text), conditions,
                               << [rule |-> k, text |-> form.text] >> \o form.trace))
  <1>. DEFINE frame == [rule |-> k, text |-> form.text]
              trace == << frame >> \o form.trace
              chars == Deinflect(Rules[k], form.text)
              f == Form(chars, conditions, trace)
  <1>1. f.text = chars /\ f.trace = trace
    BY DEF Form
  <1>2. frame.rule = k /\ frame.text = form.text
    OBVIOUS
  <1>. HIDE DEF f, frame
  <1>3. IsSeq(chars)
    BY DeinflectIsSeq DEF FormOf, RulesOk
  <1>4. IsSeq(trace)
    BY OneIsSeq, ConcatIsSeq DEF FormOf
  <1>5. RuleTexts({source}, trace) = ReplayRule(RuleTexts({source}, form.trace), frame)
    BY OneRuleMore DEF FormOf
  <1>6. chars \in ReplayRule(RuleTexts({source}, form.trace), frame)
    BY <1>2 DEF ReplayRule, FormOf
  <1>7. FormOf(source, f)
    <2>. HIDE DEF chars, trace
    <2>. QED BY <1>1, <1>3, <1>4, <1>5, <1>6 DEF FormOf
  <1>. QED BY <1>7 DEF f, frame

LEMMA AppendForms ==
    ASSUME NEW source, NEW found, FormsOf(source, found), NEW form, FormOf(source, form)
    PROVE  FormsOf(source, Append(found, form))
  <1>1. IsSeq(found) /\ Len(found) \in Nat /\ DOMAIN found = 1 .. Len(found)
    BY IsSeqFacts DEF FormsOf
  <1>2. /\ IsSeq(Append(found, form)) /\ Len(Append(found, form)) = Len(found) + 1
        /\ Append(found, form)[Len(found) + 1] = form
        /\ \A k \in 1 .. Len(found) : Append(found, form)[k] = found[k]
    BY <1>1, AppendIsSeq
  <1>3. DOMAIN Append(found, form) = 1 .. Len(found) + 1
    BY <1>2, IsSeqFacts
  <1>4. ASSUME NEW k \in 1 .. Len(found) + 1 PROVE FormOf(source, Append(found, form)[k])
    <2>1. CASE k = Len(found) + 1
      BY <1>2, <2>1
    <2>2. CASE k # Len(found) + 1
      <3>1. k \in 1 .. Len(found)
        BY <1>1, <2>2
      <3>. QED BY <1>1, <1>2, <3>1 DEF FormsOf
    <2>. QED BY <2>1, <2>2
  <1>. QED BY <1>2, <1>3, <1>4 DEF FormsOf

\* One rule of the loop of transform(), tried or not.
LEMMA ApplyNthIs ==
    ASSUME RulesOk, NEW source, NEW form, FormOf(source, form), NEW made,
           FormsMade(source, made), NEW k \in DOMAIN Rules
    PROVE  FormsMade(source, ApplyNth(form, made, k))
  <1>. DEFINE rule == Rules[k]
              end == TestEnd(k, form.text, made.lastIndex)
              applies == end # 0 /\ ~IsCycle(form, k)
              guard == \/ ~Heuristic(rule.transform, form.text)
                       \/ ~MayFollow(form.conditions, rule.conditionsIn)
              last == IF ~rule.global \/ (applies /\ rule.shared) THEN 0 ELSE end
              new == Form(Deinflect(rule, form.text), rule.conditionsOut,
                          << [rule |-> k, text |-> form.text] >> \o form.trace)
              after == [made.lastIndex EXCEPT ![k] = last]
              longer == IF applies THEN Append(made.forms, new) ELSE made.forms
              changed == [lastIndex |-> after, forms |-> longer]
  <1>1. ApplyNth(form, made, k) = IF guard THEN made ELSE changed
    BY DEF ApplyNth
  <1>2. RuleOk(rule) /\ made.lastIndex[k] \in Nat
    BY DEF RulesOk, FormsMade
  <1>3. /\ rule.global => end \in Nat
        /\ end # 0 => MatchEnd(rule, form.text, 0) # 0
    BY <1>2, MatchAnywhere DEF TestEnd, RuleOk
  <1>. HIDE DEF end
  <1>4. last \in Nat
    <2>1. rule.global \in BOOLEAN
      BY <1>2 DEF RuleOk
    <2>. QED BY <1>3, <2>1
  <1>. HIDE DEF last
  <1>5. after \in [DOMAIN Rules -> Nat]
    BY <1>4 DEF FormsMade
  <1>6. FormsOf(source, longer)
    <2>1. CASE applies
      <3>1. MatchEnd(rule, form.text, 0) # 0
        BY <1>3, <2>1
      <3>2. FormOf(source, new)
        BY <3>1, DeinflectedForm
      <3>. HIDE DEF new
      <3>3. FormsOf(source, Append(made.forms, new))
        BY <3>2, AppendForms DEF FormsMade
      <3>. QED BY <2>1, <3>3
    <2>2. CASE ~applies
      BY <2>2 DEF FormsMade
    <2>. QED BY <2>1, <2>2
  <1>. HIDE DEF after, longer
  <1>7. FormsMade(source, changed)
    <2>1. changed.forms = longer /\ changed.lastIndex = after
      OBVIOUS
    <2>. QED BY <1>5, <1>6, <2>1 DEF FormsMade
  <1>. QED BY <1>1, <1>7

\* A turn of the loop of transform() adds forms of the same text.
LEMMA ApplyAllIs ==
    ASSUME RulesOk, NEW source, NEW form, FormOf(source, form), FormsOf(source, forms),
           lastIndex \in [DOMAIN Rules -> Nat]
    PROVE  FormsMade(source, ApplyAll(form))
  <1>. DEFINE n == Len(Rules)
              s == [k \in DOMAIN Rules |-> k]
              base == [forms |-> forms, lastIndex |-> lastIndex]
  <1>1. n \in Nat /\ DOMAIN Rules = 1 .. n
    BY IsSeqFacts DEF RulesOk
  <1>2. s \in Seq(Nat) /\ Len(s) = n /\ \A k \in 1 .. n : s[k] = k
    <2>. HIDE DEF n
    <2>1. s = [k \in 1 .. n |-> k]
      BY <1>1
    <2>. QED BY <1>1, <2>1
  <1>3. FormsMade(source, base)
    BY DEF FormsMade
  <1>. HIDE DEF n
  <1>4. PICK g : Steps(g, "apply", form, base, s) /\ ApplyAll(form) = g[Len(s)]
    <2>1. ASSUME NEW t \in Seq(Nat), t = s, NEW b, b = base
          PROVE  FoldIs("apply", form, b, t, ApplyAll(form))
      BY <2>1, FoldApply
    <2>2. FoldIs("apply", form, base, s, ApplyAll(form))
      BY <1>2, <2>1
    <2>. QED BY <2>2 DEF FoldIs
  <1>. HIDE DEF s, base
  <1>. DEFINE G == { m \in Nat : m <= n => FormsMade(source, g[m]) }
  <1>5. 0 \in G
    BY <1>3, <1>4 DEF Steps
  <1>6. ASSUME NEW m \in Nat, m \in G PROVE m + 1 \in G
    <2>1. CASE m + 1 <= n
      <3>1. m + 1 \in 1 .. n /\ m <= n /\ (m + 1) - 1 = m
        BY <1>1, <2>1
      <3>2. g[m + 1] = ApplyNth(form, g[m], m + 1)
        BY <1>2, <1>4, <3>1 DEF Steps, Op
      <3>3. FormsMade(source, g[m]) /\ m + 1 \in DOMAIN Rules
        BY <1>1, <1>6, <3>1
      <3>4. FormsMade(source, g[m + 1])
        BY <3>2, <3>3, ApplyNthIs
      <3>. QED BY <3>4
    <2>. QED BY <2>1
  <1>. HIDE DEF G
  <1>7. n \in G
    BY <1>1, <1>5, <1>6, SetInduction
  <1>. QED BY <1>1, <1>2, <1>4, <1>7 DEF G

-----------------------------------------------------------------------------
(* candidates *)

\* What led to a candidate does lead to it.
LedBy(candidate, before, after) ==
    /\ RangeOf(before) \subseteq RangeOf(PreProcessors)
    /\ RangeOf(after) \subseteq RangeOf(PostProcessors)
    /\ candidate.lemma \in
           ProcessorTexts(RuleTexts(ProcessorTexts({candidate.surface}, before),
                                    candidate.trace),
                          after)

Led(candidate) ==
    \E n \in 0 .. Len(candidate.processors) :
        LedBy(candidate, SubSeq(candidate.processors, 1, n),
              SubSeq(candidate.processors, n + 1, Len(candidate.processors)))

LedAll(found) == IsSeq(found) /\ \A k \in DOMAIN found : Led(found[k])

LEMMA TracesLed == LedAll(results) => TraceReplays
  BY DEF LedAll, Led, LedBy, TraceReplays, ProcessorTexts, RuleTexts

LEMMA SplitChain ==
    ASSUME NEW S, NEW s \in Seq(S), NEW t \in Seq(S)
    PROVE  /\ Len(s) \in 0 .. Len(s \o t)
           /\ SubSeq(s \o t, 1, Len(s)) = s
           /\ SubSeq(s \o t, Len(s) + 1, Len(s \o t)) = t
  <1>. DEFINE u == s \o t
              n == Len(s)
              m == Len(t)
              a == SubSeq(u, 1, n)
              b == SubSeq(u, n + 1, Len(u))
  <1>0. n \in Nat /\ m \in Nat
    OBVIOUS
  <1>1. /\ u \in Seq(S) /\ Len(u) = n + m
        /\ \A k \in 1 .. n : u[k] = s[k]
        /\ \A k \in 1 .. m : u[n + k] = t[k]
    BY ConcatFacts
  <1>. HIDE DEF u
  <1>2. IsSeq(u)
    BY <1>1, SeqIs
  <1>. HIDE DEF n, m
  <1>3. /\ IsSeq(a) /\ Len(a) = n - 1 + 1
        /\ \A k \in 1 .. n - 1 + 1 : a[k] = u[1 + k - 1]
    <2>1. 1 \in Nat /\ 1 <= 1 /\ 1 <= n + 1 /\ n <= Len(u)
      BY <1>0, <1>1
    <2>. QED BY <1>0, <1>2, <2>1, SubSeqIsSeq
  <1>4. /\ IsSeq(b) /\ Len(b) = Len(u) - (n + 1) + 1
        /\ \A k \in 1 .. Len(u) - (n + 1) + 1 : b[k] = u[n + 1 + k - 1]
    <2>1. n + 1 \in Nat /\ Len(u) \in Nat /\ 1 <= n + 1 /\ n + 1 <= Len(u) + 1
          /\ Len(u) <= Len(u)
      BY <1>0, <1>1
    <2>. QED BY <1>2, <2>1, SubSeqIsSeq
  <1>5. a = s
    <2>1. Len(a) = n /\ \A k \in 1 .. n : a[k] = s[k]
      BY <1>0, <1>1, <1>3
    <2>2. a \in Seq(RangeOf(a) \cup S) /\ s \in Seq(RangeOf(a) \cup S)
      <3>1. IsSeq(s) /\ RangeOf(s) \subseteq S
        BY SeqIs
      <3>2. RangeOf(a) \subseteq RangeOf(a) \cup S /\ RangeOf(s) \subseteq RangeOf(a) \cup S
        BY <3>1
      <3>. QED BY <1>3, <3>1, <3>2, IsSeqIn
    <2>3. Len(a) = Len(s) /\ \A k \in 1 .. Len(s) : a[k] = s[k]
      BY <2>1 DEF n
    <2>. QED BY ONLY <2>2, <2>3, SeqsEqual
  <1>6. b = t
    <2>1. Len(u) - (n + 1) + 1 = m
      BY <1>0, <1>1
    <2>2. \A k \in 1 .. m : n + 1 + k - 1 = n + k
      BY <1>0
    <2>3. Len(b) = m /\ \A k \in 1 .. m : b[k] = t[k]
      BY <1>1, <1>4, <2>1, <2>2
    <2>4. b \in Seq(RangeOf(b) \cup S) /\ t \in Seq(RangeOf(b) \cup S)
      <3>1. IsSeq(t) /\ RangeOf(t) \subseteq S
        BY SeqIs
      <3>2. RangeOf(b) \subseteq RangeOf(b) \cup S /\ RangeOf(t) \subseteq RangeOf(b) \cup S
        BY <3>1
      <3>. QED BY <1>4, <3>1, <3>2, IsSeqIn
    <2>5. Len(b) = Len(t) /\ \A k \in 1 .. Len(t) : b[k] = t[k]
      BY <2>3 DEF m
    <2>. QED BY ONLY <2>4, <2>5, SeqsEqual
  <1>7. n \in 0 .. Len(u)
    BY <1>0, <1>1
  <1>. QED BY <1>5, <1>6, <1>7 DEF n, u

\* A chain before, a form and a chain after lead to the candidate made of them.
LEMMA OneLed ==
    ASSUME NEW candidate, NEW source, NEW form, NEW variant, NEW before, NEW after,
           before \in Seq(RangeOf(PreProcessors)),
           source \in ProcessorTexts({candidate.surface}, before),
           FormOf(source, form),
           VariantOf(form.text, RangeOf(PostProcessors), variant),
           after \in RangeOf(variant.chains),
           candidate.lemma = variant.text, candidate.trace = form.trace,
           candidate.processors = before \o after
    PROVE  Led(candidate)
  <1>. DEFINE P == RangeOf(PreProcessors)
              Q == RangeOf(PostProcessors)
              A == ProcessorTexts({candidate.surface}, before)
              B == RuleTexts(A, form.trace)
  <1>1. after \in Seq(Q) /\ variant.text \in ProcessorTexts({form.text}, after)
    <2>1. variant.chains \in Seq(Seq(Q))
      BY DEF VariantOf
    <2>2. RangeOf(variant.chains) \subseteq Seq(Q)
      BY ONLY <2>1, SeqIs
    <2>. QED BY <2>2 DEF VariantOf
  <1>2. form.text \in B
    <2>1. RuleTexts({source}, form.trace) \subseteq B
      BY MoreRuleTexts DEF FormOf
    <2>. QED BY <2>1 DEF FormOf
  <1>3. variant.text \in ProcessorTexts(B, after)
    <2>. HIDE DEF B
    <2>1. {form.text} \subseteq B
      BY <1>2
    <2>2. ProcessorTexts({form.text}, after) \subseteq ProcessorTexts(B, after)
      BY <1>1, <2>1, MoreTexts
    <2>. QED BY <1>1, <2>2
  <1>4. before \in Seq(P \cup Q) /\ after \in Seq(P \cup Q)
        /\ RangeOf(before) \subseteq P /\ RangeOf(after) \subseteq Q
    <2>1. /\ IsSeq(before) /\ RangeOf(before) \subseteq P
          /\ IsSeq(after) /\ RangeOf(after) \subseteq Q
      BY <1>1, SeqIs
    <2>2. RangeOf(before) \subseteq P \cup Q /\ RangeOf(after) \subseteq P \cup Q
      BY <2>1
    <2>. QED BY <2>1, <2>2, IsSeqIn
  <1>. DEFINE u == before \o after
              n == Len(before)
  <1>5. n \in 0 .. Len(u) /\ SubSeq(u, 1, n) = before /\ SubSeq(u, n + 1, Len(u)) = after
    BY <1>4, SplitChain
  <1>6. LedBy(candidate, before, after)
    BY <1>3, <1>4 DEF LedBy
  <1>7. candidate.processors = u
    OBVIOUS
  <1>. HIDE DEF u, n
  <1>. QED BY <1>5, <1>6, <1>7 DEF Led

\* The candidates of a form.
LEMMA FormCandidatesLed ==
    ASSUME NEW form, PostProcessors \in Seq(Processors),
           VariantsOf(rawSource, RangeOf(PreProcessors), variants), Len(variants) >= 1,
           FormOf(variants[1].text, form)
    PROVE  LedAll(FormCandidates(form))
  <1>. DEFINE P == RangeOf(PreProcessors)
              Q == RangeOf(PostProcessors)
              source == Head(variants)
              post == GetVariants(form.text, PostProcessors)
              Of(variant, before, after) ==
                  Candidate(rawSource, variant.text, before \o after, form.trace,
                            sourcePriority * 100
                            + (Len(before \o after) + Len(form.trace)) * 5
                            + Shorter(source.text, variant.text))
              Ending(v, b) == [a \in DOMAIN post[v].chains |->
                                Of(post[v], source.chains[b], post[v].chains[a])]
              Middle(v) == [b \in DOMAIN source.chains |-> Ending(v, b)]
              first == [v \in DOMAIN post |-> FlattenSeq(Middle(v))]
  <1>1. FormCandidates(form) = FlattenSeq(first)
    BY DEF FormCandidates
  <1>2. source = variants[1] /\ VariantOf(rawSource, P, variants[1])
    <2>1. 1 \in 1 .. Len(variants) /\ IsSeq(variants)
      BY IsSeqFacts DEF VariantsOf
    <2>. QED BY <2>1, IsSeqFacts DEF VariantsOf
  <1>3. VariantsOf(form.text, Q, post)
    <2>1. Q \subseteq Processors
      BY SeqIs
    <2>2. PostProcessors \in Seq(Q)
      BY SeqIs DEF IsSeq
    <2>. QED BY <2>1, <2>2, GetVariantsIs DEF FormOf
  <1>. HIDE DEF source, post
  <1>4. IsSeq(post) /\ DOMAIN post = 1 .. Len(post) /\ Len(post) \in Nat
    BY <1>3, IsSeqFacts DEF VariantsOf
  <1>5. IsSeq(source.chains) /\ DOMAIN source.chains = 1 .. Len(source.chains)
        /\ Len(source.chains) \in Nat
    BY <1>2, SeqIs, IsSeqFacts DEF VariantOf
  <1>6. ASSUME NEW v \in DOMAIN post
        PROVE  /\ VariantOf(form.text, Q, post[v]) /\ IsSeq(post[v].chains)
               /\ DOMAIN post[v].chains = 1 .. Len(post[v].chains)
               /\ Len(post[v].chains) \in Nat
    <2>1. VariantOf(form.text, Q, post[v])
      BY <1>3 DEF VariantsOf, RangeOf
    <2>2. post[v].chains \in Seq(Seq(Q))
      BY <2>1 DEF VariantOf
    <2>3. IsSeq(post[v].chains)
      BY <2>2, SeqIs
    <2>. QED BY <2>1, <2>3, IsSeqFacts
  <1>7. ASSUME NEW v \in DOMAIN post, NEW b \in DOMAIN source.chains,
               NEW a \in DOMAIN post[v].chains
        PROVE  Led(Of(post[v], source.chains[b], post[v].chains[a]))
    <2>. DEFINE before == source.chains[b]
                after == post[v].chains[a]
                c == Of(post[v], before, after)
    <2>1. /\ c.surface = rawSource /\ c.lemma = post[v].text
          /\ c.processors = before \o after /\ c.trace = form.trace
      BY DEF Candidate
    <2>2. before \in Seq(P)
      BY <1>2 DEF VariantOf
    <2>3. before \in RangeOf(source.chains) /\ after \in RangeOf(post[v].chains)
      BY DEF RangeOf
    <2>4. source.text \in ProcessorTexts({rawSource}, before)
      BY <1>2, <2>3 DEF VariantOf
    <2>5. FormOf(source.text, form) /\ VariantOf(form.text, Q, post[v])
      BY <1>2, <1>6
    <2>. HIDE DEF c, before, after
    <2>6. Led(c)
      BY <2>1, <2>2, <2>3, <2>4, <2>5, OneLed
    <2>. QED BY <2>6 DEF c, before, after
  <1>. HIDE DEF Of
  <1>8. ASSUME NEW v \in DOMAIN post, NEW b \in DOMAIN source.chains
        PROVE  IsSeq(Ending(v, b)) /\ \A c \in RangeOf(Ending(v, b)) : Led(c)
    <2>. DEFINE l == Ending(v, b)
                n == Len(post[v].chains)
    <2>1. n \in Nat /\ DOMAIN l = 1 .. n /\ l = [a \in 1 .. n |-> l[a]]
      BY <1>6
    <2>2. \A a \in DOMAIN l : Led(l[a])
      BY <1>7
    <2>. HIDE DEF l, n
    <2>3. IsSeq(l) /\ \A c \in RangeOf(l) : Led(c)
      BY <2>1, <2>2, FunctionIsSeq DEF RangeOf
    <2>. QED BY <2>3 DEF l
  <1>. HIDE DEF Ending
  <1>9. ASSUME NEW v \in DOMAIN post
        PROVE  IsSeq(FlattenSeq(Middle(v))) /\ \A c \in RangeOf(FlattenSeq(Middle(v))) : Led(c)
    <2>. DEFINE m == Middle(v)
                n == Len(source.chains)
    <2>1. n \in Nat /\ DOMAIN m = 1 .. n /\ m = [b \in 1 .. n |-> m[b]]
      BY <1>5
    <2>2. \A b \in DOMAIN m : IsSeq(m[b]) /\ \A c \in RangeOf(m[b]) : Led(c)
      BY <1>8
    <2>. HIDE DEF m, n
    <2>3. IsSeq(m)
      BY <2>1, FunctionIsSeq
    <2>4. /\ IsSeq(FlattenSeq(m))
          /\ \A e \in RangeOf(FlattenSeq(m)) : \E i \in DOMAIN m : e \in RangeOf(m[i])
      BY <2>2, <2>3, FlattenElements
    <2>5. \A c \in RangeOf(FlattenSeq(m)) : Led(c)
      BY <2>2, <2>4
    <2>. QED BY <2>4, <2>5 DEF m
  <1>. HIDE DEF Middle
  <1>. DEFINE n == Len(post)
  <1>10. n \in Nat /\ DOMAIN first = 1 .. n /\ first = [v \in 1 .. n |-> first[v]]
    BY <1>4
  <1>11. \A v \in DOMAIN first : IsSeq(first[v]) /\ \A c \in RangeOf(first[v]) : Led(c)
    BY <1>9
  <1>. HIDE DEF first, n
  <1>12. IsSeq(first)
    BY <1>10, FunctionIsSeq
  <1>13. /\ IsSeq(FlattenSeq(first))
         /\ \A e \in RangeOf(FlattenSeq(first)) : \E i \in DOMAIN first : e \in RangeOf(first[i])
    BY <1>11, <1>12, FlattenElements
  <1>14. \A c \in RangeOf(FlattenSeq(first)) : Led(c)
    BY <1>11, <1>13
  <1>. QED BY <1>1, <1>13, <1>14 DEF LedAll, RangeOf

\* A candidate that takes the place of another, or comes after all.
LEMMA AddCandidateLed ==
    ASSUME NEW found, LedAll(found), NEW candidate, Led(candidate)
    PROVE  LedAll(AddCandidate(found, candidate))
  <1>. DEFINE same == {k \in DOMAIN found : found[k].lemma = candidate.lemma}
              replaced == [k \in DOMAIN found |->
                              IF k \in same /\ candidate.priority < found[k].priority
                              THEN candidate ELSE found[k]]
  <1>1. IsSeq(found) /\ DOMAIN found = 1 .. Len(found) /\ Len(found) \in Nat
    BY IsSeqFacts DEF LedAll
  <1>2. AddCandidate(found, candidate) \in {found, Append(found, candidate), replaced}
    BY DEF AddCandidate
  <1>3. LedAll(Append(found, candidate))
    <2>1. /\ IsSeq(Append(found, candidate))
          /\ RangeOf(Append(found, candidate)) \subseteq RangeOf(found) \cup {candidate}
      BY <1>1, AppendIsSeq
    <2>2. \A c \in RangeOf(found) : Led(c)
      BY DEF LedAll, RangeOf
    <2>3. \A k \in DOMAIN Append(found, candidate) :
              Append(found, candidate)[k] \in RangeOf(Append(found, candidate))
      BY DEF RangeOf
    <2>. HIDE DEF replaced
    <2>. QED BY <2>1, <2>2, <2>3 DEF LedAll
  <1>4. LedAll(replaced)
    <2>1. DOMAIN replaced = DOMAIN found /\ \A k \in DOMAIN found : Led(replaced[k])
      BY DEF LedAll
    <2>2. replaced = [k \in 1 .. Len(found) |-> replaced[k]]
      BY <1>1
    <2>. HIDE DEF replaced
    <2>3. IsSeq(replaced)
      BY <1>1, <2>2, FunctionIsSeq
    <2>. QED BY <2>1, <2>3 DEF LedAll
  <1>. QED BY <1>2, <1>3, <1>4

LEMMA AddCandidatesLed ==
    ASSUME NEW found, LedAll(found), NEW s, LedAll(s)
    PROVE  LedAll(FoldLeft(AddCandidate, found, s))
  <1>1. s \in Seq(RangeOf(s)) /\ Len(s) \in Nat /\ DOMAIN s = 1 .. Len(s)
    BY IsSeqFacts DEF LedAll
  <1>2. PICK g : Steps(g, "candidate", 0, found, s)
                 /\ FoldLeft(AddCandidate, found, s) = g[Len(s)]
    BY <1>1, FoldCandidate DEF FoldIs
  <1>. DEFINE G == { m \in Nat : m <= Len(s) => LedAll(g[m]) }
  <1>3. 0 \in G
    BY <1>2 DEF Steps
  <1>4. ASSUME NEW m \in Nat, m \in G PROVE m + 1 \in G
    <2>1. CASE m + 1 <= Len(s)
      <3>1. m + 1 \in 1 .. Len(s) /\ m <= Len(s) /\ (m + 1) - 1 = m
        BY <1>1, <2>1
      <3>2. g[m + 1] = AddCandidate(g[m], s[m + 1])
        BY <1>2, <3>1 DEF Steps, Op
      <3>3. LedAll(g[m]) /\ Led(s[m + 1])
        BY <1>1, <1>4, <3>1 DEF LedAll
      <3>4. LedAll(g[m + 1])
        BY <3>2, <3>3, AddCandidateLed
      <3>. QED BY <3>4
    <2>. QED BY <2>1
  <1>. HIDE DEF G
  <1>5. Len(s) \in G
    BY <1>1, <1>3, <1>4, SetInduction
  <1>. QED BY <1>1, <1>2, <1>5 DEF G

\* The candidates of the forms of a variant.
LEMMA CollectLed ==
    ASSUME PostProcessors \in Seq(Processors),
           VariantsOf(rawSource, RangeOf(PreProcessors), variants), Len(variants) >= 1,
           FormsOf(variants[1].text, forms), LedAll(results)
    PROVE  LedAll(FoldLeft(AddCandidate, results,
                     FlattenSeq([k \in DOMAIN forms |-> FormCandidates(forms[k])])))
  <1>. DEFINE p == [k \in DOMAIN forms |-> FormCandidates(forms[k])]
              n == Len(forms)
  <1>1. n \in Nat /\ DOMAIN p = 1 .. n /\ p = [k \in 1 .. n |-> p[k]]
    BY IsSeqFacts DEF FormsOf
  <1>2. ASSUME NEW k \in DOMAIN p PROVE LedAll(p[k])
    <2>1. FormOf(variants[1].text, forms[k])
      BY DEF FormsOf
    <2>. QED BY <2>1, FormCandidatesLed
  <1>. HIDE DEF p, n
  <1>3. IsSeq(p)
    BY <1>1, FunctionIsSeq
  <1>4. \A k \in DOMAIN p : IsSeq(p[k]) /\ \A c \in RangeOf(p[k]) : Led(c)
    BY <1>2 DEF LedAll, RangeOf
  <1>5. /\ IsSeq(FlattenSeq(p))
        /\ \A e \in RangeOf(FlattenSeq(p)) : \E i \in DOMAIN p : e \in RangeOf(p[i])
    BY <1>3, <1>4, FlattenElements
  <1>6. LedAll(FlattenSeq(p))
    BY <1>4, <1>5 DEF LedAll, RangeOf
  <1>. QED BY <1>6, AddCandidatesLed DEF p

-----------------------------------------------------------------------------
(* rawSources *)

LEMMA TrimIsSeq ==
    ASSUME NEW chars, IsSeq(chars)
    PROVE  IsSeq(TrimEnd(chars))
  <1>. DEFINE kept == {n \in 0 .. Len(chars) :
                          \A k \in n + 1 .. Len(chars) : chars[k] \in Blanks}
              n == CHOOSE n \in kept : \A m \in kept : n <= m
  <1>1. Len(chars) \in Nat
    BY IsSeqFacts
  <1>2. Len(chars) \in kept /\ \A m \in kept : m \in Nat /\ m <= Len(chars)
    BY <1>1
  <1>3. TrimEnd(chars) = SubSeq(chars, 1, n)
    BY DEF TrimEnd
  <1>. HIDE DEF kept
  <1>4. \E i \in kept : \A m \in kept : i <= m
    <2>1. kept \subseteq Nat /\ kept # {}
      BY <1>2
    <2>. QED BY <2>1, LeastOf
  <1>5. n \in kept
    BY <1>4
  <1>. HIDE DEF n
  <1>6. n \in Nat /\ 1 \in Nat /\ 1 <= 1 /\ 1 <= n + 1 /\ n <= Len(chars)
    BY <1>2, <1>5
  <1>. QED BY <1>3, <1>6, SubSeqIsSeq

SourcesOk(found) == IsSeq(found) /\ \A k \in DOMAIN found : IsSeq(found[k])

LEMMA AddSourceIs ==
    ASSUME NEW cut, IsSeq(cut), NEW found, SourcesOk(found),
           NEW length \in 1 .. Len(cut)
    PROVE  SourcesOk(AddSource(cut, found, length))
  <1>. DEFINE source == TrimEnd(SubSeq(cut, 1, length))
  <1>1. IsSeq(source)
    <2>1. Len(cut) \in Nat
      BY IsSeqFacts
    <2>2. length \in Nat /\ 1 \in Nat /\ 1 <= 1 /\ 1 <= length + 1 /\ length <= Len(cut)
      BY <2>1
    <2>3. IsSeq(SubSeq(cut, 1, length))
      BY <2>2, SubSeqIsSeq
    <2>. QED BY <2>3, TrimIsSeq
  <1>2. AddSource(cut, found, length) \in {found, Append(found, source)}
    BY DEF AddSource
  <1>. HIDE DEF source
  <1>3. SourcesOk(Append(found, source))
    <2>1. /\ IsSeq(Append(found, source))
          /\ RangeOf(Append(found, source)) \subseteq RangeOf(found) \cup {source}
      BY AppendIsSeq DEF SourcesOk
    <2>2. \A c \in RangeOf(found) : IsSeq(c)
      BY DEF SourcesOk, RangeOf
    <2>3. \A k \in DOMAIN Append(found, source) :
              Append(found, source)[k] \in RangeOf(Append(found, source))
      BY DEF RangeOf
    <2>. QED BY <1>1, <2>1, <2>2, <2>3 DEF SourcesOk
  <1>. QED BY <1>2, <1>3

LEMMA ScannedIsSeq ==
    ASSUME NEW chars, IsSeq(chars)
    PROVE  IsSeq(Scanned(chars))
  <1>. DEFINE n == IF Len(chars) < ScanLength THEN Len(chars) ELSE ScanLength
  <1>1. Len(chars) \in Nat /\ ScanLength \in Nat
    BY IsSeqFacts, LookupAssumption
  <1>2. n \in Nat /\ 1 \in Nat /\ 1 <= 1 /\ 1 <= n + 1 /\ n <= Len(chars)
    BY <1>1
  <1>. HIDE DEF n
  <1>3. IsSeq(SubSeq(chars, 1, n))
    BY <1>2, SubSeqIsSeq
  <1>. QED BY <1>3 DEF Scanned, n

LEMMA RawSourcesAre ==
    ASSUME NEW chars, IsSeq(chars)
    PROVE  SourcesOk(RawSources(chars))
  <1>. DEFINE cut == Scanned(chars)
              n == Len(cut)
              s == [i \in DOMAIN cut |-> Len(cut) + 1 - i]
  <1>1. IsSeq(cut) /\ n \in Nat /\ DOMAIN cut = 1 .. n
    BY ScannedIsSeq, IsSeqFacts
  <1>2. s \in Seq(1 .. n) /\ Len(s) = n
    <2>1. s = [i \in 1 .. n |-> n + 1 - i]
      BY <1>1
    <2>. HIDE DEF s, n
    <2>2. \A i \in 1 .. n : n + 1 - i \in 1 .. n
      BY <1>1
    <2>. QED BY <1>1, <2>1, <2>2
  <1>. HIDE DEF n
  <1>3. PICK g : Steps(g, "source", cut, << >>, s) /\ RawSources(chars) = g[Len(s)]
    <2>1. ASSUME NEW t \in Seq(1 .. n), t = s, NEW c, c = cut
          PROVE  FoldIs("source", c, << >>, t, RawSources(chars))
      BY <2>1, FoldSource
    <2>2. FoldIs("source", cut, << >>, s, RawSources(chars))
      BY <1>2, <2>1
    <2>. QED BY <2>2 DEF FoldIs
  <1>. HIDE DEF s, cut
  <1>. DEFINE G == { m \in Nat : m <= n => SourcesOk(g[m]) }
  <1>4. 0 \in G
    <2>1. SourcesOk(<< >>)
      BY NothingIsSeq DEF SourcesOk
    <2>. QED BY <1>3, <2>1 DEF Steps
  <1>5. ASSUME NEW m \in Nat, m \in G PROVE m + 1 \in G
    <2>1. CASE m + 1 <= n
      <3>1. m + 1 \in 1 .. n /\ m <= n /\ (m + 1) - 1 = m
        BY <1>1, <2>1
      <3>2. g[m + 1] = AddSource(cut, g[m], s[m + 1])
        BY <1>2, <1>3, <3>1 DEF Steps, Op
      <3>3. SourcesOk(g[m]) /\ s[m + 1] \in 1 .. n
        BY <1>2, <1>5, <3>1
      <3>4. SourcesOk(g[m + 1])
        BY <1>1, <3>2, <3>3, AddSourceIs DEF n
      <3>. QED BY <3>4
    <2>. QED BY <2>1
  <1>. HIDE DEF G
  <1>6. n \in G
    BY <1>1, <1>4, <1>5, SetInduction
  <1>. QED BY <1>1, <1>2, <1>3, <1>6 DEF G

-----------------------------------------------------------------------------
(* The lookup: its invariant *)

LEMMA TailIsSeq ==
    ASSUME NEW s, IsSeq(s), s # << >>
    PROVE  /\ Len(s) >= 1 /\ Head(s) = s[1] /\ s[1] \in RangeOf(s)
           /\ IsSeq(Tail(s)) /\ Len(Tail(s)) = Len(s) - 1
           /\ RangeOf(Tail(s)) \subseteq RangeOf(s)
  <1>. DEFINE S == RangeOf(s)
  <1>1. s \in Seq(S) /\ Len(s) \in Nat
    BY IsSeqFacts
  <1>. HIDE DEF S
  <1>2. Len(s) >= 1 /\ Head(s) = s[1] /\ s[1] \in S /\ Tail(s) \in Seq(S)
        /\ Len(Tail(s)) = Len(s) - 1
    BY <1>1
  <1>. QED BY <1>2, SeqIs DEF S

\* What stays true of a lookup: the candidates found so far are led to, and in
\* transform every form is what the rules of its trace make of the variant, the
\* variant what its chains make of the raw source.
DescriptorInv == \E l \in DOMAIN Descriptors : descriptor = Descriptors[l]

LookupInv ==
    /\ DescriptorInv
    /\ lastIndex \in [DOMAIN Rules -> Nat]
    /\ SourcesOk(sources)
    /\ LedAll(results)
    /\ step = "transform" =>
           /\ next \in Nat /\ next >= 1
           /\ VariantsOf(rawSource, RangeOf(PreProcessors), variants)
           /\ Len(variants) >= 1
           /\ FormsOf(variants[1].text, forms)

\* What the assumption on descriptors says of the one that is used.
LEMMA DescriptorFacts ==
    ASSUME DescriptorInv
    PROVE  /\ PreProcessors \in Seq(Processors) /\ PostProcessors \in Seq(Processors)
           /\ RulesOk /\ descriptor.scannedTexts \subseteq Seq(STRING)
  <1>1. PICK l \in DOMAIN Descriptors : descriptor = Descriptors[l]
    BY DEF DescriptorInv
  <1>2. /\ PreProcessors \in Seq(Processors) /\ PostProcessors \in Seq(Processors)
        /\ descriptor.scannedTexts \subseteq Seq(STRING)
        /\ Rules \in Seq(TextRules)
        /\ \A k \in DOMAIN Rules :
               /\ Rules[k].global <=> Rules[k].kind \notin {"suffix", "prefix"}
               /\ Rules[k].global => Rules[k].from # << >>
    BY <1>1, DescriptorsAssumption DEF PreProcessors, PostProcessors, Rules
  <1>3. ASSUME NEW k \in DOMAIN Rules PROVE RuleOk(Rules[k])
    <2>. DEFINE rule == Rules[k]
    <2>1. rule \in TextRules
      BY <1>2
    <2>2. /\ rule.global <=> rule.kind \notin {"suffix", "prefix"}
          /\ rule.global => rule.from # << >>
      BY <1>2
    <2>. HIDE DEF rule
    <2>3. rule.from \in Seq(STRING) /\ rule.to \in Seq(STRING) /\ rule.global \in BOOLEAN
      BY <2>1 DEF TextRules
    <2>4. rule.from # << >> => Len(rule.from) >= 1
      BY <2>3, EmptySeq
    <2>5. RuleOk(rule)
      BY <2>2, <2>3, <2>4, SeqIs DEF RuleOk
    <2>. QED BY <2>5 DEF rule
  <1>4. IsSeq(Rules)
    BY <1>2, SeqIs
  <1>. QED BY <1>2, <1>3, <1>4 DEF RulesOk

LEMMA NothingOk == SourcesOk(<< >>) /\ LedAll(<< >>)
  BY NothingIsSeq DEF SourcesOk, LedAll

LEMMA LookupInitInv == LookupInit => LookupInv
  <1>1. ASSUME LookupInit PROVE DescriptorInv
    BY <1>1 DEF LookupInit, DescriptorInv
  <1>. QED BY <1>1, NothingOk DEF LookupInit, LookupInv

\* The descriptor stays that of the language, so what a rule makes of a text does.
LEMMA RuleTextsKept ==
    ASSUME NEW texts, NEW trace, descriptor' = descriptor
    PROVE  RuleTexts(texts, trace)' = RuleTexts(texts, trace)
  <1>1. ASSUME NEW made, made = FoldLeft(ReplayRule, texts, Reverse(trace))
        PROVE  made = FoldLeft(ReplayRule, texts, Reverse(trace))'
    BY <1>1 DEF FoldLeft, MapThenFoldSet, ReplayRule, Rules
  <1>. QED BY <1>1 DEF RuleTexts

LEMMA FormKept ==
    ASSUME NEW source, NEW form, descriptor' = descriptor, FormOf(source, form)
    PROVE  FormOf(source, form)'
  <1>1. RuleTexts({source}, form.trace)' = RuleTexts({source}, form.trace)
    BY RuleTextsKept
  <1>. QED BY <1>1 DEF FormOf

LEMMA FormsKept ==
    ASSUME descriptor' = descriptor, FormsOf(variants'[1].text, forms')
    PROVE  FormsOf(variants[1].text, forms)'
  <1>1. ASSUME NEW source, NEW form, FormOf(source, form) PROVE FormOf(source, form)'
    BY <1>1, FormKept
  <1>2. \A k \in DOMAIN forms' : FormOf(variants'[1].text, forms'[k])
    BY DEF FormsOf
  <1>3. (\A k \in DOMAIN forms : FormOf(variants[1].text, forms[k]))'
    BY <1>1, <1>2
  <1>. QED BY <1>3 DEF FormsOf

LEMMA LedKept ==
    ASSUME NEW candidate, descriptor' = descriptor, Led(candidate)
    PROVE  Led(candidate)'
  <1>1. ASSUME NEW before, NEW after, LedBy(candidate, before, after)
        PROVE  LedBy(candidate, before, after)'
    <2>. DEFINE texts == ProcessorTexts({candidate.surface}, before)
    <2>1. RuleTexts(texts, candidate.trace)' = RuleTexts(texts, candidate.trace)
      BY RuleTextsKept
    <2>. QED BY <1>1, <2>1 DEF LedBy, PreProcessors, PostProcessors
  <1>. QED BY <1>1 DEF Led

LEMMA ResultsKept ==
    ASSUME descriptor' = descriptor, LedAll(results')
    PROVE  LedAll(results)'
  <1>1. ASSUME NEW candidate, Led(candidate) PROVE Led(candidate)'
    BY <1>1, LedKept
  <1>2. \A k \in DOMAIN results' : Led(results'[k])
    BY DEF LedAll
  <1>3. (\A k \in DOMAIN results : Led(results[k]))'
    BY <1>1, <1>2
  <1>. QED BY <1>3 DEF LedAll

-----------------------------------------------------------------------------
(* The steps of a lookup *)

LEMMA BeginLookupInv == LookupInv /\ BeginLookup => LookupInv'
  <1>. SUFFICES ASSUME LookupInv, BeginLookup PROVE LookupInv'
    OBVIOUS
  <1>1. descriptor' = descriptor /\ lastIndex' = lastIndex /\ step' = "sources"
    BY DEF BeginLookup
  <1>2. DescriptorInv' /\ (lastIndex \in [DOMAIN Rules -> Nat])'
    BY <1>1 DEF LookupInv, DescriptorInv, Rules
  <1>3. SourcesOk(sources)'
    <2>1. scannedText' \in descriptor.scannedTexts
          /\ descriptor.scannedTexts \subseteq Seq(STRING)
      BY DescriptorFacts DEF LookupInv, BeginLookup
    <2>2. scannedText' \in Seq(STRING) /\ sources' = RawSources(scannedText')
      BY <2>1 DEF BeginLookup
    <2>3. ASSUME NEW chars \in Seq(STRING) PROVE SourcesOk(RawSources(chars))
      BY SeqIs, RawSourcesAre
    <2>4. SourcesOk(RawSources(scannedText'))
      BY <2>2, <2>3
    <2>. QED BY <2>2, <2>4 DEF SourcesOk
  <1>4. LedAll(results)'
    <2>1. LedAll(results')
      BY NothingOk DEF BeginLookup
    <2>. QED BY <1>1, <2>1, ResultsKept
  <1>. QED BY <1>1, <1>2, <1>3, <1>4 DEF LookupInv

LEMMA NextSourceInv == LookupInv /\ NextSource => LookupInv'
  <1>. SUFFICES ASSUME LookupInv, NextSource PROVE LookupInv'
    OBVIOUS
  <1>1. descriptor' = descriptor /\ lastIndex' = lastIndex /\ results' = results
        /\ next' = 1 /\ sources # << >> /\ sources' = Tail(sources)
        /\ rawSource' = Head(sources)
        /\ variants' = GetVariants(rawSource', PreProcessors)
        /\ forms' = << Form(variants'[1].text, {}, << >>) >>
    BY DEF NextSource
  <1>2. DescriptorInv' /\ (lastIndex \in [DOMAIN Rules -> Nat])'
    BY <1>1 DEF LookupInv, DescriptorInv, Rules
  <1>3. SourcesOk(sources') /\ IsSeq(rawSource')
    <2>1. IsSeq(sources) /\ \A c \in RangeOf(sources) : IsSeq(c)
      BY DEF LookupInv, SourcesOk, RangeOf
    <2>2. /\ Head(sources) \in RangeOf(sources) /\ IsSeq(Tail(sources))
          /\ RangeOf(Tail(sources)) \subseteq RangeOf(sources)
      BY <1>1, <2>1, TailIsSeq
    <2>3. \A k \in DOMAIN Tail(sources) : Tail(sources)[k] \in RangeOf(Tail(sources))
      BY DEF RangeOf
    <2>. QED BY <1>1, <2>1, <2>2, <2>3 DEF SourcesOk
  <1>4. LedAll(results)'
    <2>1. LedAll(results')
      BY <1>1 DEF LookupInv
    <2>. QED BY <1>1, <2>1, ResultsKept
  <1>5. VariantsOf(rawSource', RangeOf(PreProcessors), variants') /\ Len(variants') >= 1
    <2>1. PreProcessors \in Seq(Processors)
      BY DescriptorFacts DEF LookupInv
    <2>2. /\ RangeOf(PreProcessors) \subseteq Processors
          /\ PreProcessors \in Seq(RangeOf(PreProcessors))
      BY <2>1, SeqIs DEF IsSeq
    <2>3. ASSUME NEW source, IsSeq(source)
          PROVE  /\ VariantsOf(source, RangeOf(PreProcessors),
                               GetVariants(source, PreProcessors))
                 /\ Len(GetVariants(source, PreProcessors)) >= 1
      BY <2>2, <2>3, GetVariantsIs
    <2>. QED BY <1>1, <1>3, <2>3
  <1>6. FormsOf(variants'[1].text, forms')
    <2>1. VariantOf(rawSource', RangeOf(PreProcessors), variants'[1])
      <3>1. ASSUME NEW s, IsSeq(s), Len(s) >= 1 PROVE s[1] \in RangeOf(s)
        BY <3>1, IsSeqFacts
      <3>. QED BY <1>5, <3>1 DEF VariantsOf
    <2>2. IsSeq(variants'[1].text)
      BY <2>1 DEF VariantOf
    <2>3. ASSUME NEW s, IsSeq(s) PROVE FormsOf(s, << Form(s, {}, << >>) >>)
      BY <2>3, FirstForm
    <2>. QED BY <1>1, <2>2, <2>3
  <1>7. FormsOf(variants[1].text, forms)'
    BY <1>1, <1>6, FormsKept
  <1>8. (VariantsOf(rawSource, RangeOf(PreProcessors), variants) /\ Len(variants) >= 1)'
    BY <1>1, <1>5 DEF PreProcessors
  <1>. QED BY <1>1, <1>2, <1>3, <1>4, <1>7, <1>8 DEF LookupInv

LEMMA TransformNextInv == LookupInv /\ TransformNext => LookupInv'
  <1>. SUFFICES ASSUME LookupInv, TransformNext PROVE LookupInv'
    OBVIOUS
  <1>1. /\ descriptor' = descriptor /\ results' = results /\ next' = next + 1
        /\ sources' = sources /\ rawSource' = rawSource /\ variants' = variants
        /\ step = "transform" /\ step' = step /\ next <= Len(forms)
        /\ forms' = ApplyAll(forms[next]).forms
        /\ lastIndex' = ApplyAll(forms[next]).lastIndex
    BY DEF TransformNext
  <1>2. /\ next \in Nat /\ next >= 1 /\ FormsOf(variants[1].text, forms)
        /\ VariantsOf(rawSource, RangeOf(PreProcessors), variants) /\ Len(variants) >= 1
        /\ lastIndex \in [DOMAIN Rules -> Nat]
    BY <1>1 DEF LookupInv
  <1>3. FormsMade(variants[1].text, ApplyAll(forms[next]))
    <2>1. next \in DOMAIN forms
      BY <1>1, <1>2, IsSeqFacts DEF FormsOf
    <2>2. FormOf(variants[1].text, forms[next]) /\ RulesOk
      BY <1>2, <2>1, DescriptorFacts DEF FormsOf, LookupInv
    <2>. QED BY <1>2, <2>2, ApplyAllIs
  <1>4. FormsOf(variants[1].text, forms)'
    <2>1. FormsOf(variants'[1].text, forms')
      BY <1>1, <1>3 DEF FormsMade
    <2>. QED BY <1>1, <2>1, FormsKept
  <1>5. (lastIndex \in [DOMAIN Rules -> Nat])'
    BY <1>1, <1>3 DEF FormsMade, Rules
  <1>6. LedAll(results)'
    <2>1. LedAll(results')
      BY <1>1 DEF LookupInv
    <2>. QED BY <1>1, <2>1, ResultsKept
  <1>7. DescriptorInv' /\ SourcesOk(sources)'
    BY <1>1 DEF LookupInv, DescriptorInv
  <1>8. (VariantsOf(rawSource, RangeOf(PreProcessors), variants) /\ Len(variants) >= 1)'
    BY <1>1, <1>2 DEF PreProcessors
  <1>9. next' \in Nat /\ next' >= 1
    BY <1>1, <1>2
  <1>. QED BY <1>4, <1>5, <1>6, <1>7, <1>8, <1>9 DEF LookupInv

LEMMA CollectInv == LookupInv /\ Collect => LookupInv'
  <1>. SUFFICES ASSUME LookupInv, Collect PROVE LookupInv'
    OBVIOUS
  <1>1. /\ descriptor' = descriptor /\ lastIndex' = lastIndex /\ next' = 1
        /\ sources' = sources /\ rawSource' = rawSource /\ variants' = Tail(variants)
        /\ step = "transform"
        /\ results' = FoldLeft(AddCandidate, results,
                          FlattenSeq([k \in DOMAIN forms |-> FormCandidates(forms[k])]))
        /\ variants' = << >> => step' = "sources"
        /\ variants' # << >> => forms' = << Form(variants'[1].text, {}, << >>) >>
    BY DEF Collect
  <1>2. /\ FormsOf(variants[1].text, forms)
        /\ VariantsOf(rawSource, RangeOf(PreProcessors), variants) /\ Len(variants) >= 1
        /\ LedAll(results)
    BY <1>1 DEF LookupInv
  <1>3. DescriptorInv' /\ SourcesOk(sources)' /\ (lastIndex \in [DOMAIN Rules -> Nat])'
    BY <1>1 DEF LookupInv, DescriptorInv, Rules
  <1>4. LedAll(results)'
    <2>1. PostProcessors \in Seq(Processors)
      BY DescriptorFacts DEF LookupInv
    <2>2. LedAll(results')
      BY <1>1, <1>2, <2>1, CollectLed
    <2>. QED BY <1>1, <2>2, ResultsKept
  <1>5. VariantsOf(rawSource', RangeOf(PreProcessors), variants')
    <2>1. IsSeq(variants) /\ variants # << >>
      BY <1>2, NothingIsSeq DEF VariantsOf
    <2>2. IsSeq(Tail(variants)) /\ RangeOf(Tail(variants)) \subseteq RangeOf(variants)
      BY <2>1, TailIsSeq
    <2>. QED BY <1>1, <1>2, <2>2 DEF VariantsOf
  <1>6. ASSUME variants' # << >>
        PROVE  Len(variants') >= 1 /\ FormsOf(variants'[1].text, forms')
    <2>1. IsSeq(variants')
      BY <1>5 DEF VariantsOf
    <2>2. ASSUME NEW s, IsSeq(s), s # << >> PROVE Len(s) >= 1 /\ s[1] \in RangeOf(s)
      BY <2>2, TailIsSeq
    <2>3. Len(variants') >= 1 /\ variants'[1] \in RangeOf(variants')
      BY <1>6, <2>1, <2>2
    <2>4. IsSeq(variants'[1].text)
      BY <1>5, <2>3 DEF VariantsOf, VariantOf
    <2>5. ASSUME NEW s, IsSeq(s) PROVE FormsOf(s, << Form(s, {}, << >>) >>)
      BY <2>5, FirstForm
    <2>. QED BY <1>1, <1>6, <2>3, <2>4, <2>5
  <1>7. variants' # << >> => FormsOf(variants[1].text, forms)'
    BY <1>1, <1>6, FormsKept
  <1>8. VariantsOf(rawSource, RangeOf(PreProcessors), variants)'
    BY <1>1, <1>5 DEF PreProcessors
  <1>. QED BY <1>1, <1>3, <1>4, <1>6, <1>7, <1>8 DEF LookupInv

\* A step that leaves what LookupInv is about alone.
LEMMA StutterLookupInv ==
    ASSUME LookupInv, descriptor' = descriptor, lastIndex' = lastIndex,
           sources' = sources, rawSource' = rawSource, results' = results,
           step' = "transform" =>
               /\ step = "transform" /\ next' = next
               /\ variants' = variants /\ forms' = forms
    PROVE  LookupInv'
  <1>1. DescriptorInv' /\ SourcesOk(sources)' /\ (lastIndex \in [DOMAIN Rules -> Nat])'
    BY DEF LookupInv, DescriptorInv, Rules
  <1>2. LedAll(results)'
    <2>1. LedAll(results')
      BY DEF LookupInv
    <2>. QED BY <2>1, ResultsKept
  <1>3. ASSUME step' = "transform"
        PROVE  FormsOf(variants[1].text, forms)'
    <2>1. FormsOf(variants'[1].text, forms')
      BY <1>3 DEF LookupInv
    <2>. QED BY <2>1, FormsKept
  <1>4. step' = "transform" =>
            (/\ next \in Nat /\ next >= 1
             /\ VariantsOf(rawSource, RangeOf(PreProcessors), variants)
             /\ Len(variants) >= 1)'
    BY DEF LookupInv, PreProcessors
  <1>. QED BY <1>1, <1>2, <1>3, <1>4 DEF LookupInv

\* Every step of a lookup keeps LookupInv.
LEMMA NextLookupInv == LookupInv /\ [LookupNext]_lookupVars => LookupInv'
  <1>. SUFFICES ASSUME LookupInv, [LookupNext]_lookupVars PROVE LookupInv'
    OBVIOUS
  <1>1. CASE BeginLookup
    BY <1>1, BeginLookupInv
  <1>2. CASE NextSource
    BY <1>2, NextSourceInv
  <1>3. CASE TransformNext
    BY <1>3, TransformNextInv
  <1>4. CASE Collect
    BY <1>4, CollectInv
  <1>5. CASE Answer
    <2>1. /\ descriptor' = descriptor /\ lastIndex' = lastIndex /\ sources' = sources
          /\ rawSource' = rawSource /\ results' = results /\ step' # "transform"
      BY <1>5 DEF Answer
    <2>. QED BY <2>1, StutterLookupInv
  <1>6. CASE UNCHANGED lookupVars
    <2>1. /\ descriptor' = descriptor /\ lastIndex' = lastIndex /\ sources' = sources
          /\ rawSource' = rawSource /\ results' = results /\ step' = step
          /\ next' = next /\ variants' = variants /\ forms' = forms
      BY <1>6 DEF lookupVars
    <2>. QED BY <2>1, StutterLookupInv
  <1>. QED BY <1>1, <1>2, <1>3, <1>4, <1>5, <1>6 DEF LookupNext

LEMMA InvReplays == LookupInv => TraceReplays
  BY TracesLed DEF LookupInv

\* Whatever the text processors, the rules and the texts of a language: the chain of
\* processors and the rules that a candidate shows do lead from the scanned text to it.
THEOREM Replays == LookupSpec => []TraceReplays
  <1>1. LookupInit => LookupInv
    BY LookupInitInv
  <1>2. LookupInv /\ [LookupNext]_lookupVars => LookupInv'
    BY NextLookupInv
  <1>3. LookupInv => TraceReplays
    BY InvReplays
  <1>. QED BY <1>1, <1>2, <1>3, PTL DEF LookupSpec

-----------------------------------------------------------------------------
(* The bundle as a whole *)

BundleInv == IInv /\ AcceptInv /\ HangulInv /\ SyllablesInv /\ LookupInv

\* A step of the bundle is one of a single part; the others stay as they are.
LEMMA BundleSteps ==
    [BundleNext]_allVars
        => [Next]_vars /\ [HangulNext]_hangulVars /\ [LookupNext]_lookupVars
  BY DEF BundleNext, allVars

LEMMA NextBundleInv == BundleInv /\ [BundleNext]_allVars => BundleInv'
  BY BundleSteps, NextIInv, NextAccept, NextHangulInv, NextSyllablesInv, NextLookupInv
     DEF BundleInv

\* Whichever of its parts the language bundle is called for, and in whatever order:
\* the flags of a registered table tell its conditions apart, the tables accepted
\* are the well-formed ones, no Korean letter or syllable is lost, and what a
\* candidate shows led to it does lead to it.
THEOREM BundleCorrect ==
    BundleSpec => [](/\ FlagsTellConditionsApart /\ AcceptsExactly
                     /\ NoLetterLost /\ SyllablesComeBack
                     /\ TraceReplays)
  <1>1. BundleInit => BundleInv
    BY InitIInv, InitAccept, InitHangulInv, InitSyllablesInv, LookupInitInv
       DEF BundleInit, BundleInv
  <1>2. BundleInv => /\ FlagsTellConditionsApart /\ AcceptsExactly
                     /\ NoLetterLost /\ SyllablesComeBack
                     /\ TraceReplays
    <2>1. HangulInv => NoLetterLost
      BY DEF HangulInv, TurnInv, NoLetterLost
    <2>. QED BY <2>1, InvTellsApart, InvAcceptsExactly, AllMade, InvReplays DEF BundleInv
  <1>. QED BY <1>1, <1>2, NextBundleInv, PTL DEF BundleSpec

=============================================================================
