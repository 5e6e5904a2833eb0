------------------------ MODULE LanguageTransformer ------------------------
(***************************************************************************)
(* The LanguageTransformer of src/assets/yomitan_language_bundle.js: it    *)
(* registers the deinflection table of a language, turning its conditions  *)
(* into flags, and then deinflects scanned texts with it.                  *)
(*                                                                         *)
(* transform() collects every text that rules reach from the scanned one.  *)
(* A behaviour below follows one of them: "text" is an element of its      *)
(* results, and ApplyRule goes on to one of the elements pushed for it.    *)
(* That transform() returns is then that every behaviour comes to a text   *)
(* to which no rule applies.  Its test for a cycle (the same rule at the   *)
(* same text, earlier in the trace) is left out: derivations are shown to  *)
(* end without it.                                                         *)
(***************************************************************************)
EXTENDS TransformRules, Sequences, FiniteSets

CONSTANTS
    Tables,     \* language -> its conditions, a sequence, and transforms
    MaxLength   \* bound: the letters of a scanned text

\* Conditions are the entries of an object: their types are distinct.
ASSUME TablesAssumption ==
    \A language \in DOMAIN Tables :
        /\ \A j, k \in DOMAIN Tables[language].conditions :
               Tables[language].conditions[j].type
                   = Tables[language].conditions[k].type => j = k
        /\ Tables[language].conditions \in
               Seq([type : STRING, isDictionaryForm : BOOLEAN,
                    subConditions : SUBSET STRING])
        /\ \A rule \in Tables[language].transforms :
               /\ rule.grow \in Int
               /\ rule.conditionsIn \subseteq STRING
               /\ rule.conditionsOut \subseteq STRING

ASSUME MaxLengthAssumption == MaxLength \in Nat

\* Flags are the bits of a 32-bit integer.
MaxFlags == 32

VARIABLES
    language,
    phase,          \* "flags", "ready", "refused" or "transforming"
    targets,        \* conditions the current round still has to visit
    nextTargets,    \* conditions put off to the next round
    roundLength,    \* the conditions the current round began with
    flagsMap,       \* condition type -> its flags, a set of bit numbers
    nextFlagIndex,
    scanned,        \* the length of the scanned text
    text            \* an element of the results of transform()

registration == << targets, nextTargets, roundLength, flagsMap, nextFlagIndex >>
vars == << language, phase, registration, scanned, text >>

Conditions == Tables[language].conditions
Transforms == Tables[language].transforms

NoText == [length |-> 0, end |-> Unknown, conditions |-> {}, respelled |-> {}]

Init ==
    /\ language \in DOMAIN Tables
    /\ phase = "flags"
    /\ targets = Conditions
    /\ nextTargets = << >>
    /\ roundLength = Len(Conditions)
    /\ flagsMap = [type \in {} |-> {}]
    /\ nextFlagIndex = 0
    /\ scanned = 0
    /\ text = NoText

-----------------------------------------------------------------------------
(* addDescriptor *)

\* _getConditionFlags: the union of the flags of some conditions.
ConditionFlags(types) == UNION { flagsMap[type] : type \in types }

\* _getConditionFlagsStrict does not return null.
Declared(types) == types \subseteq DOMAIN flagsMap

SetFlags(type, flags) ==
    flagsMap' = [t \in DOMAIN flagsMap \cup {type} |->
                    IF t = type THEN flags ELSE flagsMap[t]]

Refuse ==
    /\ phase' = "refused"
    /\ UNCHANGED << language, registration, scanned, text >>

\* Mutant of FlagLeaf: the next condition gets the same bit.
FlagLeafKeepsIndex ==
    /\ phase = "flags" /\ targets # << >>
    /\ Head(targets).subConditions = {}
    /\ nextFlagIndex < MaxFlags
    /\ SetFlags(Head(targets).type, {nextFlagIndex})
    /\ targets' = Tail(targets)
    /\ UNCHANGED << language, phase, nextTargets, roundLength, nextFlagIndex,
                    scanned, text >>

\* A condition without sub-conditions gets the next bit.
FlagLeaf ==
    /\ phase = "flags" /\ targets # << >>
    /\ Head(targets).subConditions = {}
    /\ nextFlagIndex < MaxFlags
    /\ SetFlags(Head(targets).type, {nextFlagIndex})
    /\ nextFlagIndex' = nextFlagIndex + 1
    /\ targets' = Tail(targets)
    /\ UNCHANGED << language, phase, nextTargets, roundLength, scanned, text >>

FlagsExhausted ==
    /\ phase = "flags" /\ targets # << >>
    /\ Head(targets).subConditions = {}
    /\ nextFlagIndex >= MaxFlags
    /\ Refuse

\* One with sub-conditions gets theirs, or waits for them.
FlagGroup ==
    /\ phase = "flags" /\ targets # << >>
    /\ Head(targets).subConditions # {}
    /\ Declared(Head(targets).subConditions)
    /\ SetFlags(Head(targets).type, ConditionFlags(Head(targets).subConditions))
    /\ targets' = Tail(targets)
    /\ UNCHANGED << language, phase, nextTargets, roundLength, nextFlagIndex,
                    scanned, text >>

PutOff ==
    /\ phase = "flags" /\ targets # << >>
    /\ Head(targets).subConditions # {}
    /\ ~Declared(Head(targets).subConditions)
    /\ nextTargets' = Append(nextTargets, Head(targets))
    /\ targets' = Tail(targets)
    /\ UNCHANGED << language, phase, roundLength, flagsMap, nextFlagIndex,
                    scanned, text >>

NextRound ==
    /\ phase = "flags" /\ targets = << >> /\ nextTargets # << >>
    /\ Len(nextTargets) # roundLength
    /\ targets' = nextTargets
    /\ roundLength' = Len(nextTargets)
    /\ nextTargets' = << >>
    /\ UNCHANGED << language, phase, flagsMap, nextFlagIndex, scanned, text >>

\* Mutant of NoProgress: conditions put off once are refused.
NoSecondRound ==
    /\ phase = "flags" /\ targets = << >> /\ nextTargets # << >>
    /\ Refuse

\* A round that flagged nothing: the conditions refer to each other, or to one
\* that is not declared.
NoProgress ==
    /\ phase = "flags" /\ targets = << >> /\ nextTargets # << >>
    /\ Len(nextTargets) = roundLength
    /\ Refuse

FlagsComplete == phase = "flags" /\ targets = << >> /\ nextTargets = << >>

RulesDeclared ==
    \A rule \in Transforms :
        Declared(rule.conditionsIn) /\ Declared(rule.conditionsOut)

AddTransforms ==
    /\ FlagsComplete
    /\ RulesDeclared
    /\ phase' = "ready"
    /\ UNCHANGED << language, registration, scanned, text >>

InvalidConditions ==
    /\ FlagsComplete
    /\ ~RulesDeclared
    /\ Refuse

-----------------------------------------------------------------------------
(* transform *)

Scan ==
    /\ phase = "ready"
    /\ phase' = "transforming"
    /\ \E length \in 1 .. MaxLength :
           /\ scanned' = length
           /\ text' = [NoText EXCEPT !.length = length]
    /\ UNCHANGED << language, registration >>

\* Mutant of ConditionsMatch: a rule without conditions follows every rule.
UnconditionalMatch(current, next) ==
    \/ ConditionFlags(current) = {} \/ ConditionFlags(next) = {}
    \/ ConditionFlags(current) \cap ConditionFlags(next) # {}

\* A text without conditions matches every rule, one with conditions those
\* that share a flag with it.
ConditionsMatch(current, next) ==
    \/ ConditionFlags(current) = {}
    \/ ConditionFlags(current) \cap ConditionFlags(next) # {}

\* rule.isInflected.test(text)
IsInflected(rule) ==
    /\ text.length + rule.grow >= 0
    /\ rule.ends = {} \/ text.end = Unknown \/ text.end \in rule.ends
    /\ rule.spelling \cap text.respelled = {}

Applies(rule) ==
    ConditionsMatch(text.conditions, rule.conditionsIn) /\ IsInflected(rule)

\* Mutant of Deinflected: an alternate spelling may be spelled again.
DeinflectedAgain(rule, end) ==
    [length |-> text.length + rule.grow,
     end |-> end,
     conditions |-> rule.conditionsOut,
     respelled |-> text.respelled]

\* rule.deinflect(text), which now has the rule's conditions.
Deinflected(rule, end) ==
    [length |-> text.length + rule.grow,
     end |-> end,
     conditions |-> rule.conditionsOut,
     respelled |-> text.respelled \cup rule.spelling]

ApplyRule ==
    /\ phase = "transforming"
    /\ \E rule \in Transforms :
           /\ Applies(rule)
           /\ \E end \in IF rule.leaves = {} THEN {text.end} ELSE rule.leaves :
                  text' = Deinflected(rule, end)
    /\ UNCHANGED << language, phase, registration, scanned >>

Next ==
    \/ FlagLeaf \/ FlagsExhausted \/ FlagGroup \/ PutOff \/ NextRound
    \/ NoProgress \/ AddTransforms \/ InvalidConditions
    \/ Scan \/ ApplyRule

Spec == Init /\ [][Next]_vars

\* The code runs to completion once it is called.
FairSpec == Spec /\ WF_vars(Next)
-----------------------------------------------------------------------------
(* What the flags mean *)

IsLeaf(condition) == condition.subConditions = {}

FlaggedLeaves ==
    { k \in DOMAIN Conditions :
        IsLeaf(Conditions[k]) /\ Conditions[k].type \in DOMAIN flagsMap }

\* A condition without sub-conditions has a flag no other such condition has,
\* and one with sub-conditions has just theirs.
LeavesApart ==
    LET leaves == FlaggedLeaves IN
    \A k \in leaves :
        LET flags == flagsMap[Conditions[k].type] IN
        /\ flags # {}
        /\ \A j \in leaves \ {k} :
               flags \cap flagsMap[Conditions[j].type] = {}

GroupsOfParts ==
    \A k \in DOMAIN Conditions :
        ~IsLeaf(Conditions[k]) /\ Declared({Conditions[k].type})
        => /\ Declared(Conditions[k].subConditions)
           /\ flagsMap[Conditions[k].type]
                 = ConditionFlags(Conditions[k].subConditions)

\* The flags tell conditions apart exactly as far as their sub-conditions do,
\* and fit an integer: whether a rule may follow another is then decided by
\* the conditions of the table, not by the order in which they are declared.
FlagsTellConditionsApart ==
    /\ LeavesApart
    /\ GroupsOfParts
    /\ \A type \in DOMAIN flagsMap : flagsMap[type] \subseteq 0 .. MaxFlags - 1

NoRuleApplies == \A rule \in Transforms : ~Applies(rule)

\* The types of the conditions whose sub-conditions are all in a set.
MadeOf(types) ==
    { Conditions[k].type : k \in
        { j \in DOMAIN Conditions : Conditions[j].subConditions \subseteq types } }

\* The conditions that come down to ones without sub-conditions.
Grounded ==
    LET after[n \in 0 .. Len(Conditions)] ==
            IF n = 0 THEN {}
            ELSE LET before == after[n - 1] IN MadeOf(before)
    IN  after[Len(Conditions)]

WellFormed ==
    LET grounded == Grounded IN
    /\ \A k \in DOMAIN Conditions : Conditions[k].type \in grounded
    /\ Cardinality({ k \in DOMAIN Conditions : IsLeaf(Conditions[k]) })
           <= MaxFlags
    /\ \A rule \in Transforms :
           rule.conditionsIn \cup rule.conditionsOut \subseteq grounded

\* addDescriptor accepts the tables whose conditions mean something and fit
\* the flags, whatever the order they are declared in, and refuses the others.
AcceptsExactly ==
    /\ phase = "refused" => ~WellFormed
    /\ phase \in {"ready", "transforming"} => WellFormed

\* addDescriptor comes to an end, and so does transform(): rules that undo each
\* other, or add what another takes away, would keep it pushing results.
DerivationsEnd ==
    /\ <>(phase # "flags")
    /\ (phase = "transforming") ~> (phase = "transforming" /\ NoRuleApplies)

\* Until addDescriptor has decided, each of its steps takes a condition off the round
\* or begins a round with fewer: it cannot put conditions off for ever.
RoundsShrink ==
    [][phase = "flags" /\ phase' = "flags" =>
           \/ roundLength' < roundLength
           \/ roundLength' = roundLength /\ Len(targets') < Len(targets)]_vars

\* What deinflection adds to a scanned text is bounded, however many rules
\* apply one after the other: no chain of rules feeds on what it added.
MaxGrowth == 5
LengthBounded == text.length <= scanned + MaxGrowth

=============================================================================
