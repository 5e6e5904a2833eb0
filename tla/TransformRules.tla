--------------------------- MODULE TransformRules ---------------------------
(***************************************************************************)
(* The vocabulary of the deinflection tables of                            *)
(* src/assets/yomitan_transforms: grammatical conditions and rules.        *)
(*                                                                         *)
(* Texts are abstracted to what decides which rules can follow one         *)
(* another: their length, their grammatical conditions, and how they end.  *)
(* The end of a text is its last letter, or a longer ending a table tells  *)
(* apart, or Unknown when the rule left a bare stem.  An accented letter   *)
(* is written with a slash ("e/").                                         *)
(*                                                                         *)
(* A rule below stands for the rules of the table that agree on their      *)
(* conditions: "ends" is how the inflected text may end ({}: anything),    *)
(* "leaves" how the deinflected one may ({}: as before), "grow" by how     *)
(* many letters the text gets longer at most.                              *)
(***************************************************************************)
EXTENDS Integers

Unknown == "?"

\* A condition without sub-conditions gets a flag of its own; one with
\* sub-conditions stands for any of them.
Leaf(type, isDictionaryForm) ==
    [type |-> type, isDictionaryForm |-> isDictionaryForm,
     subConditions |-> {}]

Group(type, isDictionaryForm, subConditions) ==
    [type |-> type, isDictionaryForm |-> isDictionaryForm,
     subConditions |-> subConditions]

\* suffixInflection and wholeWordInflection: the end of the text changes.
Suffix(ends, leaves, grow, in, out) ==
    [ends |-> ends, leaves |-> leaves, grow |-> grow,
     conditionsIn |-> in, conditionsOut |-> out, spelling |-> {}]

\* prefixInflection, and the rules of the tables whose conditions alone keep
\* them apart: the end of the text is not looked at.
Rule(grow, in, out) == Suffix({}, {}, grow, in, out)

\* tryAlternateOrthography, and "me despertar" -> "despertarse": every
\* occurrence of the spelling is replaced, so that the text no longer has it.
Respell(spelling, grow, in, out) ==
    [Rule(grow, in, out) EXCEPT !.spelling = {spelling}]

=============================================================================
