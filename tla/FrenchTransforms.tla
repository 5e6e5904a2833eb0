-------------------------- MODULE FrenchTransforms --------------------------
(***************************************************************************)
(* The deinflection table of French, src/assets/yomitan_transforms/fr.js,  *)
(* by tense and, within a tense, by the stretch of verb groups that        *)
(* restore the same infinitives.                                           *)
(*                                                                         *)
(* Every verb rule restores an infinitive in "-r" or "-re".  The two are   *)
(* kept apart because some forms (the present singular of "-rer" verbs)    *)
(* end in "re" themselves, so that an infinitive in "-re" can be           *)
(* deinflected once more; one in "-r" cannot.                              *)
(***************************************************************************)
EXTENDS TransformRules

FrenchConditions ==
    << Leaf("v", TRUE), Leaf("n", TRUE), Leaf("adj", TRUE), Leaf("adv", TRUE),
       Leaf("aux", TRUE) >>

ToR(ends, grow)  == Suffix(ends, {"r"}, grow, {"v"}, {"v"})
ToRe(ends, grow) == Suffix(ends, {"re"}, grow, {"v"}, {"v"})

\* The forms in "-re" of verbs in "-rer" and "-rir".
RerFromRe == ToR({"re"}, 1)

\* The first twelve rules of most tenses: the auxiliaries etre and avoir.
Etre(ends, grow)  == Suffix(ends, {"re"}, grow, {"aux"}, {"v"})
Avoir(ends, grow) == Suffix(ends, {"r"}, grow, {"aux"}, {"v"})

-----------------------------------------------------------------------------
(* Present indicative *)

PresentOfFirstGroups ==
    { Etre({"s", "t"}, 2), Avoir({"a", "i", "s", "t", "z"}, 4),
      ToR({"a", "e", "s", "t", "z"}, 3), RerFromRe }

PresentInIr == { ToR({"e", "s", "t", "x", "z"}, 4), RerFromRe }

PresentInDre ==
    { ToR({"d", "s", "t", "z"}, 1), ToRe({"c", "d", "s", "t", "z"}, 3) }

PresentInRe == { ToRe({"d", "s", "t", "z"}, 3) }

(* Imperfect indicative *)

ImperfectInR == { ToRe({"s", "t", "z"}, -1), ToR({"s", "t", "z"}, 0) }

ImperfectOfThirdGroup ==
    { ToR({"d", "s", "t", "z"}, 1), ToRe({"s", "t", "z"}, 0) }

ImperfectInRe == { ToRe({"s", "t", "z"}, 0) }

(* Future *)

FutureOfFirstGroup ==
    { Etre({",", "a", "i", "s", "t", "z"}, 0),      \* fr.js:982, "serai,"
      Avoir({"a", "i", "s", "t", "z"}, 1),
      ToR({"a", "i", "s", "t", "z"}, 0) }

FutureInIr == { ToR({"a", "i", "s", "t", "z"}, 2) }

FutureOfThirdGroup ==
    { ToR({"a", "i", "n", "s", "t", "z"}, 1),
      ToRe({"a", "i", "s", "t", "z"}, 0) }

FutureInRe == { ToRe({"a", "i", "s", "t", "z"}, 1) }

FutureInUire == { ToRe({"a", "i", "s", "t", "z"}, 0) }

(* Imperative *)

ImperativeOfFirstGroups ==
    { Etre({"s", "z"}, 0), Avoir({"e", "s", "z"}, 2),
      ToR({"e", "s", "z"}, 1), RerFromRe }

ImperativeOfThirdGroup ==
    { ToR({"a", "e", "s", "x", "z"}, 4), RerFromRe,
      ToRe({"s", "z"}, 2) }

ImperativeInRe == { ToRe({"s", "z"}, 3) }

(* Conditional *)

ConditionalOfAuxiliaries ==
    { Etre({"s", "t", "z"}, -2), Avoir({"s", "t", "z"}, -1),
      ToR({"s", "t", "z"}, -3) }

ConditionalOfFirstGroup == { ToR({"s", "t", "z"}, -3) }

ConditionalInIr == { ToR({"s", "t", "z"}, 0) }

ConditionalOfThirdGroup ==
    { ToR({"s", "t", "z"}, -1), ToRe({"a", "i", "s", "t", "z"}, 0) }

ConditionalInRe == { ToRe({"s", "t", "z"}, -1) }

(* Preterite *)

PreteriteOfFirstGroups ==
    { Etre({"s", "t"}, 1), Avoir({"s", "t"}, 2),
      ToR({"a", "a\\", "i", "s", "t"}, 1) }

PreteriteInIr == { ToR({"s", "t"}, 4) }

PreteriteOfThirdGroup == { ToR({"s", "t"}, 2), ToRe({"s", "t", "z"}, 3) }

PreteriteInRe == { ToRe({"d", "s", "t", "z"}, 2) }

(* The remaining forms *)

Plural ==
    { Suffix({"s"}, {Unknown}, -1, {"n"}, {"n"}),
      Suffix({"x"}, {"u"}, -1, {"n"}, {"n"}),
      Suffix({"x"}, {"l"}, 0, {"n"}, {"n"}) }

PresentParticiple == { ToR({"t"}, 0), ToRe({"t"}, 1) }

PresentSubjunctive ==
    { ToR({"e", "s", "t", "z"}, 2), RerFromRe,
      ToRe({"e", "s", "t", "z"}, 4) }

FrenchTransforms ==
    UNION { PresentOfFirstGroups, PresentInIr, PresentInDre, PresentInRe,
            ImperfectInR, ImperfectOfThirdGroup, ImperfectInRe,
            FutureOfFirstGroup, FutureInIr, FutureOfThirdGroup, FutureInRe,
            FutureInUire, ImperativeOfFirstGroups, ImperativeOfThirdGroup,
            ImperativeInRe, ConditionalOfAuxiliaries, ConditionalOfFirstGroup,
            ConditionalInIr, ConditionalOfThirdGroup, ConditionalInRe,
            PreteriteOfFirstGroups, PreteriteInIr, PreteriteOfThirdGroup,
            PreteriteInRe, Plural, PresentParticiple, PresentSubjunctive }

=============================================================================
