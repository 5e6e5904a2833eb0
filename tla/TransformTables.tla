--------------------------- MODULE TransformTables ---------------------------
(***************************************************************************)
(* The deinflection tables of the smaller languages.  A table is the       *)
(* sequence of its conditions, in the order they are declared, and the set *)
(* of its rules.                                                           *)
(***************************************************************************)
EXTENDS TransformRules

-----------------------------------------------------------------------------
(* el: the prefix "xana-" *)

GreekConditions == << Leaf("v", TRUE) >>

GreekTransforms ==
    { Rule(-2, {}, {"v"}),      \* xana- with the accent put back
      Rule(-4, {}, {"v"}) }     \* xana- dropped, the accents removed

(* ga: eclipsis *)

IrishConditions ==
    << Group("v", TRUE, {"v_phr"}), Leaf("v_phr", TRUE),
       Group("n", TRUE, {"np", "ns"}), Leaf("np", TRUE), Leaf("ns", TRUE),
       Leaf("adj", TRUE), Leaf("adv", TRUE) >>

IrishTransforms == { Rule(-1, {"n"}, {"n"}) }   \* eclipsis

(* ka: declension suffixes dropped, the nominative restored *)

GeorgianConditions ==
    << Leaf("v", TRUE), Group("n", TRUE, {"np", "ns"}), Leaf("np", TRUE),
       Leaf("ns", TRUE), Leaf("adj", TRUE), Leaf("adv", TRUE) >>

GeorgianTransforms ==
    LET NounOrAdj == {"n", "adj"} IN
    { Suffix({"s", "o"}, {Unknown}, -1, NounOrAdj, NounOrAdj),
      Suffix({"i", "a", "t", "d", "e"}, {Unknown}, -2,
             NounOrAdj, NounOrAdj),                 \* suffix stripping
      Suffix({"n"}, {"i"}, 1, NounOrAdj, NounOrAdj),  \* stem completion
      Suffix({"g"}, {"a"}, 1, NounOrAdj, NounOrAdj) } \* vowel restoration

(* de *)

GermanConditions ==
    << Group("v", TRUE, {"vw", "vst"}), Leaf("vw", TRUE), Leaf("vst", TRUE),
       Leaf("n", TRUE), Leaf("adj", TRUE) >>

\* "geht ... ab" -> "geht ab": at least a blank and a letter are dropped.
SeparatedPrefix == Rule(-2, {}, {})

\* "-ge-...-t" -> "...-n", "...-en"
PastParticiples == Rule(-1, {}, {"vw"})

GermanTransforms ==
    { Rule(-1, {}, {"v"}),              \* nominalization
      Rule(-1, {"adj"}, {"v"}),         \* -bar
      Rule(-2, {}, {"adj"}),            \* negative
      PastParticiples,
      SeparatedPrefix,
      Rule(-2, {}, {"v"}),              \* zu-infinitive
      Rule(-4, {"n"}, {"adj", "n"}) }   \* -heit, -keit

(* la *)

LatinConditions ==
    << Leaf("v", TRUE),
       Group("n", TRUE, {"ns", "np"}),
       Group("ns", TRUE, {"n1s", "n2s", "n3s", "n4s", "n5s"}),
       Group("np", TRUE, {"n1p", "n2p", "n3p", "n4p", "n5p"}),
       Group("n1", TRUE, {"n1s", "n1p"}), Leaf("n1p", TRUE), Leaf("n1s", TRUE),
       Group("n2", TRUE, {"n2s", "n2p"}), Leaf("n2p", TRUE), Leaf("n2s", TRUE),
       Group("n3", TRUE, {"n3s", "n3p"}), Leaf("n3p", TRUE), Leaf("n3s", TRUE),
       Group("n4", TRUE, {"n4s", "n4p"}), Leaf("n4p", TRUE), Leaf("n4s", TRUE),
       Group("n5", TRUE, {"n5s", "n5p"}), Leaf("n5p", TRUE), Leaf("n5s", TRUE),
       Group("adj", TRUE, {"adj3", "adj12"}), Leaf("adj12", TRUE),
       Leaf("adj3", TRUE), Leaf("adv", TRUE) >>

LatinTransforms ==
    { Suffix({"i"}, {"s"}, 1, {"n2p"}, {"n2s"}),        \* plural
      Suffix({"i"}, {"s"}, 1, {"adj12"}, {"adj12"}),
      Suffix({"e"}, {Unknown}, -1, {"n1p"}, {"n1s"}),
      Suffix({"e"}, {"a"}, -1, {"adj12"}, {"adj12"}),
      Suffix({"a"}, {"m"}, 1, {"adj12"}, {"adj12"}),
      Suffix({"a"}, {"s"}, 1, {"adj12"}, {"adj12"}),    \* feminine
      Suffix({"m"}, {"s"}, 0, {"adj12"}, {"adj12"}),    \* neuter
      Suffix({"o"}, {"m"}, 1, {"n2s"}, {"n2s"}) }       \* ablative

(* yi *)

YiddishConditions ==
    << Group("v", TRUE, {"vpast", "vpresent"}), Leaf("vpast", FALSE),
       Leaf("vpresent", TRUE), Group("n", TRUE, {"np", "ns"}),
       Leaf("np", FALSE), Leaf("ns", TRUE), Leaf("adj", TRUE),
       Leaf("adv", TRUE) >>

\* With a stem vowel that was mutated the suffix is dropped and the vowel put
\* back; with any other vowel the text becomes empty: shorter in both cases.
UmlautMutation(ends, in, out) == Suffix(ends, {Unknown}, -1, in, out)

YiddishTransforms ==
    LET Plurals == {"s", "nF", "mF", "r", "khF", "t"} IN
    { Suffix(Plurals, {Unknown}, -1, {"np"}, {"ns"}),          \* plural
      UmlautMutation(Plurals \ {"t"}, {"np"}, {"ns"}),
      Suffix({"q", "e", "l"}, {Unknown}, -1, {"n"}, {"n"}),    \* diminutive
      UmlautMutation({"l", "e"}, {"n"}, {"n"}),
      Suffix({"tet", "q"}, {Unknown}, -1, {"v"}, {"vpresent"}),
      Suffix({"s", "tet"}, {"n"}, 0, {"v"}, {"vpresent"}) }

(* sga: no conditions at all, spellings and mutations *)

OldIrishConditions == << >>

OldIrishTransforms ==
    { Suffix({"d"}, {"n"}, 0, {}, {}),  \* nd for nn
      Suffix({}, {Unknown}, -1, {}, {}),    \* cg, td, pb; doubled; lenition
      Respell("ae/", 0, {}, {}),        \* ae with acute for e with acute
      Respell("ae", 0, {}, {}) }        \* ae for e with acute

(* eo *)

EsperantoConditions ==
    << Leaf("n", TRUE), Leaf("adj", TRUE), Leaf("adv", TRUE), Leaf("v", TRUE) >>

EsperantoInflections ==
    { Rule(-1, {}, {}),             \* accusative, plural
      Rule(-2, {}, {"n"}),          \* diminutive
      Rule(-1, {}, {"adv"}),        \* directional
      Rule(0, {}, {"n"}),           \* locational, adjectival
      Rule(0, {}, {"adj"}),         \* adverbial (adj)
      Rule(0, {}, {"v"}) }          \* adverbial (v)

EsperantoDerivations ==
    { Rule(-2, {}, {"n"}),          \* -ejo, -ujo
      Rule(-2, {}, {"v"}),          \* -ejo, -ujo, -ado
      Rule(-2, {}, {"adj"}),        \* -ujo
      Rule(-3, {}, {"v"}),          \* -ebla
      Rule(-2, {}, {}) }            \* mal-, kun-, ekster-, ek-, el-, dis-, ...

EsperantoTransforms == EsperantoInflections \cup EsperantoDerivations

(* grc *)

AncientGreekConditions ==
    << Leaf("v", TRUE), Leaf("n", TRUE), Leaf("adj", TRUE) >>

AncientGreekTransforms ==
    { Rule(0, {}, {"v"}),           \* active voice
      Rule(3, {}, {"v"}),           \* middle voice
      Rule(1, {}, {"n"}),           \* cases of nouns
      Rule(0, {}, {"adj"}),         \* accusative masculine
      Rule(0, {}, {"v"}) }          \* nominalization

(* sq *)

AlbanianConditions ==
    << Leaf("v", TRUE), Group("n", TRUE, {"np", "ns"}), Leaf("np", TRUE),
       Leaf("ns", TRUE), Leaf("adj", TRUE), Leaf("adv", TRUE) >>

AlbanianNouns ==
    { Rule(0, {}, {"n"}),           \* definite
      Rule(-1, {}, {"n"}),          \* singular definite accusative
      Rule(-1, {"np"}, {"ns"}) }    \* plural

AlbanianIndicative ==
    { Rule(0, {}, {"v"}),           \* present and imperfect
      Rule(1, {}, {"v"}) }          \* aorist

AlbanianMoods ==
    { Rule(1, {}, {"v"}),           \* imperative, participle
      Rule(-2, {"v"}, {"v"}),       \* mediopassive
      Rule(-2, {}, {"v"}),          \* optative
      Rule(0, {}, {"v"}) }          \* nominalization

AlbanianTransforms == AlbanianNouns \cup AlbanianIndicative \cup AlbanianMoods

(* eu *)

BasqueConditions ==
    << Leaf("n", TRUE), Leaf("adj", TRUE), Leaf("adv", TRUE), Leaf("v", TRUE) >>

BasqueCases ==
    LET Nominal == {"n", "adj"} IN
    { Rule(-1, Nominal, Nominal),                           \* cases
      Rule(-1, Nominal \cup {"adv"}, Nominal) }             \* with adverbs

BasqueLocalCases ==
    { Rule(-2, {"n", "adj"}, {"n", "adj"}) }    \* place and direction

BasqueVerbs ==
    { Rule(-1, {"v"}, {"v"}),           \* future participle, habitual
      Rule(-1, {"n"}, {"v"}),           \* verbal noun
      Rule(-2, {"adv"}, {"v"}),         \* adverbial participles
      Rule(-2, {"adv"}, {"n", "adj"}) } \* adverbializer

BasqueTransforms == BasqueCases \cup BasqueLocalCases \cup BasqueVerbs

(* en.  "'d" is told apart from the other endings in d. *)

EnglishConditions ==
    << Group("v", TRUE, {"v_phr"}), Leaf("v_phr", TRUE),
       Group("n", TRUE, {"np", "ns"}), Leaf("np", TRUE), Leaf("ns", TRUE),
       Leaf("adj", TRUE), Leaf("adv", TRUE) >>

\* pastSuffixInflections, ingSuffixInflections and
\* thirdPersonSgPresentSuffixInflections
VerbSuffixInflections == { Suffix({"d", "g", "s"}, {Unknown}, -1, {"v"}, {"v"}) }

\* createPhrasalVerbInflection, made from each of those suffixes
PhrasalVerbInflection == Rule(-1, {"v"}, {"v_phr"})

\* "look something up" -> "look up"
PhrasalVerbInterposedObject == Rule(-2, {}, {"v_phr"})

EnglishTransforms ==
    LET Any == {"adj", "adv", "v"} IN
    VerbSuffixInflections \cup
    { PhrasalVerbInflection,
      PhrasalVerbInterposedObject,
      Suffix({"s"}, {Unknown}, -1, {"np"}, {"ns"}),         \* plural
      Suffix({"s", "'"}, {Unknown}, -1, {"n"}, {"n"}),      \* possessive
      Suffix({"'d"}, {"d"}, 0, {"v"}, {"v"}),               \* archaic
      Suffix({"y"}, {Unknown}, 0, {"adv"}, {"adj"}),        \* adverb
      Suffix({"r", "t"}, {Unknown}, -1, {"adj"}, {"adj"}),  \* comparison
      Suffix({"'"}, {"g"}, 0, {"v"}, {"v"}),                \* dropped g
      Suffix({"y"}, {Unknown}, 0, {"adj"}, {"n", "v"}),     \* -y
      Suffix({"y"}, {Unknown}, -2, {}, {"n", "v"}),         \* -y, doubled
      Rule(-2, Any, Any),                                   \* un-
      Rule(-5, {"v"}, {"v"}),       \* going-to, will, imperative negative
      Suffix({"e"}, {Unknown}, -3, {"adj"}, {"v"}) }        \* -able

(* es.  "rse" is told apart from the other endings in e. *)

SpanishConditions ==
    << Group("n", TRUE, {"ns", "np"}), Leaf("np", FALSE), Leaf("ns", FALSE),
       Group("v", TRUE, {"v_ar", "v_er", "v_ir"}), Leaf("v_ar", FALSE),
       Leaf("v_er", FALSE), Leaf("v_ir", FALSE), Leaf("adj", TRUE) >>

\* A tense has rules for each conjugation, and irregular forms for all verbs.
Conjugated(ends, grow) ==
    { Suffix(ends, {"r"}, grow, {v}, {v}) : v \in {"v", "v_ar", "v_er", "v_ir"} }

SpanishNominals ==
    { Suffix({"s"}, {Unknown}, -1, {"np"}, {"ns"}),         \* plural
      Suffix({"a"}, {"o"}, 0, {"adj"}, {"adj"}),            \* feminine
      Suffix({"a"}, {Unknown}, -1, {"adj"}, {"adj"}) }

SpanishStemChanges ==
    Conjugated({"o", "s", "a", "n", "e", "rse"}, 1)

SpanishPresent ==
    Conjugated({"a", "n", "o", "s", "e", "rse", "y", "a/", "e/"}, 3)

SpanishPreterite == Conjugated({"e", "n", "s", "o", "i", "e/", "o/", "i/"}, 2)

SpanishImperfect == Conjugated({"a", "n", "s"}, 0)

SpanishImperative ==
    Conjugated({"a", "d", "s", "e", "rse", "i", "l", "n", "z", "e/"}, 3)

SpanishConditionalAndFuture ==
    Conjugated({"a", "n", "s", "a/", "e/"}, 1) \cup
    { Suffix({"a", "n", "s", "a/", "e/"}, {Unknown}, -1, {"v"}, {"v"}) }

SpanishSubjunctive == Conjugated({"a", "e", "rse", "n", "s", "e/"}, 1)

SpanishImperfectSubjunctive == Conjugated({"a", "e", "n", "s"}, -1)

SpanishParticiples ==
    { Suffix({"o"}, {"r"}, 2, {"adj"}, {v}) :
        v \in {"v", "v_ar", "v_er", "v_ir"} }
    \cup { Suffix({"o"}, {"r"}, -2, {v}, {v}) :
             v \in {"v", "v_ar", "v_er", "v_ir"} }         \* progressive

\* "me despertar" -> "despertarse": the pronoun and the blank before the verb
\* are dropped and "se" is put after it.
SpanishPronominal == Respell("pronoun", -1, {"v"}, {"v"})

SpanishReflexives ==
    { Suffix({"rse"}, {"r"}, -2, {v}, {v}) : v \in {"v_ar", "v_er", "v_ir"} }
    \cup { Suffix({"e", "s"}, {"rse"}, 0, {v}, {v}) :
             v \in {"v_ar", "v_er", "v_ir"} }              \* -me, -te, -nos
    \cup { SpanishPronominal }

SpanishTransforms ==
    UNION { SpanishNominals, SpanishStemChanges, SpanishPresent,
            SpanishPreterite, SpanishImperfect, SpanishImperative,
            SpanishConditionalAndFuture, SpanishSubjunctive,
            SpanishImperfectSubjunctive, SpanishParticiples,
            SpanishReflexives }

(* tl.  Every affix applies to a text no rule was applied to; the hyphen and  *)
(* the linker -ng are dropped without a condition before or after.            *)

TagalogConditions ==
    << Group("n", TRUE, {"num"}), Leaf("adj", TRUE), Leaf("num", TRUE) >>

HyphenatedInflection == Rule(-1, {}, {})

TagalogShortAffixes ==
    { Rule(-2, {}, {"n"}), Rule(-2, {}, {"n", "adj"}), Rule(-3, {}, {"num"}) }

TagalogActorAffixes ==
    { Rule(-1, {}, {"n"}), Rule(-2, {}, {"n", "adj"}), Rule(-1, {}, {"num"}) }

TagalogMagMakaAffixes == { Rule(-2, {}, {"n"}), Rule(-4, {}, {"n", "adj"}) }

TagalogPangCircumfixes == { Rule(-3, {}, {"n"}) }

TagalogAdjectivalAffixes == { Rule(-2, {}, {"n", "adj"}), Rule(-2, {}, {}) }

TagalogTransforms ==
    UNION { {HyphenatedInflection}, TagalogShortAffixes, TagalogActorAffixes,
            TagalogMagMakaAffixes, TagalogPangCircumfixes,
            TagalogAdjectivalAffixes }

(* ar.  The conditions say which affixes a noun or a verb still carries.      *)

ArabicDefinite == {"n_al", "n_bi_al", "n_ka_al", "n_lil", "n_li_al"}
ArabicIndefinite == {"n_wa", "n_bi", "n_ka", "n_li"}

ArabicConditions ==
    << Leaf("n", TRUE),
       Group("n_p", FALSE, ArabicDefinite \cup ArabicIndefinite),
       Group("n_def", FALSE, ArabicDefinite),
       Group("n_indef", FALSE, ArabicIndefinite),
       Group("n_nom", FALSE, {"n_wa", "n_li", "n_al"}),
       Group("n_nom_indef", FALSE, {"n_wa", "n_li"}),
       Leaf("n_wa", FALSE), Leaf("n_bi", FALSE), Leaf("n_ka", FALSE),
       Leaf("n_li", FALSE), Leaf("n_al", FALSE), Leaf("n_bi_al", FALSE),
       Leaf("n_ka_al", FALSE), Leaf("n_lil", FALSE), Leaf("n_li_al", FALSE),
       Leaf("n_s", FALSE), Group("v", TRUE, {"pv", "iv", "cv"}),
       Leaf("pv", TRUE), Leaf("pv_p", FALSE), Leaf("pv_s", FALSE),
       Leaf("iv", TRUE), Leaf("iv_p", FALSE), Leaf("iv_s", FALSE),
       Leaf("cv", TRUE), Leaf("cv_p", FALSE), Leaf("cv_s", FALSE) >>

ArabicNounPrefixes ==
    { Rule(-1, {p}, {"n"}) : p \in ArabicDefinite \cup ArabicIndefinite }

ArabicNounSuffixes ==
    { Rule(0, {"n_s"}, {case, "n"}) :
        case \in {"n_indef", "n_p", "n_wa", "n_nom", "n_nom_indef"} }

ArabicPerfectAffixes ==
    { Rule(-1, {"pv_p"}, {"pv_s", "pv"}),   \* and, result clause
      Rule(0, {"pv_s"}, {"pv"}) }           \* subjects and objects

\* getImperfectRules: a prefix and a suffix at once
GetImperfectRules == { Rule(0, {"iv_p"}, {"iv"}) }

ArabicImperfectAffixes == GetImperfectRules

ArabicCommandAffixes ==
    { Rule(-1, {"cv_p"}, {"cv_s"}), Rule(-1, {"cv_p"}, {"cv_s", "cv"}),
      Rule(-1, {"cv_s"}, {"cv"}) }

ArabicTransforms ==
    UNION { ArabicNounPrefixes, ArabicNounSuffixes, ArabicPerfectAffixes,
            ArabicImperfectAffixes, ArabicCommandAffixes }
=============================================================================
