-------------------------- MODULE KoreanTransforms --------------------------
(***************************************************************************)
(* The deinflection table of Korean, src/assets/yomitan_transforms/ko.js.  *)
(* The table lists the verb endings in alphabetical order; a definition    *)
(* below is a stretch of it, named for its first ending (romanized).       *)
(*                                                                         *)
(* Texts are disassembled into letters (jamo) before they are looked at.   *)
(* What an ending restores is a dictionary form, or an intermediate form   *)
(* (past, future, formal): the rules that require a condition ("Rule"      *)
(* below) strip its own ending next.                                       *)
(***************************************************************************)
EXTENDS TransformRules

KoreanConditions ==
    << Leaf("v", TRUE), Leaf("adj", TRUE), Leaf("ida", TRUE),
       Leaf("p", FALSE), Leaf("f", FALSE), Leaf("eusi", FALSE),
       Leaf("euob", FALSE), Leaf("euo", FALSE), Leaf("sao", FALSE),
       Leaf("saob", FALSE), Leaf("sab", FALSE), Leaf("jaob", FALSE),
       Leaf("jao", FALSE), Leaf("jab", FALSE), Leaf("do", FALSE) >>

\* The conditions endings most often lead to.
Stem      == {"adj", "ida", "v"}
VerbOrAdj == {"adj", "v"}
NotFormal == {"eusi", "f", "p"}
Past      == {"eusi", "p"}

\* An ending applies to the text as it was scanned only.
To(grow, out) == Rule(grow, {}, out)

-----------------------------------------------------------------------------

\* eogan ... -geotmaneun
EndingsEogan ==
    { To(-2, {"v"}), To(2, VerbOrAdj), To(-5, Past), To(-1, Stem),
      To(-5, NotFormal), To(-5, {"eusi", "jaob", "p"}),
      To(-3, {"euob", "eusi", "f", "p"}) }

\* -ge ... -guryo
EndingsGe ==
    { To(-5, {}), To(-2, {"adj"}), To(-3, {"eusi"}), To(-2, {"v"}),
      To(-2, {"adj", "ida"}), To(-1, VerbOrAdj), To(-2, Past), To(0, Stem),
      To(-4, NotFormal),
      To(-2, {"euo", "euob", "eusi", "f", "jab", "jaob", "p", "sab", "saob"}),
      Rule(-3, {"f"}, Past), Rule(-1, {"f"}, Stem),
      Rule(-8, {"v"}, {"eusi"}), Rule(-6, {"v"}, {"v"}) }

\* -guman ... -(eu)l geoya
EndingsGuman ==
    { To(2, {"adj"}), To(-1, {"eusi"}), To(-3, {"p"}), To(0, {"v"}),
      To(2, VerbOrAdj), To(-5, Past), To(-7, {"f", "p"}), To(1, Stem),
      To(-2, NotFormal) }

\* -(eu)l geoyeyo ... -(eu)nya
EndingsEuLGeoyeyo ==
    { To(1, {"adj"}), To(-4, {"eusi"}), To(-1, {"v"}), To(1, VerbOrAdj),
      To(-4, {"f", "p"}), To(0, Stem), To(-2, NotFormal),
      To(-2, {"eusi", "f", "p", "sao"}),
      To(-4, {"euob", "eusi", "f", "p", "sab"}),
      To(-6, {"euob", "eusi", "f", "p", "saob"}),
      To(-6, {"euob", "eusi", "f", "jab", "jaob", "p", "saob"}) }

\* -(eu)nyago ... -neuniman
EndingsEuNyago ==
    { To(-8, {}), To(1, {"adj"}), To(-2, {"eusi"}), To(-2, {"v"}),
      To(1, VerbOrAdj), To(-2, {"f", "p"}), To(0, Stem), To(-2, NotFormal),
      To(-4, {"euob", "eusi", "f", "p", "sab"}), Rule(-13, {"v"}, VerbOrAdj) }

\* -neura ... -neungumyeon
EndingsNeura ==
    { To(-7, {}), To(2, {"adj"}), To(-3, {"eusi"}), To(0, {"v"}),
      To(-1, {"adj", "ida"}), To(2, VerbOrAdj), To(-1, {"eusi", "f"}),
      To(1, Stem), To(-5, NotFormal) }

\* -neungun ... -((neu)n)damyeo
EndingsNeungun ==
    { To(-9, {}), To(-2, {"adj"}), To(-3, {"eusi"}), To(0, {"v"}),
      To(-2, VerbOrAdj), To(-4, {"ida", "v"}), To(-4, NotFormal) }

\* -((neu)n)damyeon ... -((neu)n)daenda
EndingsNeuNDamyeon ==
    { To(-8, {}), To(-1, {"adj"}), To(-3, {"eusi"}), To(0, {"v"}),
      To(0, VerbOrAdj), To(-3, {"ida", "v"}), To(-2, NotFormal) }

\* -(eu/neu)nde ... -(eu)nikkaneuru
EndingsEuNeuNde ==
    { To(-6, {}), To(1, {"adj"}), To(-3, {"eusi"}), To(-3, {"v"}),
      To(-1, {"adj", "ida"}), To(1, VerbOrAdj), To(-3, {"eusi", "sao"}),
      To(-6, {"f", "p"}), To(0, Stem), To(-5, NotFormal),
      To(-4, {"euo", "eusi", "f", "jao", "p", "sao"}) }

\* -(eu)nikkaneun ... -deoguryeo
EndingsEuNikkaneun ==
    { To(-7, {}), To(-1, {"adj"}), To(-4, {"eusi"}), To(-2, {"adj", "ida"}),
      To(-2, VerbOrAdj), To(-4, Past), To(-6, {"f", "p"}), To(-1, Stem),
      To(-3, NotFormal), To(-2, {"eusi", "f", "ida", "p"}),
      Rule(0, {"do"}, Stem), Rule(-2, {"do"}, NotFormal) }

\* -deoguryo ... -deongo
EndingsDeoguryo ==
    { To(-1, Stem), To(-3, NotFormal),
      To(-4, {"euo", "euob", "eusi", "f", "p", "sab"}) }

\* -deonde ... -deun
EndingsDeonde ==
    { To(-3, {"eusi"}), To(-6, {"p"}), To(-3, VerbOrAdj), To(-3, Past),
      To(-5, {"f", "p"}), To(0, Stem), To(-2, NotFormal) }

\* -deunga ... -(eu)raneuni
EndingsDeunga ==
    { To(-3, {"adj"}), To(-6, {"p"}), To(1, {"v"}), To(-2, {"do", "eusi"}),
      To(-5, Past), To(0, {"ida", "v"}), To(0, Stem), To(-2, NotFormal) }

\* -(eu)rani ... -(eu)rak
EndingsEuRani ==
    { To(0, {"adj"}), To(-4, {"eusi"}), To(-2, {"ida"}), To(-1, {"v"}),
      To(0, VerbOrAdj), To(-4, {"do", "eusi"}), To(-2, {"ida", "v"}) }

\* -(eu)ran ... -reoniikka
EndingsEuRan ==
    { To(-3, {"adj"}), To(-2, {"eusi"}), To(-3, {"ida"}), To(1, {"v"}),
      To(-3, {"do", "eusi"}), To(0, {"ida", "v"}) }

\* -reoniida ... -(eu)ryeodeun
EndingsReoniida ==
    { To(-1, {"adj"}), To(-2, {"eusi"}), To(-3, {"ida"}), To(-4, {"p"}),
      To(1, {"v"}), To(-1, VerbOrAdj), To(-2, Stem) }

\* -(eu)ryeoma ... -rogona
EndingsEuRyeoma ==
    { To(-2, {"adj"}), To(-3, {"eusi"}), To(-3, {"ida"}), To(-5, {"p"}),
      To(0, {"v"}), To(-2, VerbOrAdj), To(-3, Stem) }

\* -roguna ... -(eu)rini
EndingsRoguna ==
    { To(1, {"adj"}), To(-4, {"eusi"}), To(1, {"ida"}), To(-4, {"p"}),
      To(1, VerbOrAdj), To(-2, {"euo", "eusi"}), To(0, Stem) }

\* -(eu)rinira ... -(eu)myeo
EndingsEuRinira ==
    { To(1, {"adj"}), To(-2, {"eusi"}), To(-6, {"p"}), To(1, {"v"}),
      To(1, VerbOrAdj), To(-4, {"euo", "eusi"}), To(-4, {"f", "p"}),
      To(0, Stem) }

\* -(eu)myeon ... -sawa
EndingsEuMyeon ==
    { To(1, {"adj"}), To(-4, {"eusi"}), To(1, VerbOrAdj), To(-5, {"f", "p"}),
      To(-1, Stem), To(-3, {"euo", "eusi", "jao"}),
      Rule(-2, {"sao"}, VerbOrAdj), Rule(-4, {"sao"}, {"f", "p"}),
      Rule(-3, {"saob"}, VerbOrAdj), Rule(-5, {"saob"}, {"f", "p"}) }

\* -saoeda ... -(seu)bnikka
EndingsSaoeda ==
    { To(-1, {"adj"}), To(-3, {"eusi"}), To(1, {"v"}), To(0, VerbOrAdj),
      To(-2, {"f", "p"}), To(-1, Stem), Rule(-1, {"sab"}, VerbOrAdj),
      Rule(-3, {"sab"}, {"f", "p"}) }

\* -(seu)bnida ... -(eu)sipsio
EndingsSeuBnida ==
    { To(-3, {"adj"}), To(-3, {"eusi"}), To(-2, {"v"}), To(0, VerbOrAdj),
      To(-5, {"f", "p"}), To(-1, Stem), Rule(1, {"eusi"}, {"adj"}),
      Rule(1, {"eusi"}, VerbOrAdj), Rule(0, {"eusi"}, Stem),
      Rule(-2, {"eusi"}, {"euob", "jaob", "saob"}) }

\* -a/eo ... -a/eodo
EndingsAEo ==
    { To(3, {"adj"}), To(2, VerbOrAdj), To(-2, {"f", "p"}), To(2, Stem) }

\* -a/eora ... -a/eoyaget
EndingsAEora ==
    { To(1, {"adj"}), To(0, VerbOrAdj), To(-4, {"f", "p"}), To(0, Stem),
      Rule(-2, {"f"}, {"adj"}), Rule(-3, {"f"}, VerbOrAdj),
      Rule(-3, {"f"}, Stem) }

\* -a/eoyaman ... -a/eojiida
EndingsAEoyaman ==
    { To(1, {"adj"}), To(0, {"adj", "ida"}), To(0, VerbOrAdj),
      To(-4, {"f", "p"}), To(0, Stem) }

\* -a/eojida ... -ya
EndingsAEojida ==
    { To(0, {"adj"}), To(-3, {"eusi"}), To(0, {"ida"}), To(-1, VerbOrAdj),
      To(-6, {"f", "p"}), To(-1, Stem), Rule(2, {"p"}, {"adj"}),
      Rule(-1, {"p"}, {"eusi"}), Rule(1, {"p"}, VerbOrAdj),
      Rule(1, {"p"}, Stem) }

\* -eonmaneun ... -(eu)opnikka
EndingsEonmaneun ==
    { To(-3, {"adj"}), To(-6, {"eusi"}), To(-4, {"ida"}), To(-4, {"p"}),
      To(-3, VerbOrAdj), To(-8, {"f", "p"}), To(-4, Stem), To(-6, NotFormal),
      Rule(1, {"euo"}, {"adj"}), Rule(-2, {"euo"}, {"eusi"}),
      Rule(1, {"euo"}, VerbOrAdj), Rule(-4, {"euo"}, {"f", "p"}),
      Rule(0, {"euob"}, {"adj"}), Rule(-3, {"euob"}, {"eusi"}),
      Rule(0, {"euob"}, VerbOrAdj), Rule(-5, {"euob"}, {"f", "p"}),
      Rule(-1, {"euob"}, Stem) }

\* -(eu)opnida ... -(eu)njeuk
EndingsEuOpnida ==
    { To(1, {"adj"}), To(-2, {"eusi"}), To(0, {"ida"}), To(-6, {"p"}),
      To(1, VerbOrAdj), To(-4, {"f", "p"}), To(0, Stem),
      To(-3, {"euo", "eusi", "jao"}) }

\* -(eu)njeukseun ... -(eu)lrae
EndingsEuNjeukseun ==
    { To(0, {"adj"}), To(-3, {"eusi"}), To(-5, {"p"}), To(0, {"v"}),
      To(0, VerbOrAdj), To(-1, Stem) }

\* -(eu)lreoni ... -(eu)lbake
EndingsEuLreoni ==
    { To(0, {"adj"}), To(-3, {"eusi"}), To(-5, {"p"}), To(-2, {"v"}),
      To(0, VerbOrAdj), To(-1, Stem) }

\* -(eu)lppundeoreo ... -(eu)lsi
EndingsEuLppundeoreo ==
    { To(0, {"adj"}), To(-3, {"eusi"}), To(-5, {"p"}), To(0, VerbOrAdj),
      To(-1, Stem) }

\* -(eu)lsigo ... -(eu)ljinira
EndingsEuLsigo ==
    { To(0, {"adj"}), To(-3, {"eusi"}), To(-5, {"p"}), To(-6, {"v"}),
      To(-3, {"adj", "ida"}), To(0, VerbOrAdj), To(-9, {"euo", "eusi"}),
      To(-1, Stem) }

\* -(eu)ljira ... -(eu)ljinjeo
EndingsEuLjira ==
    { To(-2, {"adj"}), To(-5, {"eusi"}), To(-7, {"p"}), To(-4, {"v"}),
      To(-2, VerbOrAdj), To(-3, Stem) }

\* -(eu)m ... -jamyeonseo
EndingsEuM ==
    { To(2, {"adj"}), To(-1, {"eusi"}), To(0, {"v"}), To(1, VerbOrAdj),
      To(-3, {"f", "p"}), To(0, {"ida", "v"}), To(1, Stem) }

\* -jason ... -jiyo
EndingsJason ==
    { To(-3, {"v"}), To(-7, {"f", "p"}), To(0, Stem), To(-2, NotFormal),
      To(-5, {"euo", "euob", "f", "p"}), Rule(-1, {"jab"}, {"v"}),
      Rule(-2, {"jao"}, {"v"}), Rule(-3, {"jaob"}, {"v"}) }

-----------------------------------------------------------------------------

KoreanTransforms ==
    UNION { EndingsEogan, EndingsGe, EndingsGuman, EndingsEuLGeoyeyo,
            EndingsEuNyago, EndingsNeura, EndingsNeungun, EndingsNeuNDamyeon,
            EndingsEuNeuNde, EndingsEuNikkaneun, EndingsDeoguryo,
            EndingsDeonde, EndingsDeunga, EndingsEuRani, EndingsEuRan,
            EndingsReoniida, EndingsEuRyeoma, EndingsRoguna, EndingsEuRinira,
            EndingsEuMyeon, EndingsSaoeda, EndingsSeuBnida, EndingsAEo,
            EndingsAEora, EndingsAEoyaman, EndingsAEojida, EndingsEonmaneun,
            EndingsEuOpnida, EndingsEuNjeukseun, EndingsEuLreoni,
            EndingsEuLppundeoreo, EndingsEuLsigo, EndingsEuLjira, EndingsEuM,
            EndingsJason }

=============================================================================
