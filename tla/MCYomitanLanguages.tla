------------------------- MODULE MCYomitanLanguages -------------------------
(* YomitanLanguages with the tables of the repository and a few texts. *)
EXTENDS YomitanLanguages, TransformTables, FrenchTransforms, KoreanTransforms

Table(conditions, transforms) ==
    [conditions |-> conditions, transforms |-> transforms]

Shipped ==
    [ ar  |-> Table(ArabicConditions, ArabicTransforms),
      de  |-> Table(GermanConditions, GermanTransforms),
      el  |-> Table(GreekConditions, GreekTransforms),
      en  |-> Table(EnglishConditions, EnglishTransforms),
      eo  |-> Table(EsperantoConditions, EsperantoTransforms),
      es  |-> Table(SpanishConditions, SpanishTransforms),
      eu  |-> Table(BasqueConditions, BasqueTransforms),
      fr  |-> Table(FrenchConditions, FrenchTransforms),
      ga  |-> Table(IrishConditions, IrishTransforms),
      grc |-> Table(AncientGreekConditions, AncientGreekTransforms),
      ka  |-> Table(GeorgianConditions, GeorgianTransforms),
      ko  |-> Table(KoreanConditions, KoreanTransforms),
      la  |-> Table(LatinConditions, LatinTransforms),
      sga |-> Table(OldIrishConditions, OldIrishTransforms),
      sq  |-> Table(AlbanianConditions, AlbanianTransforms),
      tl  |-> Table(TagalogConditions, TagalogTransforms),
      yi  |-> Table(YiddishConditions, YiddishTransforms) ]

\* Tables a transcription error would make: conditions that refer to each
\* other or to one that is missing, too many of them, a rule out of place.
Numbers == << "1", "2", "3", "4", "5", "6", "7", "8", "9", "10", "11", "12",
              "13", "14", "15", "16", "17", "18", "19", "20", "21", "22", "23",
              "24", "25", "26", "27", "28", "29", "30", "31", "32", "33" >>

Malformed ==
    [ cyclic |->
          Table(<< Leaf("a", TRUE), Group("b", TRUE, {"c"}),
                   Group("c", TRUE, {"a", "b"}) >>, {}),
      dangling |-> Table(<< Group("b", TRUE, {"a"}) >>, {}),
      crowded |-> Table([k \in 1 .. 33 |-> Leaf(Numbers[k], TRUE)], {}),
      misplaced |-> Table(<< Leaf("a", TRUE) >>, { Rule(0, {"a"}, {"b"}) }) ]

\* A table whose groups refer to each other in an order that takes rounds.
Nested ==
    [ nested |->
          Table(<< Group("d", TRUE, {"c", "a"}), Group("c", TRUE, {"b"}),
                   Group("b", TRUE, {"a"}), Leaf("e", TRUE), Leaf("a", TRUE) >>,
                { Rule(-1, {"c"}, {"d"}) }) ]

MCTables == Shipped @@ Malformed @@ Nested

-----------------------------------------------------------------------------

Descriptor(textPreprocessors, textPostprocessors, rules, scannedTexts) ==
    [textPreprocessors |-> textPreprocessors,
     textPostprocessors |-> textPostprocessors,
     rules |-> rules, scannedTexts |-> scannedTexts]

TextsOver(letters_, n) == UNION {[1 .. m -> letters_] : m \in 1 .. n}

\* Rules of de.js in two letters: "aB" has a prefix and a plural.
German ==
    Descriptor(
        << "decapitalize", "capitalizeFirstLetter", "eszettPreprocessor" >>,
        << >>,
        << SuffixInflection("plural", << "s" >>, << >>, {"np"}, {"ns"}),
           SuffixInflection("plural", << "B" >>, << "a" >>, {"np"}, {"ns"}),
           PrefixInflection("negative", << "a" >>, << >>, {}, {"np"}) >>,
        TextsOver({"a", "A", "s", "B", " "}, 2) \cup TextsOver({"a", "B", " "}, 3))

OldIrish ==
    Descriptor(
        << "decapitalize", "removeAlphabeticDiacritics" >>,
        << "convertFinalLetters" >>,
        << TryAlternateOrthography("cg", << "c", "g" >>, << "c" >>),
           TryAlternateOrthography("dd", << "d", "d" >>, << "d" >>),
           SuffixInflection("nd", << "d" >>, << "mem" >>, {}, {}) >>,
        { << "a", "c", "g", " ", "c", "g" >>,
          << "c", "g", "c", "g", "d", "/" >>,
          << "C", "g", " ", "d", "d", " ", "c", "g" >> })

French ==
    Descriptor(
        << "decapitalize", "apostropheVariants", "removeApostrophedWords",
           "addHamzaTop", "addSerboCroatianDiacritics" >>,
        << >>,
        << SuffixInflection("plural", << "s" >>, << >>, {"n"}, {"n"}) >>,
        { << "l", "'", "A", "s" >>, << "l", "rsquo", "a", "s", " ", "s" >>,
          << "d", "j", "c" >>, << "alif", "s", "alif" >> })

Spanish ==
    Descriptor(
        << "decapitalize", "capitalizeFirstLetter" >>,
        << >>,
        << SuffixInflection("plural", << "s" >>, << >>, {"np"}, {"ns"}),
           Pronominal >>,
        { << "me", " ", "I", " ", "a" >>, << "me", " ", "I" >>,
          << "I", "s" >> })

\* "-goneun hada" and "-goneun" lead to the same verb.  The processors and the
\* supplemental candidates of Korean are left out.
Korean ==
    Descriptor(
        << >>,
        << >>,
        << SuffixInflection("goneun hada", << "goneun", " ", "hada" >>,
                            << "da" >>, {"v"}, {"v"}),
           SuffixInflection("goneun", << "goneun" >>, << "da" >>,
                            {}, {"v", "adj"}) >>,
        { << "ga", "goneun", " ", "hada" >>, << "goneun", " ", "goneun" >> })

MCDescriptors ==
    [de |-> German, sga |-> OldIrish, fr |-> French, ko |-> Korean]
MCSpanish == [es |-> Spanish]
MCSpanishTable == [es |-> Table(SpanishConditions, SpanishTransforms)]

MCWordCharacters == { "a", "A", "s", "S", "B", "c", "C", "g", "d", "D", "/", "l",
                      "'", "rsquo", "j", "alif", "mem", "I", "me", "se", "ga", "goneun",
                      "hada", "da" }

-----------------------------------------------------------------------------

\* Syllables with every kind of vowel and final, and loose letters.
Syllables == {"g", "s", "dd"} \X {"a", "o", "oa"} \X {"", "b", "bs", "gg", "s"}
Loose == { << "s" >>, << "b" >>, << "a" >>, << "o" >>, << "i" >>, << "bs" >>,
           << "oa" >>, << "dd" >>, << "!" >> }
Characters == Syllables \cup Loose
Mixed == Loose \cup { << "s", "o", "" >>, << "s", "o", "b" >> }

MCHangulTexts ==
    { << a, b >> : a \in Characters, b \in Characters }
    \cup { << a, b, c >> : a \in Mixed, b \in Mixed, c \in Mixed }

=============================================================================
