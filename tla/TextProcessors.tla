--------------------------- MODULE TextProcessors ---------------------------
(***************************************************************************)
(* Text processors of src/assets/yomitan_language_bundle.js: what each     *)
(* makes of a text, in order, the first being the one preferred.  A text   *)
(* is a sequence of characters.                                            *)
(***************************************************************************)
EXTENDS Naturals, Sequences, SequencesExt

\* Whether a pattern occurs in a text at an index, and what String.replace
\* with the flag "g" makes of it.
OccursAt(pattern, chars, k) ==
    /\ k + Len(pattern) - 1 <= Len(chars)
    /\ SubSeq(chars, k, k + Len(pattern) - 1) = pattern

Replaced(pattern, by, chars) ==
    LET from[k \in 1 .. Len(chars) + Len(pattern)] ==
            IF k > Len(chars) THEN << >>
            ELSE IF OccursAt(pattern, chars, k)
            THEN by \o from[k + Len(pattern)]
            ELSE << chars[k] >> \o from[k + 1]
    IN  from[1]

\* The letters of the texts that have a capital.
Capital == [a |-> "A", s |-> "S", c |-> "C", d |-> "D"]
Lower(char) ==
    IF \E l \in DOMAIN Capital : Capital[l] = char
    THEN CHOOSE l \in DOMAIN Capital : Capital[l] = char ELSE char
Upper(char) == IF char \in DOMAIN Capital THEN Capital[char] ELSE char

Decapitalize(chars) ==
    << chars, [k \in DOMAIN chars |-> Lower(chars[k])] >>

CapitalizeFirstLetter(chars) ==
    << chars, [k \in DOMAIN chars |->
                  IF k = 1 THEN Upper(chars[1]) ELSE chars[k]] >>

\* "ss" for sharp s, and the reverse.
Eszett(chars) ==
    << chars,
       Replaced(<< "B" >>, << "s", "s" >>, chars),
       Replaced(<< "s", "s" >>, << "B" >>, chars) >>

ApostropheVariants(chars) ==
    << chars, Replaced(<< "'" >>, << "rsquo" >>, chars),
       Replaced(<< "rsquo" >>, << "'" >>, chars) >>

\* "dell'Italia" -> "Italia"
RemoveApostrophedWords(chars) ==
    << chars, Replaced(<< "l", "'" >>, << >>, chars) >>

\* removeAlphabeticDiacritics, and its kin for other scripts: the marks of the
\* letters are dropped.
RemoveDiacritics(chars) == << chars, Replaced(<< "/" >>, << >>, chars) >>

\* Only the first alif gets the hamza.
AddHamzaTop(chars) ==
    LET first == SelectInSeq(chars, LAMBDA c : c = "alif") IN
    << chars, [k \in DOMAIN chars |->
                  IF k = first THEN "alif hamza" ELSE chars[k]] >>

\* A letter that has a final form gets it at the end of the text.
ConvertFinalLetters(chars) ==
    << [k \in DOMAIN chars |->
           IF k = Len(chars) /\ chars[k] = "mem" THEN "final mem"
           ELSE chars[k]] >>

\* generateDiacriticVariants: every choice of the marks the text leaves out.
MarkChoices(chars, k) ==
    IF chars[k] = "c" THEN << << "c" >>, << "c^" >>, << "c/" >> >>
    ELSE IF chars[k] = "s" THEN << << "s" >>, << "s^" >> >>
    ELSE << << chars[k] >> >>

MaxProcessVariants == 4096

\* Every text made so far, with every choice of the next letter.
ExtendAll(found, choices) ==
    LET made == FlattenSeq([v \in DOMAIN found |->
                    [c \in DOMAIN choices |-> found[v] \o choices[c]]])
    IN  SubSeq(made, 1, IF Len(made) < MaxProcessVariants
                        THEN Len(made) ELSE MaxProcessVariants)

AddDiacritics(chars) ==
    LET \* "dj" is one letter with two spellings
        Skipped(k) == k > 1 /\ chars[k] = "j" /\ chars[k - 1] = "d"
        Taken(k) ==
            IF Skipped(k) THEN << << >> >>
            ELSE IF OccursAt(<< "d", "j" >>, chars, k)
            THEN << << "d", "j" >>, << "dj" >> >>
            ELSE MarkChoices(chars, k)
    IN  FoldLeft(ExtendAll, << << >> >>, [k \in DOMAIN chars |-> Taken(k)])

Processors ==
    { "decapitalize", "capitalizeFirstLetter", "eszettPreprocessor",
      "apostropheVariants", "removeApostrophedWords", "removeAlphabeticDiacritics",
      "addHamzaTop", "convertFinalLetters", "addSerboCroatianDiacritics" }

Process(processor, chars) ==
    CASE processor = "decapitalize" -> Decapitalize(chars)
      [] processor = "capitalizeFirstLetter" -> CapitalizeFirstLetter(chars)
      [] processor = "eszettPreprocessor" -> Eszett(chars)
      [] processor = "apostropheVariants" -> ApostropheVariants(chars)
      [] processor = "removeApostrophedWords" -> RemoveApostrophedWords(chars)
      [] processor = "removeAlphabeticDiacritics" -> RemoveDiacritics(chars)
      [] processor = "addHamzaTop" -> AddHamzaTop(chars)
      [] processor = "convertFinalLetters" -> ConvertFinalLetters(chars)
      [] processor = "addSerboCroatianDiacritics" -> AddDiacritics(chars)

=============================================================================
