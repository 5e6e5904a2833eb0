------------------------------- MODULE Hangul -------------------------------
(***************************************************************************)
(* hangul-js, the library inside src/assets/yomitan_language_bundle.js     *)
(* that takes Korean syllables apart into letters before a text is         *)
(* deinflected (disassembleHangul) and puts them together afterwards       *)
(* (reassembleHangul).                                                     *)
(*                                                                         *)
(* A character is << initial, vowel, final >> for a syllable, with "" for  *)
(* no final, and << letter >> for a single letter or anything else: the    *)
(* arithmetic on code points is the bijection between the two.  A behaviour*)
(* is one call of assemble on the letters of a text, a step one turn of    *)
(* its loop.                                                               *)
(***************************************************************************)
EXTENDS Naturals, Sequences, SequencesExt

CONSTANT HangulTexts    \* the texts taken apart and put together

Initials == { "g", "gg", "n", "d", "dd", "r", "m", "b", "bb", "s", "ss", "ng",
              "j", "jj", "c", "k", "t", "p", "h" }

\* COMPLEX_CONSONANTS and COMPLEX_VOWELS: two letters to the one they make.
ComplexConsonants ==
    { << "g", "s", "gs" >>, << "n", "j", "nj" >>, << "n", "h", "nh" >>,
      << "r", "g", "rg" >>, << "r", "m", "rm" >>, << "r", "b", "rb" >>,
      << "r", "s", "rs" >>, << "r", "t", "rt" >>, << "r", "p", "rp" >>,
      << "r", "h", "rh" >>, << "b", "s", "bs" >> }

ComplexVowels ==
    { << "o", "a", "oa" >>, << "o", "ae", "oae" >>, << "o", "i", "oi" >>,
      << "u", "eo", "ueo" >>, << "u", "e", "ue" >>, << "u", "i", "ui" >>,
      << "eu", "i", "eui" >> }

Made(table) == { entry[3] : entry \in table }

Vowels == { "a", "ae", "ya", "yae", "eo", "e", "yeo", "ye", "o", "yo", "u",
            "yu", "eu", "i" } \cup Made(ComplexVowels)

Finals == (Initials \ {"dd", "bb", "jj"}) \cup Made(ComplexConsonants)

\* What String.fromCharCode makes of a number that is no code point.
Garbage == << "NUL" >>

Joinable(table, a, b) == \E entry \in table : entry[1] = a /\ entry[2] = b
Joined(table, a, b) ==
    (CHOOSE entry \in table : entry[1] = a /\ entry[2] = b)[3]

\* A letter that stands for two is taken apart.
Split(letter) ==
    IF letter \in Made(ComplexConsonants) \cup Made(ComplexVowels)
    THEN LET entry == CHOOSE e \in ComplexConsonants \cup ComplexVowels :
                          e[3] = letter
         IN  << entry[1], entry[2] >>
    ELSE IF letter = "" THEN << >> ELSE << letter >>

Disassemble(text) ==
    FlattenSeq([k \in DOMAIN text |->
                   FlattenSeq([j \in DOMAIN text[k] |-> Split(text[k][j])])])

\* A character is a syllable of the letters there are, or a single letter.
ASSUME HangulAssumption ==
    /\ HangulTexts \subseteq Seq(Seq(STRING))
    /\ \A text \in HangulTexts : \A k \in DOMAIN text :
           \/ text[k] \in Initials \X Vowels \X (Finals \cup {""})
           \/ Len(text[k]) = 1

-----------------------------------------------------------------------------
(* assemble *)

VARIABLES
    hangul,         \* the text
    letters,        \* array: its letters
    read,              \* the letters read
    stage,
    previous,       \* previous_code
    jongJoined,     \* jong_joined: the final has two letters already
    complete,       \* complete_index: the letters put together so far
    result

hangulVars ==
    << hangul, letters, read, stage, previous, jongJoined, complete, result >>

HangulInit ==
    /\ hangul = << >> /\ letters = << >>
    /\ read = 0 /\ stage = 0 /\ previous = "" /\ jongJoined = FALSE
    /\ complete = 0 /\ result = << >>

\* reassembleHangul is called with the letters disassembleHangul made.
BeginAssemble ==
    /\ hangul = << >>
    /\ hangul' \in HangulTexts
    /\ letters' = Disassemble(hangul')
    /\ UNCHANGED << read, stage, previous, jongJoined, complete, result >>

Syllable(initial, vowel, final) ==
    IF vowel \in Vowels /\ final \in Finals \cup {""}
    THEN << initial, vowel, final >> ELSE Garbage

JoinedOrGarbage(table, a, b) ==
    IF Joinable(table, a, b) THEN << Joined(table, a, b) >> ELSE Garbage

\* _makeHangul's steps: the one character some letters make.
Character(part) ==
    LET first == part[1]
        second == part[2]
        vowelJoined == Len(part) >= 3 /\ Joinable(ComplexVowels, second, part[3])
        vowel == IF vowelJoined THEN Joined(ComplexVowels, second, part[3])
                 ELSE second
        finals == SubSeq(part, IF vowelJoined THEN 4 ELSE 3, Len(part))
        JoinedFinals(a, b, otherwise) ==
            IF Joinable(ComplexConsonants, a, b)
            THEN Joined(ComplexConsonants, a, b) ELSE otherwise
        ofTwo == JoinedFinals(finals[1], finals[2],
                              IF vowelJoined THEN "false" ELSE finals[2])
        final ==
            CASE Len(finals) = 0 -> ""
              [] Len(finals) = 1 -> finals[1]
              [] Len(finals) = 2 -> ofTwo
              [] OTHER -> JoinedFinals(ofTwo, finals[3], "false")
    IN  IF first \in Vowels
        THEN IF Len(part) >= 2 /\ second \in Vowels
             THEN JoinedOrGarbage(ComplexVowels, first, second)
             ELSE << first >>
        ELSE IF first \notin Initials \/ Len(part) = 1 THEN << first >>
        ELSE IF second \in Initials
        THEN JoinedOrGarbage(ComplexConsonants, first, second)
        ELSE Syllable(first, vowel, final)

\* _makeHangul(index) appends that character, whatever the letters left over.
MakeHangul(index) ==
    /\ complete' = IF index > complete THEN index ELSE complete
    /\ result' = IF index > complete
                 THEN Append(result,
                             Character(SubSeq(letters, complete + 1, index)))
                 ELSE result

\* The turn reads "letter" and goes on at stage "next".
Turn(letter, next) ==
    /\ read' = read + 1
    /\ stage' = next
    /\ previous' = letter
    /\ UNCHANGED << hangul, letters >>

\* The turn makes a character of the letters up to "index" first.
TurnMaking(letter, next, index) ==
    Turn(letter, next) /\ MakeHangul(index) /\ jongJoined' = FALSE

TurnKeeping(letter, next) ==
    Turn(letter, next) /\ UNCHANGED << complete, result, jongJoined >>

Reads(letter) == read < Len(letters) /\ letter = letters[read + 1]

IsLetter(letter) == letter \in Initials \cup Vowels \cup Finals

\* Anything but a letter: made with what comes before it, then alone.
ReadOther ==
    \E letter \in {letters[j] : j \in DOMAIN letters} :
        /\ Reads(letter) /\ ~IsLetter(letter)
        /\ read' = read + 1 /\ stage' = 0 /\ jongJoined' = FALSE
        /\ complete' = read + 1
        /\ result' = IF read > complete
                     THEN result \o << Character(SubSeq(letters, complete + 1, read)),
                                       << letter >> >>
                     ELSE Append(result, << letter >>)
        /\ UNCHANGED << hangul, letters, previous >>

ReadFirst(letter) ==
    /\ stage = 0
    /\ TurnKeeping(letter, IF letter \in Initials THEN 1
                           ELSE IF letter \in Vowels THEN 4 ELSE 0)

\* Mutant of ReadAfterInitial: two consonants that do not join go on.
ReadSecondInitial(letter) ==
    /\ stage = 1
    /\ IF letter \in Vowels THEN TurnKeeping(letter, 2)
       ELSE IF Joinable(ComplexConsonants, previous, letter)
       THEN TurnKeeping(letter, 5)
       ELSE TurnKeeping(letter, 1)

ReadAfterInitial(letter) ==
    /\ stage = 1
    /\ IF letter \in Vowels THEN TurnKeeping(letter, 2)
       ELSE IF Joinable(ComplexConsonants, previous, letter)
       THEN TurnKeeping(letter, 5)
       ELSE TurnMaking(letter, 1, read)

ReadAfterVowel(letter) ==
    /\ stage = 2
    /\ IF letter \in Finals THEN TurnKeeping(letter, 3)
       ELSE IF letter \notin Vowels THEN TurnMaking(letter, 1, read)
       ELSE IF Joinable(ComplexVowels, previous, letter)
       THEN TurnKeeping(letter, 2)
       ELSE TurnMaking(letter, 4, read)

\* Mutant of ReadAfterFinal: the final stays with the syllable before the vowel.
ReadAfterKeptFinal(letter) ==
    /\ stage = 3
    /\ IF letter \in Vowels THEN TurnMaking(letter, 2, read)
       ELSE IF letter \in Finals /\ ~jongJoined
               /\ Joinable(ComplexConsonants, previous, letter)
       THEN /\ Turn(letter, 3)
            /\ jongJoined' = TRUE
            /\ UNCHANGED << complete, result >>
       ELSE TurnMaking(letter, 1, read)

\* After a final: a vowel takes it as the initial of the next syllable.
ReadAfterFinal(letter) ==
    /\ stage = 3
    /\ IF letter \in Vowels THEN TurnMaking(letter, 2, read - 1)
       ELSE IF letter \in Finals /\ ~jongJoined
               /\ Joinable(ComplexConsonants, previous, letter)
       THEN /\ Turn(letter, 3)
            /\ jongJoined' = TRUE
            /\ UNCHANGED << complete, result >>
       ELSE TurnMaking(letter, 1, read)

ReadAfterLooseVowel(letter) ==
    /\ stage = 4
    /\ IF letter \notin Vowels THEN TurnMaking(letter, 1, read)
       ELSE IF Joinable(ComplexVowels, previous, letter)
       THEN TurnMaking(letter, 0, read + 1)
       ELSE TurnMaking(letter, 4, read)

ReadAfterLooseConsonants(letter) ==
    /\ stage = 5
    /\ IF letter \in Vowels THEN TurnMaking(letter, 2, read - 1)
       ELSE TurnMaking(letter, 1, read)

ReadLetter ==
    \E letter \in {letters[j] : j \in DOMAIN letters} :
        /\ Reads(letter) /\ IsLetter(letter)
        /\ \/ ReadFirst(letter) \/ ReadAfterInitial(letter)
           \/ ReadAfterVowel(letter) \/ ReadAfterFinal(letter)
           \/ ReadAfterLooseVowel(letter) \/ ReadAfterLooseConsonants(letter)

\* The last _makeHangul, after the loop.
Finish ==
    /\ read = Len(letters)
    /\ complete < read
    /\ MakeHangul(read)
    /\ jongJoined' = FALSE
    /\ UNCHANGED << hangul, letters, read, stage, previous >>

HangulNext == BeginAssemble \/ ReadOther \/ ReadLetter \/ Finish

HangulSpec == HangulInit /\ [][HangulNext]_hangulVars

-----------------------------------------------------------------------------

\* No letter is dropped, doubled or turned into something else: what is put
\* together so far is made of exactly the letters it was made from.
NoLetterLost == Disassemble(result) = SubSeq(letters, 1, complete)

\* A text of whole syllables comes back as it was: the dictionary form of a
\* Korean text no rule changed is the text itself, which is no candidate.
SyllablesComeBack ==
    read = Len(letters) /\ complete = read
    /\ (\A k \in DOMAIN hangul : Len(hangul[k]) = 3)
        => result = hangul
=============================================================================
