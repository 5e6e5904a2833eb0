------------------------------- MODULE MCPopup -------------------------------
(* Popup with a few lookups, headwords and texts. *)
EXTENDS Popup

TermEntry(expression, dictionaries) ==
    [expression |-> expression, isKanji |-> FALSE, dictionaries |-> dictionaries]

KanjiEntry(expression) ==
    [expression |-> expression, isKanji |-> TRUE, dictionaries |-> << >>]

MCResults ==
    [ word |-> << TermEntry("x", << "A" >>), TermEntry("y", << "A", "B" >>) >>,
      kanji |-> << KanjiEntry("z") >> ]

\* Entries with and without audio.
MCContents == { << "x" >>, << "y" >> }
MCAudioSources == [x |-> 2, y |-> 0]

-----------------------------------------------------------------------------

Over(letters, n) == UNION {[1 .. m -> letters] : m \in 1 .. n}

\* "K" is a kanji, and "A" is the katakana of "a".
MCKatakana == [A |-> "a"]

MCHeadwords ==
    Over({"K", "a", "A", "b"}, 4) \X Over({"a", "A", "b"}, 3)
    \cup Over({"K", "a"}, 5) \X Over({"a", "b"}, 6)
    \cup {<< << "K" >>, << >> >>}

-----------------------------------------------------------------------------

Node(text) == [text |-> text, furigana |-> FALSE]
Rt(text) == [text |-> text, furigana |-> TRUE]

MCBrackets == [bracket \in {"("} |-> ")"]

\* Texts of one node, and texts that furigana part.
MCParagraphs ==
    { << Node(text) >> : text \in Over({"a", ".", "!", "(", ")", " "}, 4) }
    \cup
    { << Node(before), Rt(<< "r" >>), Node(after) >> :
        before \in { << "(", "a" >>, << "a", "(", "b" >>, << "b", "!", ")" >>,
                     << "(", "b" >> },
        after \in Over({"a", ".", ")", "!"}, 3) }

=============================================================================
