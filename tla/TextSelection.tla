---------------------------- MODULE TextSelection ----------------------------
(***************************************************************************)
(* Tapping a text (src/assets/hoshi_popup/selection.js): the text from the *)
(* tapped character on is selected to be looked up, the sentence around it *)
(* goes with it onto a card, and what the lookup matched is highlighted.   *)
(*                                                                         *)
(* A paragraph is a sequence of text nodes; those of its furigana are left *)
(* out of every walk over it.                                              *)
(***************************************************************************)
EXTENDS Integers, Sequences, SequencesExt

CONSTANTS
    Paragraphs,         \* sequences of nodes [text, furigana]
    ScanDelimiters,     \* isScanBoundary, with the blanks
    SentenceDelimiters,
    TrailingSentenceChars,
    Brackets,           \* opening bracket -> closing bracket
    SpaceChars,         \* what trim() takes away
    ScanMax,            \* maxLength of selectText
    MaxTaps             \* bound

\* Blanks and brackets are boundaries of a scan.
ASSUME SelectionAssumption ==
    /\ Paragraphs \subseteq Seq([text : Seq(STRING), furigana : BOOLEAN])
    /\ Brackets = [open \in DOMAIN Brackets |-> Brackets[open]]
    /\ SpaceChars \subseteq ScanDelimiters
    /\ DOMAIN Brackets \subseteq ScanDelimiters
    /\ \A open \in DOMAIN Brackets : Brackets[open] \in ScanDelimiters
    /\ ScanMax \in Nat \ {0}

VARIABLES
    paragraph,
    selection,
    sentence,           \* posted with the selection
    highlights,         \* the places highlighted, in order
    lookupsOut,         \* selections Flutter has yet to answer: their lengths
    taps                \* bound: taps so far

selectionVars == << paragraph, selection, sentence, highlights, lookupsOut, taps >>

NoSelection == [start |-> << 0, 0 >>, places |-> << >>]

\* Where a character is: its node and its offset there.
CharAt(place) == paragraph[place[1]].text[place[2]]
Spelled(places) == [k \in DOMAIN places |-> CharAt(places[k])]

\* The places a tree walker comes to: createWalker rejects furigana.
Places ==
    FlattenSeq([n \in DOMAIN paragraph |->
        IF paragraph[n].furigana THEN << >>
        ELSE [k \in DOMAIN paragraph[n].text |-> << n, k >>]])

Index(place) == CHOOSE k \in DOMAIN Places : Places[k] = place

Least(from, to, Stops(_)) ==
    LET found == {k \in from .. to : Stops(k)} IN
    IF found = {} THEN to + 1 ELSE CHOOSE k \in found : \A j \in found : k <= j

Trim(text) ==
    LET Kept(k) == text[k] \notin SpaceChars
        from == Least(1, Len(text), Kept)
        to == { k \in DOMAIN text : Kept(k) }
    IN  IF to = {} THEN << >>
        ELSE SubSeq(text, from, CHOOSE k \in to : \A j \in to : j <= k)

-----------------------------------------------------------------------------
(* getSentence *)

\* From the delimiter before a place to the one after it, with the closing
\* marks that follow that in its node.
SentencePlaces(place) ==
    LET places == Places
        at == Index(place)
        Ends(k) == CharAt(places[k]) \in SentenceDelimiters
        before == { k \in 1 .. at - 1 : Ends(k) }
        from == IF before = {} THEN 1
                ELSE 1 + CHOOSE k \in before : \A j \in before : j <= k
        end == Least(at, Len(places), Ends)
        GoesOn(k) == /\ places[k][1] = places[end][1]
                     /\ CharAt(places[k]) \in TrailingSentenceChars
        next == Least(end + 1, Len(places), LAMBDA k : ~GoesOn(k))
    IN  SubSeq(places, from, IF end > Len(places) THEN Len(places) ELSE next - 1)

ClosingBrackets == {Brackets[open] : open \in DOMAIN Brackets}

\* A character opens a bracket, closes the last one, closes none, or is none.
Matched(found, char) ==
    IF char \in DOMAIN Brackets
    THEN [found EXCEPT !.open = Append(@, char)]
    ELSE IF char \notin ClosingBrackets
    THEN found
    ELSE IF found.open # << >> /\ Brackets[Last(found.open)] = char
    THEN [found EXCEPT !.open = Front(@)]
    ELSE [found EXCEPT !.close = Append(@, char)]

\* The opening brackets never closed, and the closing ones never opened.
Unmatched(text) ==
    LET found[k \in 0 .. Len(text)] ==
            IF k = 0 THEN [open |-> << >>, close |-> << >>]
            ELSE Matched(found[k - 1], text[k])
    IN  found[Len(text)]

\* Mutant of StartSlice: as many characters as there are such brackets go.
StartSliceByCount(text, open) ==
    1 + IF Len(open) < Len(text) - 1 THEN Len(open) ELSE Len(text) - 1

\* Those that begin the sentence are left out,
StartSlice(text, open) ==
    LET most == IF Len(open) < Len(text) - 1 THEN Len(open) ELSE Len(text) - 1
    IN  Least(1, most, LAMBDA k : open[k] # text[k])

\* and those that end it, before or among the marks that end a sentence.
CutBack(cut, text, k) ==
    IF cut.stopped \/ cut.close = << >> THEN cut
    ELSE IF Last(cut.close) = text[k]
    THEN [cut EXCEPT !.close = Front(@), !.end = k - 1]
    ELSE [cut EXCEPT !.stopped = text[k] \notin SentenceDelimiters]

EndSlice(text, close, from) ==
    LET cut[n \in 0 .. Len(text) - from] ==
            IF n = 0 THEN [close |-> close, end |-> Len(text), stopped |-> FALSE]
            ELSE CutBack(cut[n - 1], text, Len(text) + 1 - n)
    IN  cut[Len(text) - from].end

GetSentence(place) ==
    LET text == Trim(Spelled(SentencePlaces(place)))
        unmatched == Unmatched(text)
        from == StartSlice(text, unmatched.open)
    IN  Trim(SubSeq(text, from, EndSlice(text, unmatched.close, from)))

-----------------------------------------------------------------------------
(* selectText *)

\* From a place on, over the nodes, to the first delimiter.
ScannedPlaces(place) ==
    LET places == Places
        at == Index(place)
        most == IF at + ScanMax - 1 < Len(places) THEN at + ScanMax - 1
                ELSE Len(places)
        Stops(k) == CharAt(places[k]) \in ScanDelimiters
    IN  SubSeq(places, at, Least(at, most, Stops) - 1)

SelectionInit ==
    /\ paragraph = << >>
    /\ selection = NoSelection /\ sentence = << >>
    /\ highlights = << >> /\ lookupsOut = {} /\ taps = 0

\* The text is there once its entry is rendered.
TextShown ==
    /\ paragraph = << >>
    /\ paragraph' \in Paragraphs
    /\ UNCHANGED << selection, sentence, highlights, lookupsOut, taps >>

ClearSelection ==
    /\ selection' = NoSelection
    /\ highlights' = << >>

\* getCharacterAtPoint finds no character to start from; Flutter clears the
\* selection too, when it closes the popup of the lookup.
TapMissed ==
    /\ taps < MaxTaps /\ taps' = taps + 1
    /\ ClearSelection
    /\ UNCHANGED << paragraph, sentence, lookupsOut >>

Hits == { place \in ToSet(Places) : CharAt(place) \notin ScanDelimiters }

\* The start of what is selected was tapped again.
TapAgain ==
    /\ taps < MaxTaps /\ taps' = taps + 1
    /\ selection # NoSelection
    /\ ClearSelection
    /\ UNCHANGED << paragraph, sentence, lookupsOut >>

\* Mutant of SelectText: the last highlights stay.
SelectTextOver ==
    /\ taps < MaxTaps /\ taps' = taps + 1
    /\ \E place \in Hits \ {selection.start} :
           /\ selection' = [start |-> place, places |-> ScannedPlaces(place)]
           /\ sentence' = GetSentence(place)
           /\ lookupsOut' = lookupsOut \cup {Len(selection'.places)}
    /\ UNCHANGED << paragraph, highlights >>

SelectText ==
    /\ taps < MaxTaps /\ taps' = taps + 1
    /\ \E place \in Hits \ {selection.start} :
           /\ selection' = [start |-> place, places |-> ScannedPlaces(place)]
           /\ highlights' = << >>
           /\ sentence' = GetSentence(place)
           /\ lookupsOut' = lookupsOut \cup {Len(selection'.places)}
    /\ UNCHANGED paragraph

\* Flutter's answer: what the lookup matched, of the text it was sent.  One of an
\* earlier tap may be on its way still.
HighlightSelection ==
    \E length \in lookupsOut : \E matched \in 0 .. length :
        /\ lookupsOut' = lookupsOut \ {length}
        /\ highlights' =
              IF selection.places = << >> \/ matched = 0 THEN highlights
              ELSE SubSeq(selection.places, 1,
                          IF matched < Len(selection.places) THEN matched
                          ELSE Len(selection.places))
        /\ UNCHANGED << paragraph, selection, sentence, taps >>

SelectionNext ==
    TextShown \/ TapMissed \/ TapAgain \/ SelectText \/ HighlightSelection

SelectionSpec == SelectionInit /\ [][SelectionNext]_selectionVars

-----------------------------------------------------------------------------

\* The word up to where its sentence ends.
WordInSentence ==
    LET word == Spelled(selection.places)
        ends == Least(1, Len(word), LAMBDA k : word[k] \in SentenceDelimiters)
    IN  SubSeq(word, 1, ends - 1)

Occurs(part, text) ==
    \E k \in 0 .. Len(text) - Len(part) :
        SubSeq(text, k + 1, k + Len(part)) = part

\* The sentence that goes onto a card has the word that was tapped in it,
\* whatever brackets and blanks are trimmed away around it and however the
\* text is cut into nodes.
SentenceHoldsWord ==
    selection # NoSelection => Occurs(WordInSentence, sentence)

\* What is highlighted is the beginning of what is selected, also when the
\* answer to an earlier tap is late.
HighlightBeginsSelection == IsPrefix(highlights, selection.places)

=============================================================================
