------------------------------ MODULE Furigana ------------------------------
(***************************************************************************)
(* The readings above the kanji of a headword: segmentFurigana of          *)
(* src/assets/hoshi_popup/popup.js splits the reading over the runs of     *)
(* kanji and of other letters of the expression.                           *)
(***************************************************************************)
EXTENDS Naturals, Sequences, SequencesExt

CONSTANTS
    Headwords,      \* pairs of an expression and its reading (bound)
    Kanji,          \* the characters of KANJI_PATTERN
    Katakana        \* katakana -> hiragana

ASSUME FuriganaAssumption == Headwords \subseteq Seq(STRING) \X Seq(STRING)

VARIABLES
    headword,
    ruby            \* what buildFuriganaEl shows of it

furiganaVars == << headword, ruby >>

ToHiragana(text) ==
    [k \in DOMAIN text |->
        IF text[k] \in DOMAIN Katakana THEN Katakana[text[k]] ELSE text[k]]

Segment(text, reading) == [text |-> text, reading |-> reading]

\* Runs of numbers with the next number: in the last run, or in one of its own
\* at a place of change.
RunsWith(runs, k, changes) ==
    IF k = 1 \/ k \in changes
    THEN Append(runs, [from |-> k, to |-> k])
    ELSE [runs EXCEPT ![Len(runs)] = [@ EXCEPT !.to = k]]

\* The first so many numbers in runs, each but the first from a place of change.
RunsOf(length, changes) ==
    LET runs[k \in 0 .. length] ==
            IF k = 0 THEN << >> ELSE RunsWith(runs[k - 1], k, changes)
    IN  runs[length]

Part(text, run) == SubSeq(text, run.from, run.to)

\* The matches of KANJI_SEGMENT_PATTERN.
Groups(expression) ==
    LET IsKanji(k) == expression[k] \in Kanji
        changes == { k \in 2 .. Len(expression) : IsKanji(k - 1) # IsKanji(k) }
        runs == RunsOf(Len(expression), changes)
    IN  [g \in DOMAIN runs |->
            [text |-> Part(expression, runs[g]), isKana |-> ~IsKanji(runs[g].from)]]

\* Mutant of KanaSegments: the reading's own letters are not shown.
PlainSegments(text, reading) == << Segment(text, << >>) >>

\* getFuriganaKanaSegments: letters the reading writes differently get it.
KanaSegments(text, reading) ==
    LET Same(k) == text[k] = reading[k]
        changes == { k \in 2 .. Len(text) : Same(k - 1) # Same(k) }
        runs == RunsOf(Len(text), changes)
    IN  [r \in DOMAIN runs |->
            Segment(Part(text, runs[r]),
                    IF Same(runs[r].from) THEN << >> ELSE Part(reading, runs[r]))]

\* The results for a group and those after it, given the results of the latter.
Splits(group, isLast, reading, start, after) ==
    LET end == Len(reading) + 1
        next == start + Len(group.text)
        Share(to) == SubSeq(reading, start, to - 1)
        With(segments, to) == { segments \o tail : tail \in after[to] }
        ends == { to \in next .. end : isLast => to = end }
        found == UNION { With(<< Segment(group.text, Share(to)) >>, to) : to \in ends }
        only == \A a, b \in found : a = b
    IN  IF group.isKana
        THEN IF next <= end /\ ToHiragana(group.text) = ToHiragana(Share(next))
             THEN With(KanaSegments(group.text, Share(next)), next)
             ELSE {}
        ELSE IF only THEN found ELSE {}

\* segmentizeFurigana, for the last n groups and the reading from a place on:
\* the set of its one result, or {} for null.
Segmentize(reading, groups) ==
    LET end == Len(reading) + 1
        results[n \in 0 .. Len(groups)] ==
            [start \in 1 .. end |->
                IF n = 0 THEN IF start = end THEN { << >> } ELSE {}
                ELSE Splits(groups[Len(groups) + 1 - n], n = 1, reading, start,
                            results[n - 1])]
    IN  results[Len(groups)][1]

SegmentFurigana(expression, reading) ==
    LET found == Segmentize(reading, Groups(expression)) IN
    IF reading \in {<< >>, expression} THEN << Segment(expression, << >>) >>
    ELSE IF found = {} THEN << Segment(expression, reading) >>
    ELSE CHOOSE segments \in found : TRUE

FuriganaInit == headword = << << >>, << >> >> /\ ruby = << >>

\* buildFuriganaEl
BuildFurigana ==
    /\ ruby = << >>
    /\ headword' \in Headwords
    /\ ruby' = SegmentFurigana(headword'[1], headword'[2])

FuriganaNext == BuildFurigana

FuriganaSpec == FuriganaInit /\ [][FuriganaNext]_furiganaVars

-----------------------------------------------------------------------------

Said(segment) ==
    IF segment.reading = << >> THEN segment.text ELSE segment.reading

Joined(Of(_)) == FlattenSeq([k \in DOMAIN ruby |-> Of(ruby[k])])

\* The furigana spell the headword and its reading, with no letter lost,
\* doubled or moved, and no kanji goes without its share of the reading
\* unless the whole headword does.
FuriganaSpellsBoth ==
    ruby # << >> =>
        /\ Joined(LAMBDA segment : segment.text) = headword[1]
        /\ headword[2] # << >> => Joined(Said) = headword[2]
        /\ Len(ruby) > 1 =>
               \A k \in DOMAIN ruby :
                   (\E j \in DOMAIN ruby[k].text : ruby[k].text[j] \in Kanji)
                   => Len(ruby[k].reading) >= Len(ruby[k].text)

=============================================================================
