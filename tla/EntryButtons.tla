---------------------------- MODULE EntryButtons ----------------------------
(***************************************************************************)
(* The buttons of the entries in the dictionary popup                      *)
(* (src/assets/hoshi_popup/popup.js): adding a card to Anki, browsing the  *)
(* cards there are, and playing audio.  Each asks Flutter and updates the  *)
(* button when the answer is there; by then the user may be elsewhere.     *)
(*                                                                         *)
(* A page is rendered at once here (DictionaryPopup has its rendering).    *)
(* Back and forward show the elements of a page as they were left.         *)
(***************************************************************************)
EXTENDS Naturals, Sequences, FiniteSets

CONSTANTS
    Contents,       \* the expressions a page may have, sequences
    AudioSources,   \* expression -> the number of its audio sources
    MaxPages,       \* bound: pages visited
    MaxReturns,     \* bound: moves back and forward
    MaxPresses      \* bound: buttons pressed

VARIABLES
    pages,          \* visited: expressions, buttons, and whether it was left
    at,             \* the one on show, 0: none yet
    lastResults,    \* the expressions of _results, of the last lookup
    cards,          \* the expressions Anki has a card of
    checks,         \* refreshEntryAnkiState under way
    mines,          \* mineEntryAtIndex under way
    exporting,      \* the mine whose card is being made, if any
    browses,        \* browseEntryNotes under way
    plays,          \* playEntryAudio under way
    audioUrls,      \* the expressions whose audio played
    sourceResults,  \* the expressions whose sources are known
    timers,         \* setTimeout
    returns, presses    \* bounds: moves and presses so far

audio == << plays, audioUrls, sourceResults >>
anki == << cards, checks, mines, exporting, browses >>
buttonVars == << pages, at, lastResults, anki, audio, timers, returns, presses >>

Button(state, enabled) == [state |-> state, enabled |-> enabled]

FreshButtons ==
    [mine |-> Button("default", FALSE), browse |-> Button("default", FALSE),
     audio |-> Button("default", TRUE)]

Expressions == IF at = 0 THEN << >> ELSE pages[at].expressions
Buttons(idx) == pages[at].buttons[idx]

\* updateButtonSlot: an element that is not on show stays as it is.
UpdateSlot(all, p, idx, kind, button) ==
    IF p = at THEN [all EXCEPT ![p].buttons[idx][kind] = button] ELSE all

Page(expressions) ==
    [expressions |-> expressions, left |-> FALSE,
     buttons |-> [idx \in DOMAIN expressions |-> FreshButtons]]

Check(idx, expression) ==
    [idx |-> idx, expression |-> expression, answer |-> "none"]

ChecksOf(expressions) ==
    { Check(idx, expressions[idx]) : idx \in DOMAIN expressions }

ButtonsInit ==
    /\ pages = << >> /\ at = 0
    /\ lastResults = << >> /\ checks = {} /\ cards = {}
    /\ mines = {} /\ exporting = {} /\ browses = {} /\ plays = {}
    /\ audioUrls = {} /\ sourceResults = {} /\ timers = {}
    /\ returns = 0 /\ presses = 0

-----------------------------------------------------------------------------
(* navigation *)

ResetAudioCaches == audioUrls' = {} /\ sourceResults' = {}

Left(p) == [pages[p] EXCEPT !.left = @ \/ p = at]

\* redirect, and createEntryHeader of the entries of the new page.
VisitPage ==
    /\ Len(pages) < MaxPages
    /\ \E expressions \in Contents :
           /\ pages' = Append([p \in DOMAIN pages |-> Left(p)],
                              Page(expressions))
           /\ lastResults' = expressions
           /\ checks' = checks \cup ChecksOf(expressions)
    /\ at' = Len(pages')
    /\ ResetAudioCaches
    /\ UNCHANGED << cards, mines, exporting, browses, plays, timers, returns,
                    presses >>

\* restore: nothing is asked again.
ReturnTo ==
    /\ returns < MaxReturns
    /\ returns' = returns + 1
    /\ at' \in (DOMAIN pages) \ {at}
    /\ pages' = [p \in DOMAIN pages |-> Left(p)]
    /\ ResetAudioCaches
    /\ UNCHANGED << lastResults, anki, plays, timers, presses >>

-----------------------------------------------------------------------------
(* refreshEntryAnkiState *)

\* Flutter answers for the cards there are; it says no when Anki does not
\* answer.
AnswerCheck ==
    \E check \in checks :
        /\ check.answer = "none"
        /\ \E answer \in {"no"} \cup
                         IF check.expression \in cards THEN {"yes"} ELSE {} :
               checks' = (checks \ {check}) \cup {[check EXCEPT !.answer = answer]}
        /\ UNCHANGED << pages, at, lastResults, cards, mines, exporting, browses, audio,
                        timers, returns, presses >>

\* Mutant of StillThere: the expression is not compared.
StillAnEntry(idx, expression) == idx \in DOMAIN Expressions

\* The answer is for the entry on show at that index, if it still has the
\* expression asked for.
StillThere(idx, expression) ==
    idx \in DOMAIN Expressions /\ Expressions[idx] = expression

RefreshAnkiState ==
    \E check \in checks :
        /\ check.answer # "none"
        /\ checks' = checks \ {check}
        /\ pages' =
              IF ~StillThere(check.idx, check.expression) THEN pages
              ELSE [pages EXCEPT
                    ![at].buttons[check.idx].mine =
                        Button(IF check.answer = "yes" THEN "duplicate"
                               ELSE "default", TRUE),
                    ![at].buttons[check.idx].browse =
                        Button("default", check.answer = "yes")]
        /\ UNCHANGED << at, lastResults, cards, mines, exporting, browses, audio, timers,
                        returns, presses >>

-----------------------------------------------------------------------------
(* mineEntryAtIndex *)

Presses ==
    /\ presses < MaxPresses
    /\ presses' = presses + 1

PressMine ==
    /\ Presses
    /\ \E idx \in DOMAIN Expressions :
           /\ Buttons(idx).mine.enabled
           /\ pages' = [pages EXCEPT ![at].buttons[idx].mine.enabled = FALSE]
           /\ mines' = mines \cup
                  {[idx |-> idx, expression |-> Expressions[idx],
                    allowDuplicate |-> Buttons(idx).mine.state = "duplicate",
                    press |-> presses, answer |-> "none"]}
    /\ UNCHANGED << at, lastResults, cards, checks, exporting, browses, audio, timers,
                    returns >>

\* Flutter makes one card at a time, of an entry of its last lookup.
StartExport ==
    \E mine \in mines :
        /\ mine.answer = "none" /\ mine \notin exporting
        /\ IF exporting # {} \/ mine.expression \notin {lastResults[k] : k \in DOMAIN lastResults}
           THEN /\ mines' = (mines \ {mine}) \cup {[mine EXCEPT !.answer = "no"]}
                /\ UNCHANGED exporting
           ELSE exporting' = {mine} /\ UNCHANGED mines
        /\ UNCHANGED << pages, at, lastResults, cards, checks, browses, audio, timers,
                        returns, presses >>

FinishExport ==
    \E mine \in exporting :
        /\ exporting' = {}
        /\ \E added \in BOOLEAN :
               /\ added => mine.allowDuplicate \/ mine.expression \notin cards
               /\ cards' = IF added THEN cards \cup {mine.expression} ELSE cards
               /\ mines' = (mines \ {mine}) \cup
                      {[mine EXCEPT !.answer = IF added THEN "yes" ELSE "no"]}
        /\ UNCHANGED << pages, at, lastResults, checks, browses, audio, timers, returns,
                        presses >>

\* Mutant of Mined: the state is asked again only when a card was added.
MinedOrNot ==
    \E mine \in mines :
        /\ mine.answer # "none"
        /\ mines' = mines \ {mine}
        /\ checks' = IF mine.answer = "yes"
                     THEN checks \cup {Check(mine.idx, mine.expression)}
                     ELSE checks
        /\ UNCHANGED << pages, at, lastResults, cards, exporting, browses, audio,
                        timers, returns, presses >>

\* The state is asked again, later when no card was added.
Mined ==
    \E mine \in mines :
        /\ mine.answer # "none"
        /\ mines' = mines \ {mine}
        /\ IF mine.answer = "yes"
           THEN /\ checks' = checks \cup {Check(mine.idx, mine.expression)}
                /\ UNCHANGED timers
           ELSE /\ timers' = timers \cup {[kind |-> "mine", page |-> 0,
                       idx |-> mine.idx, expression |-> mine.expression]}
                /\ UNCHANGED checks
        /\ UNCHANGED << pages, at, lastResults, cards, exporting, browses, audio, returns,
                        presses >>

-----------------------------------------------------------------------------
(* browseEntryNotes *)

PressBrowse ==
    /\ Presses
    /\ \E idx \in DOMAIN Expressions :
           /\ Buttons(idx).browse.enabled
           /\ pages' = UpdateSlot(pages, at, idx, "browse", Button("loading", FALSE))
           /\ browses' = browses \cup {[page |-> at, idx |-> idx]}
    /\ UNCHANGED << at, lastResults, cards, checks, mines, exporting, audio, timers, returns >>

Timer(kind, p, idx) ==
    [kind |-> kind, page |-> p, idx |-> idx, expression |-> ""]

Browsed ==
    \E browse \in browses :
        /\ browses' = browses \ {browse}
        /\ \E opened \in BOOLEAN :
               /\ pages' = UpdateSlot(pages, browse.page, browse.idx, "browse",
                               Button(IF opened THEN "default" ELSE "error", TRUE))
               /\ timers' = IF opened THEN timers
                            ELSE timers \cup
                                 {Timer("browse", browse.page, browse.idx)}
        /\ UNCHANGED << at, lastResults, cards, checks, mines, exporting, audio, returns,
                        presses >>

-----------------------------------------------------------------------------
(* playEntryAudio *)

\* "source" is the one to play next, 0: the one that played before.
PressAudio ==
    /\ Presses
    /\ \E idx \in DOMAIN Expressions :
           /\ pages' = UpdateSlot(pages, at, idx, "audio", Button("loading", TRUE))
           /\ plays' = plays \cup
                  {[page |-> at, idx |-> idx, expression |-> Expressions[idx],
                    press |-> presses,
                    step |-> IF Expressions[idx] \in audioUrls THEN "cached"
                             ELSE IF Expressions[idx] \in sourceResults
                             THEN "playing" ELSE "asking",
                    source |-> 1]}
    /\ UNCHANGED << at, lastResults, anki, audioUrls, sourceResults, timers, returns >>

\* resolveEntryAudioSources: also known once the caches were reset meanwhile.
ResolveSources ==
    \E play \in plays :
        /\ play.step = "asking"
        /\ sourceResults' = sourceResults \cup {play.expression}
        /\ plays' = (plays \ {play}) \cup {[play EXCEPT !.step = "playing"]}
        /\ UNCHANGED << pages, at, lastResults, anki, audioUrls, timers, returns, presses >>

PlayEnds(play, played) ==
    /\ plays' = plays \ {play}
    /\ pages' = UpdateSlot(pages, play.page, play.idx, "audio",
                    Button(IF played THEN "default" ELSE "error", TRUE))
    /\ timers' = IF played THEN timers
                 ELSE timers \cup {Timer("audio", play.page, play.idx)}

PlaySource ==
    \E play \in plays :
        /\ play.step = "playing"
        /\ \/ /\ play.source <= AudioSources[play.expression]
              /\ PlayEnds(play, TRUE)
              /\ audioUrls' = audioUrls \cup {play.expression}
           \/ /\ play.source <= AudioSources[play.expression]
              /\ plays' = (plays \ {play}) \cup {[play EXCEPT !.source = @ + 1]}
              /\ UNCHANGED << pages, timers, audioUrls >>
           \/ /\ play.source > AudioSources[play.expression]
              /\ PlayEnds(play, FALSE)
              /\ UNCHANGED audioUrls
        /\ UNCHANGED << at, lastResults, anki, sourceResults, returns, presses >>

PlayCached ==
    \E play \in plays :
        /\ play.step = "cached"
        /\ \E played \in BOOLEAN : PlayEnds(play, played)
        /\ UNCHANGED << at, lastResults, anki, audioUrls, sourceResults, returns, presses >>

-----------------------------------------------------------------------------

TimerFires ==
    \E timer \in timers :
        /\ timers' = timers \ {timer}
        /\ IF timer.kind = "mine"
           THEN /\ checks' = checks \cup {Check(timer.idx, timer.expression)}
                /\ UNCHANGED pages
           ELSE /\ pages' = UpdateSlot(pages, timer.page, timer.idx, timer.kind,
                       Button("default",
                              pages[timer.page].buttons[timer.idx][timer.kind].enabled))
                /\ UNCHANGED checks
        /\ UNCHANGED << at, lastResults, cards, mines, exporting, browses, audio, returns,
                        presses >>

Answers ==
    \/ AnswerCheck \/ RefreshAnkiState \/ StartExport \/ FinishExport \/ Mined
    \/ Browsed \/ ResolveSources \/ PlaySource \/ PlayCached \/ TimerFires

ButtonsNext ==
    \/ VisitPage \/ ReturnTo \/ PressMine \/ PressBrowse \/ PressAudio
    \/ Answers

\* Flutter answers and timers fire.
ButtonsSpec ==
    ButtonsInit /\ [][ButtonsNext]_buttonVars /\ WF_buttonVars(Answers)

-----------------------------------------------------------------------------

\* A second card of an expression is asked for only where there is a first
\* one: the button never says "duplicate" for another entry's sake.
NoSilentDuplicate ==
    [][\A mine \in mines' \ mines :
           mine.allowDuplicate => mine.expression \in cards]_buttonVars

Waiting(p, idx) ==
    LET buttons == pages[p].buttons[idx] IN
        \/ ~buttons.mine.enabled
        \/ buttons.browse.state = "loading"
        \/ buttons.audio.state = "loading"

\* On a page the user has not left, a button comes back once it was pressed,
\* and the one for a new card is offered.
ButtonsComeBack ==
    []<>(\A p \in DOMAIN pages :
             pages[p].left \/ \A idx \in DOMAIN pages[p].buttons : ~Waiting(p, idx))

=============================================================================
