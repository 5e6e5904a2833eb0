---------------------------- MODULE PopupProofs ----------------------------
(***************************************************************************)
(* For any pages, entries and order of answers: the popup asks for a       *)
(* second card of an expression only where Anki has a first one            *)
(* (EntryButtons).  For any paragraphs, brackets and delimiters among      *)
(* which blanks and brackets are boundaries of a scan: the sentence beside *)
(* a selection contains the word selected, and what is highlighted begins  *)
(* what is selected (TextSelection).  For any headword and reading: the    *)
(* furigana spell both, each kanji with its share (Furigana).              *)
(*                                                                         *)
(* A sentence is cut out of the text around a selection: open brackets are *)
(* cut off its start, closing ones off its end, and blanks off both.  The  *)
(* word is a part of that text in which no character is a bracket or a     *)
(* blank, and such a part survives every one of these cuts.  What the cuts *)
(* compute is recursive over the text; it is reasoned about by induction   *)
(* over the set of the numbers at which a fact holds.                      *)
(*                                                                         *)
(* PopupCorrect puts these together with the history, replaced pages and   *)
(* style scopes of DictionaryPopupProofs, for the popup as a whole: a step *)
(* of it is a step of one part and leaves the others' variables alone.     *)
(***************************************************************************)
EXTENDS Popup, DictionaryPopupProofs, WellFoundedInduction, TLAPS

(* The buttons of the entries *)

(* Shapes *)

IsSlot(button) == button = Button(button.state, button.enabled)

IsSlots(slots) ==
    /\ slots = [mine |-> slots.mine, browse |-> slots.browse,
                audio |-> slots.audio]
    /\ IsSlot(slots.mine)

IsPageShape(p) ==
    /\ p = [expressions |-> p.expressions, left |-> p.left,
            buttons |-> p.buttons]
    /\ p.buttons = [idx \in DOMAIN p.expressions |-> p.buttons[idx]]
    /\ \A idx \in DOMAIN p.buttons : IsSlots(p.buttons[idx])

IsCheck(x) == x = [idx |-> x.idx, expression |-> x.expression,
                   answer |-> x.answer]

IsMine(x) ==
    x = [idx |-> x.idx, expression |-> x.expression,
         allowDuplicate |-> x.allowDuplicate, press |-> x.press,
         answer |-> x.answer]

-----------------------------------------------------------------------------

\* A page whose buttons tell the truth about the cards in a set.
Honest(p, known) ==
    \A idx \in DOMAIN p.buttons :
        p.buttons[idx].mine.state = "duplicate" => p.expressions[idx] \in known

PagesHonest ==
    /\ pages = [p \in DOMAIN pages |-> pages[p]]
    /\ \E n \in Nat : DOMAIN pages = 1 .. n
    /\ \A p \in DOMAIN pages : IsPageShape(pages[p]) /\ Honest(pages[p], cards)

AtPage == at # 0 => at \in DOMAIN pages

\* Whatever says that there is a card is right: buttons, answers under way,
\* and presses of a button that says so.
CardsInv ==
    /\ PagesHonest /\ AtPage
    /\ \A check \in checks :
           IsCheck(check) /\ (check.answer = "yes" => check.expression \in cards)
    /\ \A mine \in mines \cup exporting :
           IsMine(mine) /\ (mine.allowDuplicate => mine.expression \in cards)

PageWith(p, idx, slots) ==
    [pages[p] EXCEPT !.buttons = [pages[p].buttons EXCEPT ![idx] = slots]]

\* The entry at an index of a page gets slots that are honest too.
LEMMA SlotsChange ==
    ASSUME PagesHonest, cards' = cards, NEW p \in DOMAIN pages, NEW idx, NEW slots,
           IsSlots(slots),
           idx \in DOMAIN pages[p].buttons =>
               (slots.mine.state = "duplicate" => pages[p].expressions[idx] \in cards),
           pages' = [pages EXCEPT ![p] = PageWith(p, idx, slots)]
    PROVE  PagesHonest' /\ DOMAIN pages' = DOMAIN pages
  <1>. DEFINE P == pages[p]
              buttons == [P.buttons EXCEPT ![idx] = slots]
              after == [P EXCEPT !.buttons = buttons]
  <1>1. IsPageShape(P) /\ Honest(P, cards)
    BY DEF PagesHonest
  <1>2. after = [expressions |-> P.expressions, left |-> P.left,
                buttons |-> buttons]
    BY <1>1 DEF IsPageShape
  <1>3. /\ DOMAIN buttons = DOMAIN P.buttons
        /\ buttons = [k \in DOMAIN buttons |-> buttons[k]]
        /\ \A k \in DOMAIN P.buttons :
               buttons[k] = IF k = idx THEN slots ELSE P.buttons[k]
    BY <1>1 DEF IsPageShape
  <1>4. pages' = [pages EXCEPT ![p] = after]
    BY DEF PageWith
  <1>. HIDE DEF buttons, after
  <1>5. IsPageShape(after) /\ Honest(after, cards)
    BY <1>1, <1>2, <1>3 DEF IsPageShape, Honest
  <1>. QED BY <1>4, <1>5 DEF PagesHonest, PagesHonest

\* A button other than the one that adds a card changes.
LEMMA OtherSlot ==
    ASSUME PagesHonest, cards' = cards, NEW p, NEW idx, NEW kind,
           kind # "mine", NEW button,
           pages' = UpdateSlot(pages, p, idx, kind, button)
    PROVE  PagesHonest' /\ DOMAIN pages' = DOMAIN pages
  <1>1. CASE p # at \/ p \notin DOMAIN pages
    <2>1. pages' = pages
      BY <1>1 DEF PagesHonest, UpdateSlot
    <2>. QED BY <2>1 DEF PagesHonest
  <1>2. CASE p = at /\ p \in DOMAIN pages /\ idx \notin DOMAIN pages[p].buttons
    <2>1. /\ pages[p].buttons = [k \in DOMAIN pages[p].buttons |->
                                    pages[p].buttons[k]]
          /\ pages[p] = [expressions |-> pages[p].expressions,
                         left |-> pages[p].left, buttons |-> pages[p].buttons]
      BY <1>2 DEF PagesHonest, IsPageShape
    <2>2. [pages[p].buttons EXCEPT ![idx][kind] = button] = pages[p].buttons
      BY <1>2, <2>1
    <2>3. [pages[p] EXCEPT !.buttons = pages[p].buttons] = pages[p]
      BY <2>1
    <2>4. pages' = pages
      BY <1>2, <2>2, <2>3 DEF PagesHonest, UpdateSlot
    <2>. QED BY <2>4 DEF PagesHonest
  <1>3. CASE p = at /\ p \in DOMAIN pages /\ idx \in DOMAIN pages[p].buttons
    <2>. DEFINE slots == [pages[p].buttons[idx] EXCEPT ![kind] = button]
    <2>1. /\ IsSlots(pages[p].buttons[idx])
          /\ pages[p].buttons[idx].mine.state = "duplicate"
                 => pages[p].expressions[idx] \in cards
      BY <1>3 DEF PagesHonest, IsPageShape, Honest
    <2>2. IsSlots(slots) /\ slots.mine = pages[p].buttons[idx].mine
      BY <2>1 DEF IsSlots
    <2>3. pages' = [pages EXCEPT ![p] = PageWith(p, idx, slots)]
      BY <1>3 DEF UpdateSlot, PageWith
    <2>4. slots.mine.state = "duplicate" => pages[p].expressions[idx] \in cards
      BY <2>1, <2>2
    <2>. HIDE DEF slots
    <2>. QED BY <1>3, <2>2, <2>3, <2>4, SlotsChange, Zenon
  <1>. QED BY <1>1, <1>2, <1>3

\* Two slots of an entry changed at once.
TwoSlots(slots, first, second) ==
    [[slots EXCEPT !.mine = first] EXCEPT !.browse = second]

TwoChanged(p, idx, first, second) ==
    [pages EXCEPT ![p].buttons[idx].mine = first,
                  ![p].buttons[idx].browse = second]

LEMMA SlotsTwice ==
    ASSUME NEW p \in DOMAIN pages, IsPageShape(pages[p]),
           NEW idx \in DOMAIN pages[p].buttons, NEW first, NEW second
    PROVE  TwoChanged(p, idx, first, second) =
           [pages EXCEPT ![p] = PageWith(p, idx,
               TwoSlots(pages[p].buttons[idx], first, second))]
  <1>. DEFINE P == pages[p]
              slots1 == [P.buttons[idx] EXCEPT !.mine = first]
              slots2 == [slots1 EXCEPT !.browse = second]
              buttons1 == [P.buttons EXCEPT ![idx] = slots1]
              buttons2 == [P.buttons EXCEPT ![idx] = slots2]
              page1 == [P EXCEPT !.buttons = buttons1]
              page2 == [P EXCEPT !.buttons = buttons2]
              pages1 == [pages EXCEPT ![p].buttons[idx].mine = first]
  <1>1. pages1 = [pages EXCEPT ![p] = page1]
    OBVIOUS
  <1>2. [pages EXCEPT ![p].buttons[idx].mine = first,
                      ![p].buttons[idx].browse = second]
            = [pages1 EXCEPT ![p].buttons[idx].browse = second]
    OBVIOUS
  <1>. HIDE DEF pages1
  <1>3. [pages1 EXCEPT ![p].buttons[idx].browse = second]
            = [pages1 EXCEPT ![p] = [pages1[p] EXCEPT
                  !.buttons = [pages1[p].buttons EXCEPT
                      ![idx] = [pages1[p].buttons[idx] EXCEPT !.browse = second]]]]
    OBVIOUS
  <1>. HIDE DEF page1, page2
  <1>4. pages1[p] = page1
    BY <1>1
  <1>5. /\ page1 = [expressions |-> P.expressions, left |-> P.left,
                    buttons |-> buttons1]
        /\ page2 = [expressions |-> P.expressions, left |-> P.left,
                    buttons |-> buttons2]
    <2>1. P = [expressions |-> P.expressions, left |-> P.left,
               buttons |-> P.buttons]
      BY DEF IsPageShape
    <2>. HIDE DEF buttons1, buttons2
    <2>. QED BY <2>1 DEF page1, page2
  <1>6. buttons1[idx] = slots1
    OBVIOUS
  <1>. HIDE DEF slots1
  <1>7. [buttons1 EXCEPT ![idx] = slots2] = buttons2
    OBVIOUS
  <1>. HIDE DEF buttons1, buttons2, slots2
  <1>8. [page1 EXCEPT !.buttons = buttons2] = page2
    BY <1>5
  <1>9. [pages1 EXCEPT ![p] = page2] = [pages EXCEPT ![p] = page2]
    BY <1>1
  <1>10. [pages1[p].buttons[idx] EXCEPT !.browse = second] = slots2
    BY <1>4, <1>5, <1>6 DEF slots2
  <1>11. [pages1[p] EXCEPT
             !.buttons = [pages1[p].buttons EXCEPT ![idx] = slots2]] = page2
    BY <1>4, <1>5, <1>7, <1>8
  <1>12. [pages1 EXCEPT ![p].buttons[idx].browse = second]
            = [pages1 EXCEPT ![p] = page2]
    BY <1>3, <1>10, <1>11
  <1>13. [pages EXCEPT ![p].buttons[idx].mine = first,
                       ![p].buttons[idx].browse = second]
            = [pages EXCEPT ![p] = page2]
    BY <1>2, <1>9, <1>12
  <1>. QED BY <1>13 DEF page2, buttons2, slots2, slots1, PageWith, TwoSlots,
                        TwoChanged

\* More cards do not make what was said of them wrong.
LEMMA MoreCards ==
    ASSUME PagesHonest, cards \subseteq cards', UNCHANGED pages
    PROVE  PagesHonest' /\ DOMAIN pages' = DOMAIN pages
  BY DEF PagesHonest, Honest

\* Leaving a page changes no button of it.
LEMMA PagesLeft ==
    ASSUME PagesHonest
    PROVE  \A p \in DOMAIN pages :
               IsPageShape(Left(p)) /\ Honest(Left(p), cards)
  <1>1. SUFFICES ASSUME NEW p \in DOMAIN pages
                 PROVE  IsPageShape(Left(p)) /\ Honest(Left(p), cards)
    OBVIOUS
  <1>. DEFINE P == pages[p]
              left == P.left \/ p = at
  <1>2. IsPageShape(P) /\ Honest(P, cards)
    BY DEF PagesHonest
  <1>3. Left(p) = [P EXCEPT !.left = left]
    BY DEF Left
  <1>. HIDE DEF left
  <1>4. Left(p) = [expressions |-> P.expressions, left |-> left,
                   buttons |-> P.buttons]
    BY <1>2, <1>3 DEF IsPageShape
  <1>. QED BY <1>2, <1>4 DEF IsPageShape, Honest

LEMMA NewPage ==
    ASSUME PagesHonest, cards' = cards, NEW expressions,
           pages' = Append([p \in DOMAIN pages |-> Left(p)], Page(expressions))
    PROVE  PagesHonest' /\ Len(pages') \in DOMAIN pages'
  <1>. DEFINE new == Page(expressions)
              old == [p \in DOMAIN pages |-> Left(p)]
  <1>1. IsPageShape(new) /\ Honest(new, cards)
    <2>. DEFINE buttons == [idx \in DOMAIN expressions |-> FreshButtons]
    <2>1. new = [expressions |-> expressions, left |-> FALSE, buttons |-> buttons]
      BY DEF Page
    <2>2. /\ IsSlots(FreshButtons)
          /\ FreshButtons.mine.state = "default"
      BY DEF IsSlots, IsSlot, FreshButtons, Button
    <2>3. /\ DOMAIN buttons = DOMAIN expressions
          /\ buttons = [idx \in DOMAIN buttons |-> buttons[idx]]
          /\ \A idx \in DOMAIN buttons : buttons[idx] = FreshButtons
      OBVIOUS
    <2>. HIDE DEF new, buttons
    <2>. QED BY <2>1, <2>2, <2>3 DEF IsPageShape, Honest
  <1>2. PICK n \in Nat : DOMAIN pages = 1 .. n
    BY DEF PagesHonest
  <1>3. \A p \in 1 .. n : IsPageShape(Left(p)) /\ Honest(Left(p), cards)
    BY <1>2, PagesLeft
  <1>. HIDE DEF new
  <1>4. /\ DOMAIN pages' = 1 .. n + 1
        /\ pages' = [p \in DOMAIN pages' |-> pages'[p]]
        /\ pages'[n + 1] = new
        /\ \A p \in 1 .. n : pages'[p] = Left(p)
        /\ Len(pages') = n + 1
    <2>. DEFINE S == {Left(p) : p \in 1 .. n} \cup {new}
    <2>1. old \in Seq(S) /\ new \in S /\ Len(old) = n
          /\ \A p \in 1 .. n : old[p] = Left(p)
      BY <1>2
    <2>2. pages' = Append(old, new)
      BY DEF new
    <2>. HIDE DEF old, S
    <2>. QED BY <2>1, <2>2
  <1>5. n + 1 \in Nat /\ \A p \in 1 .. n + 1 : p \in 1 .. n \/ p = n + 1
    BY <1>2
  <1>6. \A p \in DOMAIN pages' : IsPageShape(pages'[p]) /\ Honest(pages'[p], cards)
    BY <1>1, <1>3, <1>4, <1>5
  <1>. QED BY <1>4, <1>5, <1>6 DEF PagesHonest

-----------------------------------------------------------------------------
(* The steps *)

KnowsCard(check) ==
    IsCheck(check) /\ (check.answer = "yes" => check.expression \in cards)

AsksRightly(mine) ==
    IsMine(mine) /\ (mine.allowDuplicate => mine.expression \in cards)

ChecksKnow == \A check \in checks : KnowsCard(check)
MinesAskRightly == \A mine \in mines \cup exporting : AsksRightly(mine)

LEMMA CardsInvParts ==
    CardsInv <=> PagesHonest /\ AtPage /\ ChecksKnow /\ MinesAskRightly
  BY DEF CardsInv, ChecksKnow, KnowsCard, MinesAskRightly, AsksRightly

\* Nothing but the pages changes, or checks that have no answer are added.
LEMMA PagesChange ==
    ASSUME CardsInv, UNCHANGED << cards, mines, exporting >>, PagesHonest', AtPage',
           \A check \in checks' :
               check \in checks \/ (IsCheck(check) /\ check.answer # "yes")
    PROVE  CardsInv'
  BY CardsInvParts DEF CardsInv

LEMMA NewChecks ==
    ASSUME NEW idx, NEW expression
    PROVE  LET check == Check(idx, expression) IN
               IsCheck(check) /\ check.answer # "yes"
  BY DEF Check, IsCheck

LEMMA VisitStep == CardsInv /\ VisitPage => CardsInv'
  <1>1. SUFFICES ASSUME CardsInv, VisitPage PROVE CardsInv'
    OBVIOUS
  <1>2. PICK expressions \in Contents :
           /\ pages' = Append([p \in DOMAIN pages |-> Left(p)], Page(expressions))
           /\ checks' = checks \cup ChecksOf(expressions)
    BY <1>1 DEF VisitPage
  <1>3. UNCHANGED << cards, mines, exporting >>
    BY <1>1 DEF VisitPage
  <1>4. PagesHonest' /\ AtPage'
    <2>1. at' = Len(pages')
      BY <1>1 DEF VisitPage
    <2>2. PagesHonest' /\ Len(pages') \in DOMAIN pages'
      BY <1>1, <1>2, <1>3, NewPage DEF CardsInv
    <2>. QED BY <2>1, <2>2 DEF AtPage
  <1>5. \A check \in ChecksOf(expressions) : IsCheck(check) /\ check.answer # "yes"
    BY NewChecks DEF ChecksOf
  <1>. QED BY <1>1, <1>2, <1>3, <1>4, <1>5, PagesChange

LEMMA ReturnStep == CardsInv /\ ReturnTo => CardsInv'
  <1>1. SUFFICES ASSUME CardsInv, ReturnTo PROVE CardsInv'
    OBVIOUS
  <1>2. /\ pages' = [p \in DOMAIN pages |-> Left(p)]
        /\ UNCHANGED << cards, mines, exporting, checks >>
    BY <1>1 DEF ReturnTo, anki
  <1>3. \A p \in DOMAIN pages : IsPageShape(Left(p)) /\ Honest(Left(p), cards)
    BY <1>1, PagesLeft DEF CardsInv
  <1>4. PagesHonest'
    <2>1. /\ DOMAIN pages' = DOMAIN pages
          /\ pages' = [p \in DOMAIN pages' |-> pages'[p]]
          /\ \A p \in DOMAIN pages' : pages'[p] = Left(p)
      BY <1>2
    <2>2. \E n \in Nat : DOMAIN pages = 1 .. n
      BY <1>1 DEF CardsInv, PagesHonest
    <2>. QED BY <1>2, <1>3, <2>1, <2>2 DEF PagesHonest
  <1>5. AtPage'
    BY <1>1, <1>2 DEF ReturnTo, AtPage
  <1>. QED BY <1>1, <1>2, <1>4, <1>5, PagesChange

\* An answer of Flutter to the question whether there is a card.
LEMMA CheckStep == CardsInv /\ AnswerCheck => CardsInv'
  <1>1. SUFFICES ASSUME CardsInv, AnswerCheck PROVE CardsInv'
    OBVIOUS
  <1>2. PICK check \in checks :
           \E answer \in {"no"} \cup
                         IF check.expression \in cards THEN {"yes"} ELSE {} :
               checks' = (checks \ {check}) \cup {[check EXCEPT !.answer = answer]}
    BY <1>1 DEF AnswerCheck
  <1>3. PICK answer \in {"no"} \cup
                        IF check.expression \in cards THEN {"yes"} ELSE {} :
           checks' = (checks \ {check}) \cup {[check EXCEPT !.answer = answer]}
    BY <1>2
  <1>4. UNCHANGED << pages, cards, mines, exporting >>
    BY <1>1 DEF AnswerCheck
  <1>. DEFINE new == [check EXCEPT !.answer = answer]
  <1>5. /\ new = [idx |-> check.idx, expression |-> check.expression,
                  answer |-> answer]
        /\ answer = "yes" => check.expression \in cards
    BY <1>1, <1>3 DEF CardsInv, IsCheck
  <1>6. KnowsCard(new)
    BY <1>5 DEF KnowsCard, IsCheck
  <1>7. ChecksKnow'
    <2>1. \A c \in checks' : KnowsCard(c)
      BY <1>1, <1>3, <1>6 DEF CardsInv, KnowsCard
    <2>. QED BY <1>4, <2>1 DEF ChecksKnow, KnowsCard
  <1>8. at' = at
    BY <1>1 DEF AnswerCheck
  <1>9. PagesHonest' /\ AtPage' /\ MinesAskRightly'
    BY <1>1, <1>4, <1>8 DEF CardsInv, PagesHonest, AtPage, MinesAskRightly,
                            AsksRightly
  <1>. QED BY <1>7, <1>9 DEF CardsInv, ChecksKnow, KnowsCard, MinesAskRightly,
                             AsksRightly

\* The answer is shown at the entry asked for: its expression was compared.
LEMMA RefreshStep == CardsInv /\ RefreshAnkiState => CardsInv'
  <1>1. SUFFICES ASSUME CardsInv, RefreshAnkiState PROVE CardsInv'
    OBVIOUS
  <1>2. PICK check \in checks :
           /\ checks' = checks \ {check}
           /\ pages' = IF ~StillThere(check.idx, check.expression) THEN pages
                 ELSE [pages EXCEPT
                       ![at].buttons[check.idx].mine =
                           Button(IF check.answer = "yes" THEN "duplicate"
                                  ELSE "default", TRUE),
                       ![at].buttons[check.idx].browse =
                           Button("default", check.answer = "yes")]
    BY <1>1 DEF RefreshAnkiState
  <1>3. UNCHANGED << cards, mines, exporting >>
    BY <1>1 DEF RefreshAnkiState
  <1>4. PagesHonest' /\ DOMAIN pages' = DOMAIN pages
    <2>1. CASE ~StillThere(check.idx, check.expression) \/ at \notin DOMAIN pages
      <3>1. pages' = pages
        BY <1>1, <1>2, <2>1 DEF CardsInv, PagesHonest
      <3>. QED BY <1>1, <1>3, <3>1, MoreCards DEF CardsInv
    <2>2. CASE StillThere(check.idx, check.expression) /\ at \in DOMAIN pages
      <3>. DEFINE idx == check.idx
                  first == Button(IF check.answer = "yes" THEN "duplicate"
                                  ELSE "default", TRUE)
                  second == Button("default", check.answer = "yes")
      <3>1. pages[at].expressions[idx] = check.expression
        <4>1. at # 0
          BY <1>1, <2>2 DEF CardsInv, PagesHonest
        <4>. QED BY <2>2, <4>1 DEF StillThere, Expressions
      <3>2. pages' = TwoChanged(at, idx, first, second)
        BY <1>2, <2>2, Zenon DEF TwoChanged
      <3>3. /\ IsSlot(first)
            /\ first.state = "duplicate" => check.answer = "yes"
        BY DEF Button, IsSlot
      <3>. HIDE DEF first, second
      <3>. DEFINE slots == TwoSlots(pages[at].buttons[idx], first, second)
      <3>4. CASE idx \notin DOMAIN pages[at].buttons
        <4>1. /\ pages[at].buttons = [k \in DOMAIN pages[at].buttons |->
                                         pages[at].buttons[k]]
              /\ pages[at] = [expressions |-> pages[at].expressions,
                              left |-> pages[at].left,
                              buttons |-> pages[at].buttons]
          BY <1>1, <2>2 DEF CardsInv, PagesHonest, IsPageShape
        <4>2. ASSUME NEW b
              PROVE  [pages[at].buttons EXCEPT ![idx] = b] = pages[at].buttons
          BY <3>4, <4>1
        <4>3. [pages[at] EXCEPT !.buttons = pages[at].buttons] = pages[at]
          BY <4>1
        <4>4. [pages EXCEPT ![at].buttons[idx].mine = first] = pages
          BY <1>1, <2>2, <4>2, <4>3 DEF CardsInv, PagesHonest
        <4>5. [pages EXCEPT ![at].buttons[idx].browse = second] = pages
          BY <1>1, <2>2, <4>2, <4>3 DEF CardsInv, PagesHonest
        <4>6. pages' = pages
          BY <3>2, <4>4, <4>5 DEF TwoChanged
        <4>. QED BY <1>1, <1>3, <4>6, MoreCards DEF CardsInv
      <3>5. CASE idx \in DOMAIN pages[at].buttons
        <4>1. /\ IsSlots(pages[at].buttons[idx])
              /\ IsPageShape(pages[at])
          BY <1>1, <2>2, <3>5 DEF CardsInv, PagesHonest, IsPageShape
        <4>2. slots = [mine |-> first, browse |-> second,
                       audio |-> pages[at].buttons[idx].audio]
          <5>. DEFINE one == [pages[at].buttons[idx] EXCEPT !.mine = first]
          <5>1. one = [mine |-> first, browse |-> pages[at].buttons[idx].browse,
                       audio |-> pages[at].buttons[idx].audio]
            BY <4>1 DEF IsSlots
          <5>. HIDE DEF one
          <5>2. [one EXCEPT !.browse = second] =
                    [mine |-> first, browse |-> second,
                     audio |-> pages[at].buttons[idx].audio]
            BY <5>1
          <5>. QED BY <5>2 DEF one, TwoSlots
        <4>3. pages' = [pages EXCEPT ![at] = PageWith(at, idx, slots)]
          BY <2>2, <3>2, <3>5, <4>1, SlotsTwice
        <4>. HIDE DEF slots
        <4>4. IsSlots(slots) /\ slots.mine = first
          BY <3>3, <4>2 DEF IsSlots
        <4>5. slots.mine.state = "duplicate" => pages[at].expressions[idx] \in cards
          BY <1>1, <3>1, <3>3, <4>4 DEF CardsInv
        <4>. QED BY <1>1, <1>3, <2>2, <4>3, <4>4, <4>5, SlotsChange DEF CardsInv
      <3>. QED BY <3>4, <3>5
    <2>. QED BY <2>1, <2>2
  <1>5. AtPage'
    BY <1>1, <1>4 DEF RefreshAnkiState, CardsInv, AtPage
  <1>. QED BY <1>1, <1>2, <1>3, <1>4, <1>5, PagesChange

\* The slots of an entry whose add button is disabled.
Disabled(slots) == [slots EXCEPT !.mine.enabled = FALSE]

LEMMA MineDisabled ==
    ASSUME NEW slots, IsSlots(slots)
    PROVE  IsSlots(Disabled(slots))
           /\ Disabled(slots).mine.state = slots.mine.state
  <1>. DEFINE says == slots.mine.state
              was == Button(says, slots.mine.enabled)
              off == Button(says, FALSE)
              browse == slots.browse
              play == slots.audio
              new == [slots EXCEPT !.mine.enabled = FALSE]
  <1>1. ASSUME NEW all
        PROVE  [all EXCEPT !.mine.enabled = FALSE] =
               [all EXCEPT !.mine = [all.mine EXCEPT !.enabled = FALSE]]
    OBVIOUS
  <1>2. ASSUME NEW s, NEW e
        PROVE  [[state |-> s, enabled |-> e] EXCEPT !.enabled = FALSE]
               = [state |-> s, enabled |-> FALSE]
    <2>1. ASSUME NEW v
          PROVE  [[state |-> s, enabled |-> e] EXCEPT !.enabled = v]
                 = [state |-> s, enabled |-> v]
      OBVIOUS
    <2>. QED BY <2>1
  <1>3. [was EXCEPT !.enabled = FALSE] = off
    BY <1>2 DEF Button
  <1>4. slots.mine = was
    BY DEF IsSlots, IsSlot
  <1>5. off.state = says /\ IsSlot(off)
    BY DEF IsSlot, Button
  <1>6. slots = [mine |-> slots.mine, browse |-> browse, audio |-> play]
    BY DEF IsSlots
  <1>. HIDE DEF was, off, says, browse, play
  <1>7. slots = [mine |-> was, browse |-> browse, audio |-> play]
    BY ONLY <1>4, <1>6
  <1>8. new = [slots EXCEPT !.mine = off]
    BY <1>1, <1>3, <1>4, Zenon
  <1>9. [[mine |-> was, browse |-> browse, audio |-> play] EXCEPT !.mine = off]
        = [mine |-> off, browse |-> browse, audio |-> play]
    BY ONLY <1>1
  <1>10. new = [mine |-> off, browse |-> browse, audio |-> play]
    BY <1>7, <1>8, <1>9, Zenon
  <1>. HIDE DEF new
  <1>11. IsSlots(new) /\ new.mine.state = says
    BY ONLY <1>5, <1>10 DEF IsSlots
  <1>. QED BY <1>11, Zenon DEF new, says, Disabled

\* A press asks for a second card where the button says there is a first one.
LEMMA PressStep == CardsInv /\ PressMine => CardsInv'
  <1>1. SUFFICES ASSUME CardsInv, PressMine PROVE CardsInv'
    OBVIOUS
  <1>2. PICK idx \in DOMAIN Expressions :
           /\ pages' = [pages EXCEPT ![at].buttons[idx].mine.enabled = FALSE]
           /\ mines' = mines \cup
                  {[idx |-> idx, expression |-> Expressions[idx],
                    allowDuplicate |-> Buttons(idx).mine.state = "duplicate",
                    press |-> presses, answer |-> "none"]}
    BY <1>1 DEF PressMine
  <1>3. UNCHANGED << cards, exporting, checks >>
    BY <1>1 DEF PressMine
  <1>. DEFINE duplicate == Buttons(idx).mine.state = "duplicate"
              new == [idx |-> idx, expression |-> Expressions[idx],
                      allowDuplicate |-> duplicate,
                      press |-> presses, answer |-> "none"]
  <1>4. /\ at \in DOMAIN pages /\ Expressions = pages[at].expressions
        /\ idx \in DOMAIN pages[at].buttons
        /\ IsPageShape(pages[at]) /\ Honest(pages[at], cards)
    <2>1. at # 0 /\ Expressions = pages[at].expressions
      BY <1>2 DEF Expressions
    <2>. QED BY <1>1, <1>2, <2>1 DEF CardsInv, AtPage, PagesHonest, IsPageShape
  <1>5. duplicate => Expressions[idx] \in cards
    BY <1>4 DEF Honest, Buttons
  <1>6. AsksRightly(new)
    <2>. HIDE DEF duplicate
    <2>. QED BY <1>5 DEF AsksRightly, IsMine
  <1>7. mines' = mines \cup {new}
    BY <1>2
  <1>. HIDE DEF new
  <1>8. MinesAskRightly'
    BY <1>1, <1>3, <1>6, <1>7 DEF CardsInv, MinesAskRightly, AsksRightly
  <1>9. PagesHonest' /\ DOMAIN pages' = DOMAIN pages
    <2>. DEFINE old == pages[at].buttons[idx]
                slots == Disabled(old)
    <2>1. pages' = [pages EXCEPT ![at] = PageWith(at, idx, slots)]
      BY <1>2, <1>4 DEF PageWith, Disabled
    <2>2. IsSlots(slots) /\ slots.mine.state = old.mine.state
      <3>1. IsSlots(old)
        BY <1>4 DEF IsPageShape
      <3>. HIDE DEF old
      <3>. QED BY <3>1, MineDisabled
    <2>3. slots.mine.state = "duplicate" => pages[at].expressions[idx] \in cards
      BY <1>4, <2>2 DEF Honest
    <2>. HIDE DEF slots
    <2>. QED BY <1>1, <1>3, <1>4, <2>1, <2>2, <2>3, SlotsChange DEF CardsInv
  <1>10. AtPage'
    BY <1>1, <1>9 DEF PressMine, CardsInv, AtPage
  <1>. QED BY <1>1, <1>3, <1>8, <1>9, <1>10
           DEF CardsInv, MinesAskRightly, AsksRightly

LEMMA CheckAdded ==
    ASSUME CardsInv, UNCHANGED << cards, exporting, mines >>,
           PagesHonest', AtPage', NEW idx, NEW expression,
           checks' = checks \cup {Check(idx, expression)}
    PROVE  CardsInv'
  BY NewChecks, PagesChange

\* Flutter's answer to a press does not change what was asked.
LEMMA MineAnswered ==
    ASSUME NEW mine, AsksRightly(mine), NEW answer
    PROVE  LET new == [mine EXCEPT !.answer = answer] IN
               /\ AsksRightly(new)
               /\ new.allowDuplicate = mine.allowDuplicate
               /\ new.expression = mine.expression
  <1>. DEFINE new == [mine EXCEPT !.answer = answer]
  <1>1. new = [idx |-> mine.idx, expression |-> mine.expression,
               allowDuplicate |-> mine.allowDuplicate, press |-> mine.press,
               answer |-> answer]
    BY DEF AsksRightly, IsMine
  <1>. HIDE DEF new
  <1>2. AsksRightly(new) /\ new.allowDuplicate = mine.allowDuplicate
        /\ new.expression = mine.expression
    BY <1>1 DEF AsksRightly, IsMine
  <1>. QED BY <1>2 DEF new

LEMMA ExportStarts == CardsInv /\ StartExport => CardsInv'
  <1>1. SUFFICES ASSUME CardsInv, StartExport PROVE CardsInv'
    OBVIOUS
  <1>2. PICK mine \in mines :
           \/ /\ mines' = (mines \ {mine}) \cup {[mine EXCEPT !.answer = "no"]}
              /\ exporting' = exporting
           \/ exporting' = {mine} /\ mines' = mines
    BY <1>1 DEF StartExport
  <1>3. UNCHANGED << pages, at, cards, checks >>
    BY <1>1 DEF StartExport
  <1>4. \A m \in mines \cup exporting : AsksRightly(m)
    BY <1>1 DEF CardsInv, AsksRightly
  <1>5. AsksRightly([mine EXCEPT !.answer = "no"])
    BY <1>4, MineAnswered
  <1>6. \A m \in mines' \cup exporting' : AsksRightly(m)
    BY <1>2, <1>4, <1>5
  <1>. QED BY <1>1, <1>3, <1>6
           DEF CardsInv, PagesHonest, AtPage, AsksRightly

LEMMA ExportFinishes == CardsInv /\ FinishExport => CardsInv'
  <1>1. SUFFICES ASSUME CardsInv, FinishExport PROVE CardsInv'
    OBVIOUS
  <1>2. PICK mine \in exporting, answer \in {"yes", "no"} :
           /\ mines' = (mines \ {mine}) \cup {[mine EXCEPT !.answer = answer]}
           /\ exporting' = {} /\ cards \subseteq cards'
    BY <1>1 DEF FinishExport
  <1>3. UNCHANGED << pages, at, checks >>
    BY <1>1 DEF FinishExport
  <1>4. \A m \in mines \cup exporting : AsksRightly(m)
    BY <1>1 DEF CardsInv, AsksRightly
  <1>5. AsksRightly([mine EXCEPT !.answer = answer])
    BY <1>2, <1>4, MineAnswered
  <1>6. \A m \in mines' \cup exporting' : AsksRightly(m)
    BY <1>2, <1>4, <1>5
  <1>7. MinesAskRightly'
    BY <1>2, <1>6 DEF MinesAskRightly, AsksRightly
  <1>8. PagesHonest' /\ DOMAIN pages' = DOMAIN pages
    BY <1>1, <1>2, <1>3, MoreCards DEF CardsInv
  <1>. QED BY <1>1, <1>2, <1>3, <1>7, <1>8
           DEF CardsInv, AtPage, MinesAskRightly, AsksRightly

\* Steps that ask whether there is a card, and show nothing yet.
LEMMA AsksAgain == CardsInv /\ Mined => CardsInv'
  <1>1. SUFFICES ASSUME CardsInv, Mined PROVE CardsInv'
    OBVIOUS
  <1>2. PICK mine \in mines :
           /\ mines' = mines \ {mine}
           /\ \/ checks' = checks \cup {Check(mine.idx, mine.expression)}
              \/ checks' = checks
    BY <1>1 DEF Mined
  <1>3. UNCHANGED << pages, at, cards, exporting >>
    BY <1>1 DEF Mined
  <1>4. \A check \in checks' :
           IsCheck(check) /\ (check.answer = "yes" => check.expression \in cards)
    BY <1>1, <1>2, NewChecks DEF CardsInv
  <1>. QED BY <1>1, <1>2, <1>3, <1>4 DEF CardsInv, PagesHonest, AtPage

\* Steps that change another button at most.
LEMMA OtherButtons ==
    ASSUME CardsInv, UNCHANGED << at, cards, checks, mines, exporting >>,
           \/ UNCHANGED pages
           \/ \E p, idx, kind, button :
                  kind # "mine" /\ pages' = UpdateSlot(pages, p, idx, kind, button)
    PROVE  CardsInv'
  <1>1. PagesHonest' /\ DOMAIN pages' = DOMAIN pages
    BY OtherSlot, MoreCards DEF CardsInv
  <1>2. AtPage'
    BY <1>1 DEF AtPage, CardsInv
  <1>. QED BY <1>1, <1>2, PagesChange

LEMMA TimerStep == CardsInv /\ TimerFires => CardsInv'
  <1>1. SUFFICES ASSUME CardsInv, TimerFires PROVE CardsInv'
    OBVIOUS
  <1>2. UNCHANGED << at, cards, mines, exporting >>
    BY <1>1 DEF TimerFires
  <1>3. PICK timer \in timers :
           \/ /\ checks' = checks \cup {Check(timer.idx, timer.expression)}
              /\ pages' = pages
           \/ /\ timer.kind # "mine" /\ checks' = checks
              /\ \E button : pages' = UpdateSlot(pages, timer.page, timer.idx,
                                                 timer.kind, button)
    BY <1>1 DEF TimerFires
  <1>4. CASE /\ checks' = checks \cup {Check(timer.idx, timer.expression)}
             /\ pages' = pages
    BY <1>1, <1>2, <1>4, CheckAdded DEF CardsInv, PagesHonest, AtPage
  <1>5. CASE /\ timer.kind # "mine" /\ checks' = checks
             /\ \E button : pages' = UpdateSlot(pages, timer.page, timer.idx,
                                                timer.kind, button)
    BY <1>1, <1>2, <1>5, OtherButtons
  <1>. QED BY <1>3, <1>4, <1>5

LEMMA CardsStep == CardsInv /\ [ButtonsNext]_buttonVars => CardsInv'
  <1>1. SUFFICES ASSUME CardsInv, [ButtonsNext]_buttonVars PROVE CardsInv'
    OBVIOUS
  <1>2. CASE PressBrowse \/ PressAudio
    <2>1. \E p, idx, kind, button :
             kind # "mine" /\ pages' = UpdateSlot(pages, p, idx, kind, button)
      BY <1>2 DEF PressBrowse, PressAudio
    <2>2. UNCHANGED << at, cards, checks, mines, exporting >>
      BY <1>2 DEF PressBrowse, PressAudio, anki
    <2>. QED BY <1>1, <2>1, <2>2, OtherButtons
  <1>3. CASE Browsed \/ PlayCached
    <2>1. \E p, idx, kind, button :
             kind # "mine" /\ pages' = UpdateSlot(pages, p, idx, kind, button)
      BY <1>3 DEF Browsed, PlayCached, PlayEnds
    <2>2. UNCHANGED << at, cards, checks, mines, exporting >>
      BY <1>3 DEF Browsed, PlayCached, anki
    <2>. QED BY <1>1, <2>1, <2>2, OtherButtons
  <1>4. CASE ResolveSources \/ UNCHANGED buttonVars
    <2>1. UNCHANGED << pages, at, cards, checks, mines, exporting >>
      BY <1>4 DEF ResolveSources, anki, buttonVars
    <2>. QED BY <1>1, <2>1, OtherButtons
  <1>5. CASE PlaySource
    <2>1. \/ UNCHANGED pages
          \/ \E p, idx, kind, button :
                 kind # "mine" /\ pages' = UpdateSlot(pages, p, idx, kind, button)
      BY <1>5 DEF PlaySource, PlayEnds
    <2>2. UNCHANGED << at, cards, checks, mines, exporting >>
      BY <1>5 DEF PlaySource, anki
    <2>. QED BY <1>1, <2>1, <2>2, OtherButtons
  <1>. QED BY <1>1, <1>2, <1>3, <1>4, <1>5, VisitStep, ReturnStep, CheckStep,
              RefreshStep, PressStep, ExportStarts, ExportFinishes, AsksAgain,
              TimerStep DEF ButtonsNext, Answers

\* A step asks for a second card only in an answered or a new press, and both
\* know that there is a first card.
LEMMA NoDuplicateStep ==
    CardsInv /\ [ButtonsNext]_buttonVars =>
        [\A mine \in mines' \ mines :
             mine.allowDuplicate => mine.expression \in cards]_buttonVars
  <1>1. SUFFICES ASSUME CardsInv, ButtonsNext, NEW mine \in mines' \ mines,
                        mine.allowDuplicate
                 PROVE  mine.expression \in cards
    OBVIOUS
  <1>2. CASE UNCHANGED cards
    <2>1. CardsInv'
      BY <1>1, CardsStep
    <2>. QED BY <1>1, <1>2, <2>1 DEF CardsInv
  <1>3. CASE FinishExport
    <2>1. PICK old \in exporting, answer \in {"yes", "no"} :
             mines' = (mines \ {old}) \cup {[old EXCEPT !.answer = answer]}
      BY <1>3 DEF FinishExport
    <2>2. AsksRightly(old)
      BY <1>1, <2>1 DEF CardsInv, AsksRightly
    <2>3. AsksRightly([old EXCEPT !.answer = answer])
      BY <2>2, MineAnswered
    <2>4. mine = [old EXCEPT !.answer = answer]
      BY <1>1, <2>1
    <2>. QED BY <1>1, <2>3, <2>4 DEF AsksRightly
  <1>4. CASE ~FinishExport
    <2>1. UNCHANGED cards
      BY <1>1, <1>4 DEF ButtonsNext, Answers, VisitPage, ReturnTo, PressMine,
                        PressBrowse, PressAudio, AnswerCheck, RefreshAnkiState,
                        StartExport, Mined, Browsed, ResolveSources, PlaySource,
                        PlayCached, TimerFires, anki
    <2>. QED BY <1>2, <2>1
  <1>. QED BY <1>3, <1>4

LEMMA InitCards == ButtonsInit => CardsInv
  BY DEF ButtonsInit, CardsInv, PagesHonest, AtPage

\* An answer is shown only at the entry it was asked for (refreshEntryAnkiState
\* compares the expression), so that the button says "duplicate" of nothing
\* else, and only its press lets Flutter add a card there is already.
THEOREM SecondCardsAreKnown == ButtonsSpec => NoSilentDuplicate
  <1>1. CardsInv /\ [ButtonsNext]_buttonVars =>
            [\A mine \in mines' \ mines :
                 mine.allowDuplicate => mine.expression \in cards]_buttonVars
    BY NoDuplicateStep
  <1>. QED BY <1>1, InitCards, CardsStep, PTL DEF ButtonsSpec, NoSilentDuplicate

-----------------------------------------------------------------------------
(* Induction over numbers, and recursive functions *)

LEMMA LeastOf ==
    ASSUME NEW T, T \subseteq Nat, T # {}
    PROVE  \E n \in T : \A m \in T : n <= m
  <1>1. \E x \in T : \A y \in T : ~ (<<y, x>> \in OpToRel(<, Nat))
    BY NatLessThanWellFounded, WFMin
  <1>2. ASSUME NEW x \in Nat, NEW y \in Nat
        PROVE  <<y, x>> \in OpToRel(<, Nat) <=> y < x
    BY DEF OpToRel
  <1>3. PICK x \in T : \A y \in T : ~ (<<y, x>> \in OpToRel(<, Nat))
    BY <1>1
  <1>4. \A y \in T : ~ (y < x)
    BY <1>2, <1>3
  <1>. QED BY <1>4

LEMMA SetInduction ==
    ASSUME NEW S, 0 \in S, \A n \in Nat : n \in S => n + 1 \in S
    PROVE  Nat \subseteq S
  <1>1. SUFFICES ASSUME Nat \ S # {} PROVE FALSE
    OBVIOUS
  <1>2. PICK n \in Nat \ S : \A m \in Nat \ S : n <= m
    BY <1>1, LeastOf
  <1>3. n # 0 /\ n - 1 \in Nat /\ ~(n <= n - 1)
    BY <1>2
  <1>4. n - 1 \in S
    BY <1>2, <1>3
  <1>5. (n - 1) + 1 = n
    BY <1>2
  <1>. QED BY <1>2, <1>3, <1>4, <1>5

LEMMA GreatestOf ==
    ASSUME NEW T, NEW b \in Nat, T \subseteq 1 .. b, T # {}
    PROVE  \E n \in T : \A m \in T : m <= n
  <1>. DEFINE U == { k \in Nat : b - k \in T }
  <1>1. U # {} /\ U \subseteq Nat
    <2>1. PICK n \in T : TRUE
      OBVIOUS
    <2>2. b - n \in Nat /\ b - (b - n) = n
      BY <2>1
    <2>. QED BY <2>1, <2>2
  <1>2. PICK k \in U : \A j \in U : k <= j
    <2>. HIDE DEF U
    <2>. QED BY <1>1, LeastOf
  <1>3. b - k \in T
    BY <1>2
  <1>4. ASSUME NEW m \in T PROVE m <= b - k
    <2>1. b - m \in U
      BY <1>4
    <2>2. k <= b - m
      BY <1>2, <2>1
    <2>. QED BY <1>2, <1>4, <2>2
  <1>. QED BY <1>3, <1>4

Stays(step, X) == \A x \in X, n \in Nat : step[<< x, n >>] \in X

Steps(f, L, X, base, step) ==
    /\ f \in [0 .. L -> X]
    /\ f[0] = base
    /\ \A n \in 1 .. L : f[n] = step[<< f[n - 1], n >>]

\* A recursive function with values in a set exists.
LEMMA Recursion ==
    ASSUME NEW L \in Nat, NEW X, NEW base \in X, NEW step, Stays(step, X)
    PROVE  \E f : Steps(f, L, X, base, step)
  <1>. USE DEF Stays
  <1>. DEFINE P(m, f) ==
                /\ f \in [0 .. m -> X]
                /\ f[0] = base
                /\ \A n \in 1 .. m : f[n] = step[<< f[n - 1], n >>]
              S == { m \in Nat : \E f : P(m, f) }
  <1>1. 0 \in S
    <2>1. P(0, [n \in 0 .. 0 |-> base])
      OBVIOUS
    <2>. QED BY <2>1
  <1>2. ASSUME NEW m \in Nat, m \in S
        PROVE  m + 1 \in S
    <2>1. PICK f : P(m, f)
      BY <1>2
    <2>. DEFINE g == [n \in 0 .. m + 1 |->
                        IF n <= m THEN f[n] ELSE step[<< f[m], m + 1 >>]]
    <2>2. g \in [0 .. m + 1 -> X] /\ g[0] = base
      <3>1. \A n \in 0 .. m + 1 : g[n] \in X
        <4>1. ASSUME NEW n \in 0 .. m + 1 PROVE g[n] \in X
          <5>1. CASE n <= m
            BY <2>1, <5>1
          <5>2. CASE ~(n <= m)
            <6>1. f[m] \in X /\ m + 1 \in Nat
              BY <2>1
            <6>. QED BY <5>2, <6>1
          <5>. QED BY <5>1, <5>2
        <4>. QED BY <4>1
      <3>. QED BY <2>1, <3>1
    <2>3. ASSUME NEW n \in 1 .. m + 1
          PROVE  g[n] = step[<< g[n - 1], n >>]
      <3>1. CASE n \in 1 .. m
        <4>1. g[n] = f[n] /\ g[n - 1] = f[n - 1]
          BY <3>1
        <4>2. f[n] = step[<< f[n - 1], n >>]
          BY <2>1, <3>1
        <4>. HIDE DEF g
        <4>. QED BY <4>1, <4>2
      <3>2. CASE n = m + 1
        <4>1. g[n] = step[<< f[m], m + 1 >>] /\ n - 1 = m /\ g[m] = f[m]
          BY <3>2
        <4>. HIDE DEF g
        <4>. QED BY <3>2, <4>1
      <3>. QED BY <3>1, <3>2
    <2>. HIDE DEF g
    <2>4. P(m + 1, g)
      BY <2>2, <2>3
    <2>5. \E h : P(m + 1, h)
      BY <2>4
    <2>. HIDE DEF P
    <2>. QED BY <2>5
  <1>. HIDE DEF P
  <1>3. L \in S
    <2>. HIDE DEF S
    <2>. QED BY <1>1, <1>2, SetInduction
  <1>4. PICK f : P(L, f)
    BY <1>3
  <1>. QED BY <1>4 DEF P, Steps

-----------------------------------------------------------------------------
(* Sequences *)

LEMMA SubSeqFacts ==
    ASSUME NEW S, NEW s \in Seq(S), NEW a \in Int, NEW b \in Int,
           1 <= a, a <= b + 1, b <= Len(s)
    PROVE  /\ SubSeq(s, a, b) \in Seq(S)
           /\ Len(SubSeq(s, a, b)) = b - a + 1
           /\ \A i \in 1 .. b - a + 1 : SubSeq(s, a, b)[i] = s[a + i - 1]
  OBVIOUS

LEMMA SubSeqTwice ==
    ASSUME NEW S, NEW s \in Seq(S), NEW f \in Int, NEW l \in Int,
           NEW a \in Int, NEW b \in Int,
           1 <= f, f <= a, a <= b, b <= l, l <= Len(s)
    PROVE  SubSeq(SubSeq(s, f, l), a - f + 1, b - f + 1) = SubSeq(s, a, b)
  <1>. DEFINE t == SubSeq(s, f, l)
  <1>1. /\ t \in Seq(S) /\ Len(t) = l - f + 1
        /\ \A i \in 1 .. l - f + 1 : t[i] = s[f + i - 1]
    BY SubSeqFacts
  <1>. HIDE DEF t
  <1>. DEFINE u == SubSeq(t, a - f + 1, b - f + 1)
              v == SubSeq(s, a, b)
  <1>2. /\ u \in Seq(S) /\ Len(u) = b - a + 1
        /\ \A i \in 1 .. b - a + 1 : u[i] = t[(a - f + 1) + i - 1]
    BY <1>1, SubSeqFacts
  <1>3. /\ v \in Seq(S) /\ Len(v) = b - a + 1
        /\ \A i \in 1 .. b - a + 1 : v[i] = s[a + i - 1]
    BY SubSeqFacts
  <1>. HIDE DEF u, v
  <1>4. ASSUME NEW i \in 1 .. b - a + 1
        PROVE  u[i] = v[i]
    <2>1. (a - f + 1) + i - 1 \in 1 .. l - f + 1
          /\ f + ((a - f + 1) + i - 1) - 1 = a + i - 1
      BY <1>4
    <2>. QED BY <1>1, <1>2, <1>3, <2>1
  <1>5. u = v
    <2>. DEFINE n == b - a + 1
    <2>1. u \in [1 .. n -> S] /\ v \in [1 .. n -> S]
      BY <1>2, <1>3
    <2>2. \A i \in 1 .. n : u[i] = v[i]
      BY <1>4
    <2>. HIDE DEF n
    <2>3. u = [i \in 1 .. n |-> u[i]] /\ v = [i \in 1 .. n |-> v[i]]
      BY <2>1
    <2>4. [i \in 1 .. n |-> u[i]] = [i \in 1 .. n |-> v[i]]
      BY <2>2
    <2>. QED BY <2>3, <2>4
  <1>. QED BY <1>5 DEF u, v, t

LEMMA OccursAt ==
    ASSUME NEW S, NEW text \in Seq(S), NEW a \in Int, NEW b \in Int,
           1 <= a, a <= b + 1, b <= Len(text)
    PROVE  Occurs(SubSeq(text, a, b), text)
  <1>1. Len(SubSeq(text, a, b)) = b - a + 1
    BY SubSeqFacts
  <1>2. a - 1 \in 0 .. Len(text) - (b - a + 1)
    OBVIOUS
  <1>3. (a - 1) + 1 = a /\ (a - 1) + (b - a + 1) = b
    OBVIOUS
  <1>4. SubSeq(text, (a - 1) + 1, (a - 1) + Len(SubSeq(text, a, b)))
          = SubSeq(text, a, b)
    BY <1>1, <1>3
  <1>. QED BY <1>1, <1>2, <1>4 DEF Occurs

\* What Least finds.
First(found, to) ==
    IF found = {} THEN to + 1
    ELSE CHOOSE k \in found : \A j \in found : k <= j

LEMMA FirstFacts ==
    ASSUME NEW from \in Nat, NEW to \in Int, from <= to + 1,
           NEW found, found \subseteq from .. to
    PROVE  /\ First(found, to) \in from .. to + 1
           /\ First(found, to) # to + 1 => First(found, to) \in found
           /\ \A j \in from .. First(found, to) - 1 : j \notin found
  <1>. DEFINE m == First(found, to)
  <1>0. m = IF found = {} THEN to + 1
            ELSE CHOOSE k \in found : \A j \in found : k <= j
    BY DEF First
  <1>. HIDE DEF m
  <1>1. CASE found = {}
    <2>1. m = to + 1
      BY <1>0, <1>1
    <2>. QED BY <1>1, <2>1 DEF m
  <1>2. CASE found # {}
    <2>1. found \subseteq Nat
      OBVIOUS
    <2>2. \E k \in found : \A j \in found : k <= j
      BY <1>2, <2>1, LeastOf
    <2>3. m \in found /\ \A j \in found : m <= j
      BY <1>0, <1>2, <2>2
    <2>4. m \in from .. to /\ m \in Nat
      BY <2>1, <2>3
    <2>5. \A j \in from .. m - 1 : ~(m <= j)
      BY <2>4
    <2>. QED BY <2>3, <2>4, <2>5 DEF m
  <1>. QED BY <1>1, <1>2

\* trim() keeps whatever lies between characters it does not take away.
LEMMA TrimKeeps ==
    ASSUME NEW S, NEW text \in Seq(S), NEW a \in Int, NEW b \in Int,
           1 <= a, a <= b, b <= Len(text),
           text[a] \notin SpaceChars, text[b] \notin SpaceChars
    PROVE  \E f \in 1 .. a, l \in b .. Len(text) : Trim(text) = SubSeq(text, f, l)
  <1>. DEFINE found == { k \in 1 .. Len(text) : text[k] \notin SpaceChars }
              from == IF found = {} THEN Len(text) + 1
                      ELSE CHOOSE k \in found : \A j \in found : k <= j
              to == CHOOSE k \in found : \A j \in found : j <= k
  <1>1. Len(text) \in Nat /\ DOMAIN text = 1 .. Len(text)
        /\ a \in found /\ b \in found
    OBVIOUS
  <1>2. Trim(text) = SubSeq(text, from, to)
    <2>1. { k \in DOMAIN text : text[k] \notin SpaceChars } = found
          /\ found # {}
      BY <1>1
    <2>2. Trim(text) =
            IF { k \in DOMAIN text : text[k] \notin SpaceChars } = {} THEN << >>
            ELSE SubSeq(text, from,
                        CHOOSE k \in { k \in DOMAIN text : text[k] \notin SpaceChars } :
                            \A j \in { k_1 \in DOMAIN text : text[k_1] \notin SpaceChars } :
                                j <= k)
      BY DEF Trim, Least
    <2>. HIDE DEF found
    <2>. QED BY <2>1, <2>2
  <1>3. from \in 1 .. a
    <2>0. found \subseteq Nat
      OBVIOUS
    <2>. HIDE DEF found
    <2>1. \E k \in found : \A j \in found : k <= j
      BY <1>1, <2>0, LeastOf
    <2>2. from \in found /\ \A j \in found : from <= j
      BY <1>1, <2>1
    <2>3. from \in 1 .. Len(text)
      BY <2>2 DEF found
    <2>4. from <= a
      BY <1>1, <2>2
    <2>. HIDE DEF from
    <2>. QED BY <2>3, <2>4
  <1>4. to \in b .. Len(text)
    <2>1. \E k \in found : \A j \in found : j <= k
      BY <1>1, GreatestOf
    <2>. HIDE DEF found
    <2>2. to \in found /\ \A j \in found : j <= to
      BY <1>1, <2>1
    <2>3. to \in 1 .. Len(text)
      BY <2>2 DEF found
    <2>4. b <= to
      BY <1>1, <2>2
    <2>. HIDE DEF to
    <2>. QED BY <2>3, <2>4
  <1>. HIDE DEF from, to
  <1>. QED BY <1>2, <1>3, <1>4

-----------------------------------------------------------------------------
(* The places of a text *)

LEMMA FlattenIsSeq ==
    ASSUME NEW S, NEW seqs \in Seq(Seq(S))
    PROVE  FlattenSeq(seqs) \in Seq(S)
  <1>1. CASE Len(seqs) = 0
    <2>1. seqs = << >>
      BY <1>1
    <2>. QED BY <1>1, <2>1 DEF FlattenSeq
  <1>2. CASE Len(seqs) # 0
    <2>. DEFINE L == Len(seqs)
                P(f) == f = [i \in 1 .. L |->
                               IF i = 1 THEN seqs[i] ELSE f[i - 1] \o seqs[i]]
                g == CHOOSE f : P(f)
    <2>1. L \in Nat /\ L >= 1 /\ \A i \in 1 .. L : seqs[i] \in Seq(S)
      BY <1>2
    <2>2. FlattenSeq(seqs) = g[L]
      BY <1>2 DEF FlattenSeq
    <2>3. \E f : P(f)
      <3>. DEFINE step == [x \in Seq(S) \X Nat |->
                            IF x[2] + 1 \in 1 .. L THEN x[1] \o seqs[x[2] + 1]
                            ELSE x[1]]
      <3>1. Stays(step, Seq(S))
        BY <2>1 DEF Stays
      <3>2. seqs[1] \in Seq(S) /\ L - 1 \in Nat
        BY <2>1
      <3>3a. PICK f : Steps(f, L - 1, Seq(S), seqs[1], step)
        <4>. HIDE DEF step, L
        <4>. QED BY <3>1, <3>2, Recursion
      <3>3. /\ f \in [0 .. L - 1 -> Seq(S)]
            /\ f[0] = seqs[1]
            /\ \A n \in 1 .. L - 1 : f[n] = step[<< f[n - 1], n >>]
        BY <3>3a DEF Steps
      <3>4. ASSUME NEW n \in 1 .. L - 1
            PROVE  f[n] = f[n - 1] \o seqs[n + 1]
        <4>1. n - 1 \in 0 .. L - 1 /\ n \in Nat /\ n + 1 \in 1 .. L
          BY <2>1
        <4>1a. f[n - 1] \in Seq(S)
          <5>. HIDE DEF step
          <5>. QED BY <3>3, <4>1
        <4>2. step[<< f[n - 1], n >>] = f[n - 1] \o seqs[n + 1]
          BY <4>1, <4>1a
        <4>. QED BY <3>3, <4>2
      <3>. DEFINE h == [i \in 1 .. L |-> f[i - 1]]
      <3>5. ASSUME NEW i \in 1 .. L
            PROVE  h[i] = IF i = 1 THEN seqs[i] ELSE h[i - 1] \o seqs[i]
        <4>1. CASE i = 1
          BY <2>1, <3>3, <4>1
        <4>2. CASE i # 1
          <5>1. i - 1 \in 1 .. L - 1 /\ (i - 1) + 1 = i /\ i - 1 \in 1 .. L
            BY <2>1, <4>2
          <5>2. h[i] = f[i - 1] /\ h[i - 1] = f[(i - 1) - 1]
            BY <5>1
          <5>3. f[i - 1] = f[(i - 1) - 1] \o seqs[i]
            BY <3>4, <5>1
          <5>. HIDE DEF h
          <5>. QED BY <4>2, <5>2, <5>3
        <4>. QED BY <4>1, <4>2
      <3>6. P(h)
        BY <3>5
      <3>. HIDE DEF h, P
      <3>. QED BY <3>6
    <2>4. P(g)
      <3>. HIDE DEF P
      <3>. QED BY <2>3
    <2>5. \A i \in 1 .. L : g[i] = IF i = 1 THEN seqs[i] ELSE g[i - 1] \o seqs[i]
      <3>. HIDE DEF g, L
      <3>1. g = [i \in 1 .. L |-> IF i = 1 THEN seqs[i] ELSE g[i - 1] \o seqs[i]]
        BY <2>4
      <3>. HIDE DEF P
      <3>. QED BY <3>1
    <2>. DEFINE T == { n \in Nat : n + 1 <= L => g[n + 1] \in Seq(S) }
    <2>. HIDE DEF g, L
    <2>6. 0 \in T
      BY <2>1, <2>5
    <2>7. ASSUME NEW n \in Nat, n \in T
          PROVE  n + 1 \in T
      <3>1. SUFFICES ASSUME (n + 1) + 1 <= L
                     PROVE  g[(n + 1) + 1] \in Seq(S)
        OBVIOUS
      <3>2. /\ n + 1 \in 1 .. L /\ (n + 1) + 1 \in 1 .. L
            /\ (n + 1) + 1 # 1 /\ ((n + 1) + 1) - 1 = n + 1
            /\ n + 1 <= L
        BY <2>1, <3>1
      <3>3. g[n + 1] \in Seq(S) /\ seqs[(n + 1) + 1] \in Seq(S)
        BY <2>1, <2>7, <3>2
      <3>4. g[(n + 1) + 1] = g[n + 1] \o seqs[(n + 1) + 1]
        BY <2>5, <3>2
      <3>. QED BY <3>3, <3>4
    <2>8. L - 1 \in T
      <3>1. L - 1 \in Nat
        BY <2>1
      <3>. HIDE DEF T
      <3>. QED BY <2>6, <2>7, <3>1, SetInduction
    <2>9. (L - 1) + 1 = L
      BY <2>1
    <2>. QED BY <2>1, <2>2, <2>8, <2>9
  <1>. QED BY <1>1, <1>2

IsParagraph == paragraph = << >> \/ paragraph \in Paragraphs

LEMMA PlacesIsSeq ==
    ASSUME IsParagraph
    PROVE  Places \in Seq(Nat \X Nat)
  <1>. DEFINE Nodes(n) == IF paragraph[n].furigana THEN << >>
                          ELSE [k \in DOMAIN paragraph[n].text |-> << n, k >>]
              seqs == [n \in DOMAIN paragraph |-> Nodes(n)]
  <1>. DEFINE Node == [text : Seq(STRING), furigana : BOOLEAN]
  <1>1. paragraph \in Seq(Node)
    <2>1. CASE paragraph = << >>
      BY <2>1
    <2>2. CASE paragraph \in Paragraphs
      BY <2>2, SelectionAssumption
    <2>. QED BY <2>1, <2>2 DEF IsParagraph
  <1>2. ASSUME NEW n \in DOMAIN paragraph
        PROVE  Nodes(n) \in Seq(Nat \X Nat)
    <2>0. n \in Nat /\ paragraph[n] \in Node
      <3>. HIDE DEF Node
      <3>. QED BY <1>1
    <2>1. n \in Nat /\ paragraph[n].text \in Seq(STRING)
      BY <2>0
    <2>2. DOMAIN paragraph[n].text = 1 .. Len(paragraph[n].text)
          /\ Len(paragraph[n].text) \in Nat
      BY <2>1
    <2>. QED BY <2>1, <2>2
  <1>3. DOMAIN paragraph = 1 .. Len(paragraph) /\ Len(paragraph) \in Nat
    BY <1>1
  <1>4. seqs \in Seq(Seq(Nat \X Nat))
    <2>. HIDE DEF Nodes
    <2>. QED BY <1>2, <1>3
  <1>5. Places = FlattenSeq(seqs)
    BY DEF Places
  <1>. HIDE DEF seqs
  <1>. QED BY <1>4, <1>5, FlattenIsSeq

-----------------------------------------------------------------------------
(* Brackets *)

LEMMA BracketsAreBoundaries ==
    /\ ClosingBrackets \subseteq ScanDelimiters
    /\ DOMAIN Brackets \subseteq ScanDelimiters
  BY SelectionAssumption DEF ClosingBrackets

Unclosed == [open : Seq(DOMAIN Brackets), close : Seq(ClosingBrackets)]

LEMMA MatchedType ==
    ASSUME NEW found \in Unclosed, NEW char
    PROVE  Matched(found, char) \in Unclosed
  <1>1. /\ found.open \in Seq(DOMAIN Brackets)
        /\ found.close \in Seq(ClosingBrackets)
        /\ found = [open |-> found.open, close |-> found.close]
    BY DEF Unclosed
  <1>2. CASE char \in DOMAIN Brackets
    <2>1. Append(found.open, char) \in Seq(DOMAIN Brackets)
      BY <1>1, <1>2
    <2>. QED BY <1>1, <1>2, <2>1 DEF Matched, Unclosed
  <1>3. CASE char \notin DOMAIN Brackets /\ char \notin ClosingBrackets
    BY <1>3 DEF Matched
  <1>4. CASE /\ char \notin DOMAIN Brackets /\ char \in ClosingBrackets
             /\ found.open # << >> /\ Brackets[Last(found.open)] = char
    <2>1. Front(found.open) \in Seq(DOMAIN Brackets)
      BY <1>1, <1>4 DEF Front
    <2>. QED BY <1>1, <1>4, <2>1 DEF Matched, Unclosed
  <1>5. CASE /\ char \notin DOMAIN Brackets /\ char \in ClosingBrackets
             /\ ~(found.open # << >> /\ Brackets[Last(found.open)] = char)
    <2>1. Append(found.close, char) \in Seq(ClosingBrackets)
      BY <1>1, <1>5
    <2>. QED BY <1>1, <1>5, <2>1 DEF Matched, Unclosed
  <1>. QED BY <1>2, <1>3, <1>4, <1>5

LEMMA UnmatchedType ==
    ASSUME NEW S, NEW text \in Seq(S)
    PROVE  Unmatched(text) \in Unclosed
  <1>. DEFINE L == Len(text)
              base == [open |-> << >>, close |-> << >>]
              P(f) == f = [k \in 0 .. L |-> IF k = 0 THEN base
                                            ELSE Matched(f[k - 1], text[k])]
              g == CHOOSE f : P(f)
              step == [x \in Unclosed \X Nat |-> Matched(x[1], text[x[2]])]
  <1>1. L \in Nat /\ base \in Unclosed
    BY DEF Unclosed
  <1>2. Unmatched(text) = g[L]
    BY DEF Unmatched
  <1>3. Stays(step, Unclosed)
    BY MatchedType DEF Stays
  <1>. HIDE DEF base
  <1>4a. PICK h : Steps(h, L, Unclosed, base, step)
    <2>. HIDE DEF step, L
    <2>. QED BY <1>1, <1>3, Recursion
  <1>4. /\ h \in [0 .. L -> Unclosed]
        /\ h[0] = base
        /\ \A n \in 1 .. L : h[n] = step[<< h[n - 1], n >>]
    BY <1>4a DEF Steps
  <1>5. P(h)
    <2>1. ASSUME NEW k \in 0 .. L
          PROVE  h[k] = IF k = 0 THEN base ELSE Matched(h[k - 1], text[k])
      <3>1. CASE k = 0
        BY <1>4, <3>1
      <3>2. CASE k # 0
        <4>1. k \in 1 .. L /\ k \in Nat /\ h[k - 1] \in Unclosed
          BY <1>1, <1>4, <3>2
        <4>2. step[<< h[k - 1], k >>] = Matched(h[k - 1], text[k])
          BY <4>1
        <4>. HIDE DEF step
        <4>. QED BY <1>4, <3>2, <4>1, <4>2
      <3>. QED BY <3>1, <3>2
    <2>. HIDE DEF step, L
    <2>. QED BY <2>1, <1>4
  <1>6. P(g)
    <2>. HIDE DEF P, step
    <2>. QED BY <1>5
  <1>. HIDE DEF g, step, L
  <1>7. \A k \in 0 .. L : g[k] = IF k = 0 THEN base ELSE Matched(g[k - 1], text[k])
    <2>1. g = [k \in 0 .. L |-> IF k = 0 THEN base ELSE Matched(g[k - 1], text[k])]
      BY <1>6
    <2>. HIDE DEF P
    <2>. QED BY <2>1
  <1>. HIDE DEF P
  <1>. DEFINE T == { n \in Nat : n <= L => g[n] \in Unclosed }
  <1>8. 0 \in T
    BY <1>1, <1>7
  <1>9. ASSUME NEW n \in Nat, n \in T
        PROVE  n + 1 \in T
    <2>1. SUFFICES ASSUME n + 1 <= L PROVE g[n + 1] \in Unclosed
      OBVIOUS
    <2>2. n + 1 \in 0 .. L /\ n + 1 # 0 /\ (n + 1) - 1 = n /\ n <= L
      BY <1>1, <2>1
    <2>3. g[n] \in Unclosed
      BY <1>9, <2>2
    <2>4. g[n + 1] = Matched(g[n], text[n + 1])
      BY <1>7, <2>2
    <2>. QED BY <2>3, <2>4, MatchedType
  <1>10. L \in T
    <2>. HIDE DEF T
    <2>. QED BY <1>1, <1>8, <1>9, SetInduction
  <1>. QED BY <1>1, <1>2, <1>10

\* What is cut off the beginning of a sentence ends before a character that is
\* no bracket,
LEMMA StartSliceStops ==
    ASSUME NEW S, NEW text \in Seq(S), NEW open \in Seq(DOMAIN Brackets),
           NEW a \in 1 .. Len(text), text[a] \notin ScanDelimiters
    PROVE  StartSlice(text, open) \in 1 .. a
  <1>. DEFINE most == IF Len(open) < Len(text) - 1 THEN Len(open) ELSE Len(text) - 1
              found == { k \in 1 .. most : open[k] # text[k] }
              m == First(found, most)
  <1>1. StartSlice(text, open) = m
    BY DEF StartSlice, Least, First
  <1>2. most \in Nat /\ most <= Len(open) /\ Len(open) \in Nat
    OBVIOUS
  <1>3. m \in 1 .. most + 1 /\ \A j \in 1 .. m - 1 : j \notin found
    <2>1. found \subseteq 1 .. most /\ 1 \in Nat /\ 1 <= most + 1 /\ most \in Int
      BY <1>2
    <2>. HIDE DEF found, most
    <2>. QED BY <2>1, FirstFacts
  <1>. HIDE DEF m
  <1>4. ASSUME a < m PROVE FALSE
    <2>1. a \in 1 .. m - 1 /\ a \in 1 .. most /\ a \in 1 .. Len(open)
      BY <1>2, <1>3, <1>4
    <2>2. open[a] = text[a]
      BY <1>3, <2>1
    <2>3. open[a] \in DOMAIN Brackets
      BY <2>1
    <2>. QED BY <2>2, <2>3, BracketsAreBoundaries
  <1>. HIDE DEF most, found
  <1>. QED BY <1>1, <1>2, <1>3, <1>4

\* and what is cut off its end begins after a character that is neither a
\* bracket nor ends a sentence.
Cuts == [close : Seq(ClosingBrackets), end : Int, stopped : BOOLEAN]

\* How far the cut may go after n steps when a character at b stops it.
CutOK(cut, text, b, n) ==
    /\ cut \in Cuts
    /\ cut.end \in b .. Len(text)
    /\ cut.stopped \/ cut.close = << >> \/ Len(text) - n >= b

Stopper(text, from, b) ==
    \/ b = from
    \/ text[b] \notin ScanDelimiters /\ text[b] \notin SentenceDelimiters

LEMMA CutBackType ==
    ASSUME NEW cut \in Cuts, NEW text, NEW k \in Int
    PROVE  CutBack(cut, text, k) \in Cuts
  <1>1. /\ cut.close \in Seq(ClosingBrackets) /\ cut.end \in Int
        /\ cut.stopped \in BOOLEAN
        /\ cut = [close |-> cut.close, end |-> cut.end, stopped |-> cut.stopped]
    BY DEF Cuts
  <1>2. CASE cut.stopped \/ cut.close = << >>
    BY <1>2 DEF CutBack
  <1>3. CASE ~(cut.stopped \/ cut.close = << >>) /\ Last(cut.close) = text[k]
    <2>1. Front(cut.close) \in Seq(ClosingBrackets)
      BY <1>1, <1>3 DEF Front
    <2>2. CutBack(cut, text, k)
            = [close |-> Front(cut.close), end |-> k - 1, stopped |-> cut.stopped]
      BY <1>1, <1>3 DEF CutBack
    <2>. QED BY <1>1, <2>1, <2>2 DEF Cuts
  <1>4. CASE ~(cut.stopped \/ cut.close = << >>) /\ Last(cut.close) # text[k]
    <2>1. CutBack(cut, text, k)
            = [close |-> cut.close, end |-> cut.end,
               stopped |-> text[k] \notin SentenceDelimiters]
      BY <1>1, <1>4 DEF CutBack
    <2>. QED BY <1>1, <2>1 DEF Cuts
  <1>. QED BY <1>2, <1>3, <1>4

LEMMA CutBackStops ==
    ASSUME NEW S, NEW text \in Seq(S), NEW from \in Int, NEW b \in Int,
           1 <= from, from <= b, b <= Len(text), Stopper(text, from, b),
           NEW n \in Nat, n + 1 <= Len(text) - from,
           NEW cut, CutOK(cut, text, b, n)
    PROVE  CutOK(CutBack(cut, text, Len(text) + 1 - (n + 1)), text, b, n + 1)
  <1>. DEFINE k == Len(text) + 1 - (n + 1)
              next == CutBack(cut, text, k)
  <1>1. /\ Len(text) \in Nat /\ k \in Int /\ k = Len(text) - n /\ k - 1 = Len(text) - (n + 1)
        /\ from < k /\ k <= Len(text)
    OBVIOUS
  <1>. HIDE DEF k
  <1>2. /\ cut \in Cuts /\ cut.end \in b .. Len(text)
        /\ cut.close \in Seq(ClosingBrackets) /\ cut.end \in Int
        /\ cut.stopped \in BOOLEAN
        /\ cut = [close |-> cut.close, end |-> cut.end, stopped |-> cut.stopped]
    BY DEF CutOK, Cuts
  <1>3. next \in Cuts
    BY <1>1, <1>2, CutBackType
  <1>4. CASE cut.stopped \/ cut.close = << >>
    BY <1>2, <1>4 DEF CutBack, CutOK
  <1>5. CASE ~(cut.stopped \/ cut.close = << >>)
    <2>1. k >= b
      BY <1>1, <1>5 DEF CutOK
    <2>2. Last(cut.close) \in ScanDelimiters
      <3>1. Last(cut.close) \in ClosingBrackets
        BY <1>2, <1>5 DEF Last
      <3>. QED BY <3>1, BracketsAreBoundaries
    <2>3. CASE Last(cut.close) = text[k]
      <3>1. k # b
        BY <1>1, <2>2, <2>3 DEF Stopper
      <3>2. k - 1 \in b .. Len(text)
        BY <1>1, <2>1, <3>1
      <3>3. next.end = k - 1
        BY <1>2, <1>5, <2>3 DEF CutBack
      <3>. QED BY <1>1, <1>3, <3>2, <3>3 DEF CutOK, k
    <2>4. CASE Last(cut.close) # text[k]
      <3>1. next.end = cut.end /\ next.stopped = (text[k] \notin SentenceDelimiters)
        BY <1>2, <1>5, <2>4 DEF CutBack
      <3>2. CASE k = b
        <4>1. text[k] \notin SentenceDelimiters
          BY <1>1, <3>2 DEF Stopper
        <4>. QED BY <1>2, <1>3, <3>1, <4>1 DEF CutOK, k
      <3>3. CASE k # b
        <4>1. Len(text) - (n + 1) >= b
          BY <1>1, <2>1, <3>3
        <4>. QED BY <1>2, <1>3, <3>1, <4>1 DEF CutOK, k
      <3>. QED BY <3>2, <3>3
    <2>. QED BY <2>3, <2>4
  <1>. QED BY <1>4, <1>5 DEF k

LEMMA EndSliceStops ==
    ASSUME NEW S, NEW text \in Seq(S), NEW close \in Seq(ClosingBrackets),
           NEW from \in Int, NEW b \in Int,
           1 <= from, from <= b, b <= Len(text), Stopper(text, from, b)
    PROVE  EndSlice(text, close, from) \in b .. Len(text)
  <1>. DEFINE L == Len(text) - from
              base == [close |-> close, end |-> Len(text), stopped |-> FALSE]
              Step(c, n) == CutBack(c, text, Len(text) + 1 - n)
              P(f) == f = [n \in 0 .. L |-> IF n = 0 THEN base ELSE Step(f[n - 1], n)]
              g == CHOOSE f : P(f)
              step == [x \in Cuts \X Nat |-> Step(x[1], x[2])]
  <1>1. L \in Nat /\ base \in Cuts /\ Len(text) \in Nat
    BY DEF Cuts
  <1>2. EndSlice(text, close, from) = g[L].end
    BY DEF EndSlice
  <1>3. Stays(step, Cuts)
    <2>1. ASSUME NEW x \in Cuts, NEW n \in Nat
          PROVE  Step(x, n) \in Cuts
      <3>1. Len(text) + 1 - n \in Int
        BY <1>1
      <3>. QED BY <3>1, CutBackType
    <2>. HIDE DEF Step
    <2>. QED BY <2>1 DEF Stays
  <1>. HIDE DEF Step
  <1>4a. PICK h : Steps(h, L, Cuts, base, step)
    <2>. HIDE DEF step, L, base
    <2>. QED BY <1>1, <1>3, Recursion
  <1>4. /\ h \in [0 .. L -> Cuts]
        /\ h[0] = base
        /\ \A n \in 1 .. L : h[n] = step[<< h[n - 1], n >>]
    <2>. HIDE DEF step, L, base
    <2>. QED BY <1>4a DEF Steps
  <1>. HIDE DEF base
  <1>5. P(h)
    <2>1. ASSUME NEW k \in 0 .. L
          PROVE  h[k] = IF k = 0 THEN base ELSE Step(h[k - 1], k)
      <3>1. CASE k = 0
        BY <1>4, <3>1
      <3>2. CASE k # 0
        <4>0. k \in 1 .. L /\ k \in Nat /\ k - 1 \in 0 .. L
          BY <1>1, <3>2
        <4>1. h[k - 1] \in Cuts
          BY <1>4, <4>0
        <4>2. step[<< h[k - 1], k >>] = Step(h[k - 1], k)
          BY <4>0, <4>1
        <4>. HIDE DEF step
        <4>. QED BY <1>4, <3>2, <4>0, <4>2
      <3>. QED BY <3>1, <3>2
    <2>. HIDE DEF step, L
    <2>. QED BY <2>1, <1>4
  <1>6. P(g)
    <2>. HIDE DEF P, step
    <2>. QED BY <1>5
  <1>. HIDE DEF g, step, L
  <1>7. \A k \in 0 .. L : g[k] = IF k = 0 THEN base ELSE Step(g[k - 1], k)
    <2>1. g = [k \in 0 .. L |-> IF k = 0 THEN base ELSE Step(g[k - 1], k)]
      BY <1>6
    <2>. HIDE DEF P
    <2>. QED BY <2>1
  <1>. HIDE DEF P
  <1>. DEFINE T == { n \in Nat : n <= L => CutOK(g[n], text, b, n) }
  <1>8. 0 \in T
    <2>1. g[0] = base
      BY <1>1, <1>7
    <2>2. CutOK(base, text, b, 0)
      BY <1>1 DEF CutOK, base
    <2>. QED BY <2>1, <2>2
  <1>9. ASSUME NEW n \in Nat, n \in T
        PROVE  n + 1 \in T
    <2>1. SUFFICES ASSUME n + 1 <= L PROVE CutOK(g[n + 1], text, b, n + 1)
      OBVIOUS
    <2>2. n + 1 \in 0 .. L /\ n + 1 # 0 /\ (n + 1) - 1 = n /\ n <= L
      BY <1>1, <2>1
    <2>3. CutOK(g[n], text, b, n)
      BY <1>9, <2>2
    <2>4. g[n + 1] = CutBack(g[n], text, Len(text) + 1 - (n + 1))
      BY <1>7, <2>2 DEF Step
    <2>5. n + 1 <= Len(text) - from
      BY <2>1 DEF L
    <2>. QED BY <2>3, <2>4, <2>5, CutBackStops
  <1>10. L \in T
    <2>. HIDE DEF T
    <2>. QED BY <1>1, <1>8, <1>9, SetInduction
  <1>11. CutOK(g[L], text, b, L)
    BY <1>1, <1>10
  <1>. QED BY <1>2, <1>11 DEF CutOK

-----------------------------------------------------------------------------
(* The sentence around a word *)

\* A part of a text that lies between two of its positions.
PartAt(part, S, text, a, b) ==
    /\ text \in Seq(S)
    /\ a \in Int /\ b \in Int /\ 1 <= a /\ a <= b /\ b <= Len(text)
    /\ part = SubSeq(text, a, b)

\* It survives cuts before and after it.
IsCut(cut, text, a, b, f, l) ==
    /\ f \in Int /\ l \in Int
    /\ 1 <= f /\ f <= a /\ b <= l /\ l <= Len(text)
    /\ cut = SubSeq(text, f, l)

LEMMA CutKeepsPart ==
    ASSUME NEW S, NEW text, NEW a, NEW b, NEW part, PartAt(part, S, text, a, b),
           NEW f, NEW l, NEW cut, IsCut(cut, text, a, b, f, l)
    PROVE  /\ PartAt(part, S, cut, a - f + 1, b - f + 1)
           /\ cut[a - f + 1] = text[a]
           /\ cut[b - f + 1] = text[b]
  <1>1. /\ text \in Seq(S) /\ a \in Int /\ b \in Int /\ f \in Int /\ l \in Int
        /\ 1 <= f /\ f <= a /\ a <= b /\ b <= l /\ l <= Len(text)
        /\ part = SubSeq(text, a, b) /\ Len(text) \in Nat
        /\ cut = SubSeq(text, f, l)
    BY DEF PartAt, IsCut
  <1>2. /\ cut \in Seq(S) /\ Len(cut) = l - f + 1
        /\ \A i \in 1 .. l - f + 1 : cut[i] = text[f + i - 1]
    <2>1. f <= l + 1
      BY <1>1
    <2>. QED BY <1>1, <2>1, SubSeqFacts
  <1>3. SubSeq(cut, a - f + 1, b - f + 1) = part
    BY <1>1, SubSeqTwice
  <1>4. /\ a - f + 1 \in 1 .. l - f + 1 /\ f + (a - f + 1) - 1 = a
        /\ b - f + 1 \in 1 .. l - f + 1 /\ f + (b - f + 1) - 1 = b
    BY <1>1
  <1>5. cut[a - f + 1] = text[a] /\ cut[b - f + 1] = text[b]
    BY <1>2, <1>4
  <1>6. PartAt(part, S, cut, a - f + 1, b - f + 1)
    BY <1>1, <1>2, <1>3, <1>4 DEF PartAt
  <1>. QED BY <1>5, <1>6

LEMMA PartEnds ==
    ASSUME NEW S, NEW text, NEW a, NEW b, NEW part, PartAt(part, S, text, a, b)
    PROVE  /\ part \in Seq(S) /\ Len(part) = b - a + 1
           /\ part[1] = text[a] /\ part[Len(part)] = text[b]
           /\ Occurs(part, text)
  <1>1. /\ text \in Seq(S) /\ a \in Int /\ b \in Int
        /\ 1 <= a /\ a <= b /\ b <= Len(text)
        /\ part = SubSeq(text, a, b)
    BY DEF PartAt
  <1>2. /\ part \in Seq(S) /\ Len(part) = b - a + 1
        /\ \A i \in 1 .. b - a + 1 : part[i] = text[a + i - 1]
    BY <1>1, SubSeqFacts
  <1>3. /\ 1 \in 1 .. b - a + 1 /\ b - a + 1 \in 1 .. b - a + 1
        /\ a + 1 - 1 = a /\ a + (b - a + 1) - 1 = b
    BY <1>1
  <1>4. a <= b + 1
    BY <1>1
  <1>5. Occurs(part, text)
    BY <1>1, <1>4, OccursAt
  <1>. QED BY <1>2, <1>3, <1>5

LEMMA TrimIsSeq ==
    ASSUME NEW S, NEW text \in Seq(S)
    PROVE  Trim(text) \in Seq(S)
  <1>1. CASE \E a \in 1 .. Len(text) : text[a] \notin SpaceChars
    <2>1. PICK a \in 1 .. Len(text) : text[a] \notin SpaceChars
      BY <1>1
    <2>2. a \in Int /\ 1 <= a /\ a <= a /\ a <= Len(text)
      OBVIOUS
    <2>3. \E f \in 1 .. a, l \in a .. Len(text) : Trim(text) = SubSeq(text, f, l)
      BY <2>1, <2>2, TrimKeeps
    <2>4. PICK f \in 1 .. a, l \in a .. Len(text) : Trim(text) = SubSeq(text, f, l)
      BY <2>3
    <2>5. f \in Int /\ l \in Int /\ 1 <= f /\ f <= l + 1 /\ l <= Len(text)
      OBVIOUS
    <2>. QED BY <2>4, <2>5, SubSeqFacts
  <1>2. CASE ~\E a \in 1 .. Len(text) : text[a] \notin SpaceChars
    <2>1. DOMAIN text = 1 .. Len(text)
      OBVIOUS
    <2>2. { k \in DOMAIN text : text[k] \notin SpaceChars } = {}
      BY <1>2, <2>1
    <2>3. Trim(text) = << >>
      BY <2>2 DEF Trim
    <2>. QED BY <2>3
  <1>. QED BY <1>1, <1>2

\* trim(), in terms of parts.
LEMMA TrimKeepsPart ==
    ASSUME NEW S, NEW text, NEW a, NEW b, NEW part, PartAt(part, S, text, a, b),
           text[a] \notin SpaceChars, text[b] \notin SpaceChars
    PROVE  \E c, d : /\ PartAt(part, S, Trim(text), c, d)
                     /\ Trim(text)[c] = text[a] /\ Trim(text)[d] = text[b]
  <1>1. /\ text \in Seq(S) /\ a \in Int /\ b \in Int
        /\ 1 <= a /\ a <= b /\ b <= Len(text)
    BY DEF PartAt
  <1>2. \E f \in 1 .. a, l \in b .. Len(text) : Trim(text) = SubSeq(text, f, l)
    BY <1>1, TrimKeeps
  <1>3. PICK f \in 1 .. a, l \in b .. Len(text) : Trim(text) = SubSeq(text, f, l)
    BY <1>2
  <1>. DEFINE cut == SubSeq(text, f, l)
  <1>4. /\ PartAt(part, S, cut, a - f + 1, b - f + 1)
        /\ cut[a - f + 1] = text[a] /\ cut[b - f + 1] = text[b]
    <2>1. IsCut(cut, text, a, b, f, l)
      BY <1>1, <1>3 DEF IsCut
    <2>. HIDE DEF cut
    <2>. QED BY <2>1, CutKeepsPart
  <1>5. Trim(text) = cut
    BY <1>3
  <1>. HIDE DEF cut
  <1>. QED BY <1>4, <1>5

\* Cutting off brackets, in the same terms.
Slice(text) ==
    SubSeq(text, StartSlice(text, Unmatched(text).open),
           EndSlice(text, Unmatched(text).close,
                    StartSlice(text, Unmatched(text).open)))

LEMMA SliceKeepsPart ==
    ASSUME NEW S, NEW text, NEW a, NEW b, NEW part, PartAt(part, S, text, a, b),
           text[a] \notin ScanDelimiters, text[b] \notin ScanDelimiters,
           text[b] \notin SentenceDelimiters
    PROVE  \E c, d : /\ PartAt(part, S, Slice(text), c, d)
                     /\ Slice(text)[c] = text[a] /\ Slice(text)[d] = text[b]
  <1>. DEFINE unmatched == Unmatched(text)
              from == StartSlice(text, unmatched.open)
              to == EndSlice(text, unmatched.close, from)
  <1>1. /\ text \in Seq(S) /\ a \in Int /\ b \in Int
        /\ 1 <= a /\ a <= b /\ b <= Len(text)
    BY DEF PartAt
  <1>2. /\ unmatched.open \in Seq(DOMAIN Brackets)
        /\ unmatched.close \in Seq(ClosingBrackets)
    BY <1>1, UnmatchedType DEF Unclosed
  <1>. HIDE DEF unmatched
  <1>3. from \in 1 .. a
    <2>1. a \in 1 .. Len(text)
      BY <1>1
    <2>. QED BY <1>1, <1>2, <2>1, StartSliceStops
  <1>. HIDE DEF from
  <1>4. to \in b .. Len(text)
    <2>1. /\ from \in Int /\ 1 <= from /\ from <= b /\ Stopper(text, from, b)
      BY <1>1, <1>3 DEF Stopper
    <2>. QED BY <1>1, <1>2, <2>1, EndSliceStops
  <1>5. Slice(text) = SubSeq(text, from, to)
    BY DEF Slice, from, to, unmatched
  <1>. HIDE DEF to
  <1>. DEFINE cut == SubSeq(text, from, to)
  <1>6. /\ PartAt(part, S, cut, a - from + 1, b - from + 1)
        /\ cut[a - from + 1] = text[a] /\ cut[b - from + 1] = text[b]
    <2>1. IsCut(cut, text, a, b, from, to)
      BY <1>1, <1>3, <1>4 DEF IsCut
    <2>. HIDE DEF cut
    <2>. QED BY <2>1, CutKeepsPart
  <1>7. Slice(text) = cut
    BY <1>5
  <1>. HIDE DEF cut
  <1>. QED BY <1>6, <1>7

\* With a character that is no boundary in it, what is cut is a sequence.
LEMMA SliceIsSeq ==
    ASSUME NEW S, NEW text \in Seq(S), NEW a \in 1 .. Len(text),
           text[a] \notin ScanDelimiters
    PROVE  Slice(text) \in Seq(S)
  <1>. DEFINE unmatched == Unmatched(text)
              from == StartSlice(text, unmatched.open)
              to == EndSlice(text, unmatched.close, from)
  <1>2. /\ unmatched.open \in Seq(DOMAIN Brackets)
        /\ unmatched.close \in Seq(ClosingBrackets)
    BY UnmatchedType DEF Unclosed
  <1>. HIDE DEF unmatched
  <1>3. from \in 1 .. a
    BY <1>2, StartSliceStops
  <1>. HIDE DEF from
  <1>4. to \in from .. Len(text)
    <2>1. /\ from \in Int /\ 1 <= from /\ from <= from /\ from <= Len(text)
          /\ Stopper(text, from, from)
      BY <1>3 DEF Stopper
    <2>. QED BY <1>2, <2>1, EndSliceStops
  <1>5. Slice(text) = SubSeq(text, from, to)
    BY DEF Slice, from, to, unmatched
  <1>. HIDE DEF to
  <1>6. from \in Int /\ to \in Int /\ 1 <= from /\ from <= to + 1 /\ to <= Len(text)
    BY <1>3, <1>4
  <1>. QED BY <1>5, <1>6, SubSeqFacts

-----------------------------------------------------------------------------
(* From a place to the word and the sentence around it *)

Characters == { CharAt(place) : place \in Nat \X Nat }

LEMMA SpelledFacts ==
    ASSUME NEW places \in Seq(Nat \X Nat)
    PROVE  /\ Spelled(places) \in Seq(Characters)
           /\ Len(Spelled(places)) = Len(places)
           /\ \A k \in 1 .. Len(places) : Spelled(places)[k] = CharAt(places[k])
  <1>1. Len(places) \in Nat /\ DOMAIN places = 1 .. Len(places)
        /\ \A k \in 1 .. Len(places) : places[k] \in Nat \X Nat
    OBVIOUS
  <1>2. \A k \in 1 .. Len(places) : CharAt(places[k]) \in Characters
    BY <1>1 DEF Characters
  <1>3. Spelled(places) = [k \in 1 .. Len(places) |-> CharAt(places[k])]
    BY <1>1 DEF Spelled
  <1>. QED BY <1>1, <1>2, <1>3

LEMMA SpelledSubSeq ==
    ASSUME NEW places \in Seq(Nat \X Nat), NEW a \in Int, NEW b \in Int,
           1 <= a, a <= b + 1, b <= Len(places)
    PROVE  Spelled(SubSeq(places, a, b)) = SubSeq(Spelled(places), a, b)
  <1>. DEFINE p == SubSeq(places, a, b)
              u == Spelled(p)
              v == SubSeq(Spelled(places), a, b)
              n == b - a + 1
  <1>1. /\ p \in Seq(Nat \X Nat) /\ Len(p) = n
        /\ \A k \in 1 .. n : p[k] = places[a + k - 1]
    BY SubSeqFacts
  <1>. HIDE DEF p
  <1>2. /\ Spelled(places) \in Seq(Characters)
        /\ Len(Spelled(places)) = Len(places)
        /\ \A k \in 1 .. Len(places) : Spelled(places)[k] = CharAt(places[k])
    BY SpelledFacts
  <1>3. /\ u \in Seq(Characters) /\ Len(u) = n
        /\ \A k \in 1 .. n : u[k] = CharAt(p[k])
    BY <1>1, SpelledFacts
  <1>4. /\ v \in Seq(Characters) /\ Len(v) = n
        /\ \A k \in 1 .. n : v[k] = Spelled(places)[a + k - 1]
    BY <1>2, SubSeqFacts
  <1>. HIDE DEF u, v
  <1>5. ASSUME NEW k \in 1 .. n
        PROVE  u[k] = v[k]
    <2>1. a + k - 1 \in 1 .. Len(places)
      BY <1>5
    <2>. QED BY <1>1, <1>2, <1>3, <1>4, <2>1
  <1>6. u = [k \in 1 .. n |-> u[k]] /\ v = [k \in 1 .. n |-> v[k]]
    BY <1>3, <1>4
  <1>7. [k \in 1 .. n |-> u[k]] = [k \in 1 .. n |-> v[k]]
    BY <1>5
  <1>8. u = v
    BY <1>6, <1>7
  <1>. QED BY <1>8 DEF u, v, p

LEMMA HitAt ==
    ASSUME IsParagraph, NEW place \in Hits
    PROVE  /\ Index(place) \in 1 .. Len(Places)
           /\ Places[Index(place)] = place
           /\ CharAt(place) \notin ScanDelimiters
  <1>1. Places \in Seq(Nat \X Nat)
    BY PlacesIsSeq
  <1>2. \E k \in DOMAIN Places : Places[k] = place
    BY DEF Hits, ToSet
  <1>3. Index(place) \in DOMAIN Places /\ Places[Index(place)] = place
    BY <1>2 DEF Index
  <1>. QED BY <1>1, <1>3 DEF Hits

\* The sentence goes from before the place to where no end of one came before.
LEMMA SentenceAround ==
    ASSUME IsParagraph, NEW place \in Hits,
           NEW m \in Index(place) - 1 .. Len(Places),
           \A k \in Index(place) .. m : CharAt(Places[k]) \notin SentenceDelimiters
    PROVE  \E f, l \in Int :
               /\ 1 <= f /\ f <= Index(place)
               /\ Index(place) <= l /\ m <= l /\ l <= Len(Places)
               /\ SentencePlaces(place) = SubSeq(Places, f, l)
  <1>. DEFINE places == Places
              here == Index(place)
              Ends(k) == CharAt(places[k]) \in SentenceDelimiters
              before == { k \in 1 .. here - 1 : Ends(k) }
              from == IF before = {} THEN 1
                      ELSE 1 + CHOOSE k \in before : \A j \in before : j <= k
              found == { k \in here .. Len(places) : Ends(k) }
              end == First(found, Len(places))
              GoesOn(k) == /\ places[k][1] = places[end][1]
                           /\ CharAt(places[k]) \in TrailingSentenceChars
              over == { k \in end + 1 .. Len(places) : ~GoesOn(k) }
              next == First(over, Len(places))
              to == IF end > Len(places) THEN Len(places) ELSE next - 1
  <1>1. Len(places) \in Nat /\ here \in 1 .. Len(places)
    BY PlacesIsSeq, HitAt
  <1>2. SentencePlaces(place) = SubSeq(places, from, to)
    BY DEF SentencePlaces, Least, First
  <1>. HIDE DEF places, here
  <1>3. from \in 1 .. here
    <2>1. CASE before = {}
      BY <1>1, <2>1
    <2>2. CASE before # {}
      <3>0. here - 1 \in Nat /\ before \subseteq 1 .. here - 1
        BY <1>1
      <3>. HIDE DEF before
      <3>1. \E k \in before : \A j \in before : j <= k
        BY <2>2, <3>0, GreatestOf
      <3>. DEFINE last == CHOOSE k \in before : \A j \in before : j <= k
      <3>2. last \in before
        BY <3>1
      <3>3. from = 1 + last
        BY <2>2
      <3>. HIDE DEF last, from
      <3>4. last \in 1 .. here - 1
        BY <3>0, <3>2
      <3>. QED BY <1>1, <3>3, <3>4
    <2>. QED BY <2>1, <2>2
  <1>4. /\ end \in here .. Len(places) + 1
        /\ end # Len(places) + 1 => end \in found
    <2>1. /\ here \in Nat /\ Len(places) \in Int /\ here <= Len(places) + 1
          /\ found \subseteq here .. Len(places)
      BY <1>1
    <2>. HIDE DEF found
    <2>. QED BY <2>1, FirstFacts
  <1>. HIDE DEF end, from
  <1>5. m < end
    <2>1. m \in here - 1 .. Len(places)
      BY DEF here, places
    <2>2. CASE end = Len(places) + 1
      BY <1>1, <2>1, <2>2
    <2>3. CASE end # Len(places) + 1
      <3>1. Ends(end)
        BY <1>4, <2>3
      <3>2. ~(end \in here .. m)
        BY <3>1 DEF here, places
      <3>. QED BY <1>1, <1>4, <2>1, <3>2
    <2>. QED BY <2>2, <2>3
  <1>6. to \in Int /\ here <= to /\ m <= to /\ to <= Len(places)
    <2>1. m \in here - 1 .. Len(places)
      BY DEF here, places
    <2>2. CASE end > Len(places)
      BY <1>1, <2>1, <2>2
    <2>3. CASE ~(end > Len(places))
      <3>1. /\ end + 1 \in Nat /\ Len(places) \in Int /\ end + 1 <= Len(places) + 1
            /\ over \subseteq end + 1 .. Len(places)
        BY <1>1, <1>4, <2>3
      <3>2. next \in end + 1 .. Len(places) + 1
        <4>. HIDE DEF over
        <4>. QED BY <3>1, FirstFacts
      <3>. HIDE DEF next
      <3>. QED BY <1>1, <1>4, <1>5, <2>1, <2>3, <3>2
    <2>. QED BY <2>2, <2>3
  <1>. HIDE DEF to
  <1>7. from \in Int /\ 1 <= from /\ from <= here
    BY <1>1, <1>3
  <1>. QED BY <1>2, <1>6, <1>7 DEF here, places

LEMMA GetSentenceIs ==
    ASSUME NEW place
    PROVE  GetSentence(place) = Trim(Slice(Trim(Spelled(SentencePlaces(place)))))
  BY DEF GetSentence, Slice

LEMMA SentenceIsSeq ==
    ASSUME IsParagraph, NEW place \in Hits
    PROVE  GetSentence(place) \in Seq(Characters)
  <1>. DEFINE here == Index(place)
              text == Spelled(Places)
  <1>1. /\ Places \in Seq(Nat \X Nat) /\ here \in 1 .. Len(Places)
        /\ Places[here] = place /\ CharAt(place) \notin ScanDelimiters
    BY PlacesIsSeq, HitAt
  <1>2. /\ text \in Seq(Characters) /\ Len(text) = Len(Places)
        /\ text[here] = CharAt(place)
    BY <1>1, SpelledFacts
  <1>3. PICK f, l \in Int :
            /\ 1 <= f /\ f <= here /\ here <= l /\ l <= Len(Places)
            /\ SentencePlaces(place) = SubSeq(Places, f, l)
    <2>1. here - 1 \in here - 1 .. Len(Places)
          /\ \A k \in here .. here - 1 : CharAt(Places[k]) \notin SentenceDelimiters
      BY <1>1
    <2>. QED BY <2>1, SentenceAround
  <1>4. Spelled(SentencePlaces(place)) = SubSeq(text, f, l)
    <2>1. f <= l + 1
      BY <1>1, <1>3
    <2>2. Spelled(SubSeq(Places, f, l)) = SubSeq(text, f, l)
      BY <1>1, <1>3, <2>1, SpelledSubSeq
    <2>. QED BY <1>3, <2>2
  <1>5. PartAt(SubSeq(text, here, here), Characters, text, here, here)
    BY <1>1, <1>2 DEF PartAt
  <1>. HIDE DEF here, text
  <1>. DEFINE around == SubSeq(text, f, l)
              part == SubSeq(text, here, here)
  <1>6. PICK c, d : PartAt(part, Characters, around, c, d) /\ around[c] = text[here]
                    /\ around[d] = text[here]
    <2>1. IsCut(around, text, here, here, f, l)
      BY <1>2, <1>3 DEF IsCut
    <2>. HIDE DEF around
    <2>. QED BY <1>5, <2>1, CutKeepsPart
  <1>. HIDE DEF around, part
  <1>7. text[here] \notin SpaceChars
    BY <1>1, <1>2, SelectionAssumption
  <1>8. PICK c1, d1 : PartAt(part, Characters, Trim(around), c1, d1)
                      /\ Trim(around)[c1] = text[here]
    BY <1>6, <1>7, TrimKeepsPart
  <1>9. Trim(around) \in Seq(Characters) /\ c1 \in 1 .. Len(Trim(around))
    BY <1>8 DEF PartAt
  <1>10. Slice(Trim(around)) \in Seq(Characters)
    BY <1>1, <1>2, <1>8, <1>9, SliceIsSeq
  <1>11. Trim(Slice(Trim(around))) \in Seq(Characters)
    BY <1>10, TrimIsSeq
  <1>. QED BY <1>4, <1>11, GetSentenceIs DEF around

\* The characters from a place on up to a boundary or an end of a sentence
\* occur in the sentence around it.
LEMMA SentenceHolds ==
    ASSUME IsParagraph, NEW place \in Hits,
           NEW m \in Index(place) .. Len(Places),
           \A k \in Index(place) .. m :
               /\ CharAt(Places[k]) \notin SentenceDelimiters
               /\ CharAt(Places[k]) \notin ScanDelimiters
    PROVE  Occurs(SubSeq(Spelled(Places), Index(place), m), GetSentence(place))
  <1>. DEFINE here == Index(place)
              text == Spelled(Places)
              part == SubSeq(text, here, m)
  <1>1. /\ Places \in Seq(Nat \X Nat) /\ here \in 1 .. Len(Places)
        /\ Len(Places) \in Nat
    BY PlacesIsSeq, HitAt
  <1>2. /\ text \in Seq(Characters) /\ Len(text) = Len(Places)
        /\ \A k \in 1 .. Len(Places) : text[k] = CharAt(Places[k])
    BY <1>1, SpelledFacts
  <1>3. PICK f, l \in Int :
            /\ 1 <= f /\ f <= here /\ here <= l /\ m <= l /\ l <= Len(Places)
            /\ SentencePlaces(place) = SubSeq(Places, f, l)
    <2>1. m \in here - 1 .. Len(Places)
      BY <1>1
    <2>. QED BY <2>1, SentenceAround
  <1>4. Spelled(SentencePlaces(place)) = SubSeq(text, f, l)
    <2>1. f <= l + 1
      BY <1>1, <1>3
    <2>2. Spelled(SubSeq(Places, f, l)) = SubSeq(text, f, l)
      BY <1>1, <1>3, <2>1, SpelledSubSeq
    <2>. QED BY <1>3, <2>2
  <1>5. /\ m \in Int /\ here <= m /\ m <= Len(Places) /\ here \in here .. m /\ m \in here .. m
        /\ here \in Int /\ m \in 1 .. Len(Places)
    BY <1>1
  <1>6. /\ text[here] \notin SentenceDelimiters /\ text[here] \notin ScanDelimiters
        /\ text[m] \notin SentenceDelimiters /\ text[m] \notin ScanDelimiters
    BY <1>1, <1>2, <1>5
  <1>. HIDE DEF here, text
  <1>7. PartAt(part, Characters, text, here, m)
    BY <1>1, <1>2, <1>5 DEF PartAt
  <1>. HIDE DEF part
  <1>. DEFINE around == SubSeq(text, f, l)
  <1>8. PICK c, d : PartAt(part, Characters, around, c, d) /\ around[c] = text[here]
                    /\ around[d] = text[m]
    <2>1. IsCut(around, text, here, m, f, l)
      BY <1>2, <1>3 DEF IsCut
    <2>. HIDE DEF around
    <2>. QED BY <1>7, <2>1, CutKeepsPart
  <1>. HIDE DEF around
  <1>9. text[here] \notin SpaceChars /\ text[m] \notin SpaceChars
    BY <1>6, SelectionAssumption
  <1>. DEFINE trimmed == Trim(around)
              sliced == Slice(trimmed)
  <1>10. PICK c1, d1 : PartAt(part, Characters, trimmed, c1, d1)
                       /\ trimmed[c1] = text[here] /\ trimmed[d1] = text[m]
    BY <1>8, <1>9, TrimKeepsPart
  <1>. HIDE DEF trimmed
  <1>11. PICK c2, d2 : PartAt(part, Characters, sliced, c2, d2)
                       /\ sliced[c2] = text[here] /\ sliced[d2] = text[m]
    BY <1>6, <1>10, SliceKeepsPart
  <1>. HIDE DEF sliced
  <1>12. PICK c3, d3 : PartAt(part, Characters, Trim(sliced), c3, d3)
    BY <1>9, <1>11, TrimKeepsPart
  <1>13. Occurs(part, Trim(sliced))
    BY <1>12, PartEnds
  <1>14. GetSentence(place) = Trim(sliced)
    BY <1>4, GetSentenceIs DEF around, trimmed, sliced
  <1>. QED BY <1>13, <1>14 DEF part, text, here

\* Scanning stops at a boundary.
LEMMA ScannedFacts ==
    ASSUME IsParagraph, NEW place \in Hits
    PROVE  \E m \in Index(place) .. Len(Places) + 1 :
               /\ ScannedPlaces(place) = SubSeq(Places, Index(place), m - 1)
               /\ \A k \in Index(place) .. m - 1 : CharAt(Places[k]) \notin ScanDelimiters
  <1>. DEFINE places == Places
              here == Index(place)
              most == IF here + ScanMax - 1 < Len(places) THEN here + ScanMax - 1
                      ELSE Len(places)
              found == { k \in here .. most : CharAt(places[k]) \in ScanDelimiters }
              m == First(found, most)
  <1>1. Len(places) \in Nat /\ here \in 1 .. Len(places) /\ ScanMax \in Nat /\ ScanMax # 0
    BY PlacesIsSeq, HitAt, SelectionAssumption
  <1>2. ScannedPlaces(place) = SubSeq(places, here, m - 1)
    BY DEF ScannedPlaces, Least, First
  <1>. HIDE DEF places, here
  <1>3. most \in Int /\ here <= most /\ most <= Len(places)
    BY <1>1
  <1>. HIDE DEF most
  <1>4. m \in here .. most + 1 /\ \A k \in here .. m - 1 : k \notin found
    <2>1. here \in Nat /\ here <= most + 1 /\ found \subseteq here .. most
      BY <1>1, <1>3
    <2>. HIDE DEF found
    <2>. QED BY <1>3, <2>1, FirstFacts
  <1>. HIDE DEF m
  <1>5. ASSUME NEW k \in here .. m - 1
        PROVE  CharAt(places[k]) \notin ScanDelimiters
    <2>1. k \in here .. most
      BY <1>1, <1>3, <1>4
    <2>. QED BY <1>4, <2>1
  <1>6. m \in here .. Len(places) + 1
    BY <1>1, <1>3, <1>4
  <1>. QED BY <1>2, <1>5, <1>6 DEF here, places

\* The word in a selection, up to where its sentence ends.
WordOf(places) ==
    SubSeq(Spelled(places), 1,
           First({ k \in 1 .. Len(Spelled(places)) :
                     Spelled(places)[k] \in SentenceDelimiters },
                 Len(Spelled(places))) - 1)

\* Where a word that starts at `here' and stops before m ends its sentence.
LEMMA WordEnds ==
    ASSUME NEW here \in Int, NEW m \in Int, NEW ends \in Int, NEW L \in Int,
           NEW e \in Int, e = here + ends - 2,
           1 <= here, m - 1 <= L, 1 <= ends, ends <= (m - here) + 1, ends # 1
    PROVE  /\ here <= e /\ e <= m - 1 /\ e <= L
           /\ here - here + 1 = 1 /\ e - here + 1 = ends - 1 /\ e \in here .. L
           /\ \A k \in here .. e :
                  /\ k \in here .. m - 1 /\ k - here + 1 \in 1 .. ends - 1
                  /\ k - here + 1 \in 1 .. m - here
                  /\ here + (k - here + 1) - 1 = k /\ k \in 1 .. L
  <1>1. /\ here <= e /\ e <= m - 1 /\ e <= L /\ e - here + 1 = ends - 1
    OBVIOUS
  <1>2. ASSUME NEW k \in here .. e
        PROVE  /\ k \in here .. m - 1 /\ k - here + 1 \in 1 .. ends - 1
               /\ k - here + 1 \in 1 .. m - here
               /\ here + (k - here + 1) - 1 = k /\ k \in 1 .. L
    BY <1>1
  <1>. QED BY <1>1, <1>2

LEMMA SelectionInSentence ==
    ASSUME IsParagraph, NEW place \in Hits
    PROVE  Occurs(WordOf(ScannedPlaces(place)), GetSentence(place))
  <1>. DEFINE here == Index(place)
              text == Spelled(Places)
              word == Spelled(ScannedPlaces(place))
              found == { k \in 1 .. Len(word) : word[k] \in SentenceDelimiters }
              ends == First(found, Len(word))
              e == here + ends - 2
  <1>1. /\ Places \in Seq(Nat \X Nat) /\ here \in 1 .. Len(Places)
        /\ Len(Places) \in Nat
    BY PlacesIsSeq, HitAt
  <1>2. /\ text \in Seq(Characters) /\ Len(text) = Len(Places)
        /\ \A k \in 1 .. Len(Places) : text[k] = CharAt(Places[k])
    BY <1>1, SpelledFacts
  <1>3. PICK m \in here .. Len(Places) + 1 :
            /\ ScannedPlaces(place) = SubSeq(Places, here, m - 1)
            /\ \A k \in here .. m - 1 : CharAt(Places[k]) \notin ScanDelimiters
    BY ScannedFacts
  <1>4. /\ m - 1 \in Int /\ here \in Int /\ 1 <= here /\ here <= (m - 1) + 1
        /\ m - 1 <= Len(Places)
    BY <1>1, <1>3
  <1>5. word = SubSeq(text, here, m - 1)
    BY <1>1, <1>3, <1>4, SpelledSubSeq
  <1>6. WordOf(ScannedPlaces(place)) = SubSeq(word, 1, ends - 1)
    BY DEF WordOf
  <1>. HIDE DEF word, text, here
  <1>7. /\ word \in Seq(Characters) /\ Len(word) = m - here
        /\ \A k \in 1 .. m - here : word[k] = text[here + k - 1]
    <2>. DEFINE last == m - 1
    <2>1. last - here + 1 = m - here
      BY <1>4
    <2>2. /\ text \in Seq(Characters) /\ here \in Int /\ last \in Int
          /\ 1 <= here /\ here <= last + 1 /\ last <= Len(text)
          /\ word = SubSeq(text, here, last)
      BY <1>2, <1>4, <1>5
    <2>. HIDE DEF last
    <2>3. /\ word \in Seq(Characters) /\ Len(word) = last - here + 1
          /\ \A k \in 1 .. last - here + 1 : word[k] = text[here + k - 1]
      BY ONLY <2>2, SubSeqFacts
    <2>. QED BY ONLY <2>1, <2>3
  <1>8. ends \in 1 .. Len(word) + 1 /\ \A k \in 1 .. ends - 1 : k \notin found
    <2>1. 1 \in Nat /\ 1 <= Len(word) + 1 /\ found \subseteq 1 .. Len(word)
          /\ Len(word) \in Int
      BY <1>7
    <2>. HIDE DEF found
    <2>. QED BY <2>1, FirstFacts
  <1>. HIDE DEF ends
  <1>9. CASE ends = 1
    <2>. DEFINE sentenceIs == GetSentence(place)
    <2>1. sentenceIs \in Seq(Characters)
      BY SentenceIsSeq
    <2>. HIDE DEF sentenceIs
    <2>2. SubSeq(word, 1, ends - 1) = SubSeq(sentenceIs, 1, 0)
      BY <1>7, <1>9, <2>1
    <2>3. Occurs(SubSeq(sentenceIs, 1, 0), sentenceIs)
      <3>1. 1 \in Int /\ 0 \in Int /\ 1 <= 0 + 1 /\ 0 <= Len(sentenceIs)
        BY <2>1
      <3>. QED BY <2>1, <3>1, OccursAt
    <2>. QED BY <1>6, <2>2, <2>3 DEF sentenceIs
  <1>10. CASE ends # 1
    <2>1. /\ e \in Int /\ here <= e /\ e <= m - 1 /\ e <= Len(Places)
          /\ here - here + 1 = 1 /\ e - here + 1 = ends - 1
          /\ e \in here .. Len(Places)
          /\ \A k \in here .. e :
                 /\ k \in here .. m - 1 /\ k - here + 1 \in 1 .. ends - 1
                 /\ k - here + 1 \in 1 .. m - here
                 /\ here + (k - here + 1) - 1 = k /\ k \in 1 .. Len(Places)
      <3>1. /\ here \in Int /\ m \in Int /\ ends \in Int /\ Len(Places) \in Int
            /\ 1 <= here /\ m - 1 <= Len(Places)
            /\ 1 <= ends /\ ends <= (m - here) + 1
        <4>1. here \in Int /\ m \in Int /\ Len(Places) \in Int
          BY <1>1, <1>3
        <4>2. ends \in Int /\ 1 <= ends /\ ends <= (m - here) + 1
          BY <1>7, <1>8, <4>1
        <4>. QED BY <1>4, <4>1, <4>2
      <3>2. e \in Int /\ e = here + ends - 2
        BY <3>1
      <3>. HIDE DEF e
      <3>. QED BY <1>10, <3>1, <3>2, WordEnds
    <2>2. SubSeq(word, 1, ends - 1) = SubSeq(text, here, e)
      <3>1. SubSeq(SubSeq(text, here, m - 1), here - here + 1, e - here + 1)
              = SubSeq(text, here, e)
        <4>. HIDE DEF e
        <4>1. /\ here \in Int /\ m - 1 \in Int /\ 1 <= here /\ here <= here
              /\ here <= e + 1 /\ e <= m - 1 /\ m - 1 <= Len(text)
              /\ here <= (m - 1) + 1
          BY <1>2, <1>4, <2>1
        <4>. QED BY <1>2, <2>1, <4>1, SubSeqTwice
      <3>. QED BY <1>5, <2>1, <3>1
    <2>3. ASSUME NEW k \in here .. e
          PROVE  /\ CharAt(Places[k]) \notin SentenceDelimiters
                 /\ CharAt(Places[k]) \notin ScanDelimiters
      <3>1. /\ k \in here .. m - 1 /\ k - here + 1 \in 1 .. ends - 1
            /\ k - here + 1 \in 1 .. m - here /\ here + (k - here + 1) - 1 = k
            /\ k \in 1 .. Len(Places) /\ k - here + 1 \in 1 .. Len(word)
        <4>. HIDE DEF e
        <4>. QED BY <1>7, <2>1
      <3>2. word[k - here + 1] = CharAt(Places[k])
        BY <1>2, <1>7, <3>1
      <3>3. word[k - here + 1] \notin SentenceDelimiters
        BY <1>8, <3>1
      <3>. QED BY <1>3, <3>1, <3>2, <3>3
    <2>. HIDE DEF e
    <2>4. Occurs(SubSeq(text, here, e), GetSentence(place))
      BY <2>1, <2>3, SentenceHolds DEF here, text
    <2>. QED BY <1>6, <2>2, <2>4
  <1>. QED BY <1>9, <1>10

-----------------------------------------------------------------------------
(* Taps and answers *)

SelectionInv ==
    /\ IsParagraph
    /\ paragraph = << >> => selection = NoSelection
    /\ selection.places \in Seq(Nat \X Nat)
    /\ highlights \in Seq(Nat \X Nat)
    /\ SentenceHoldsWord
    /\ HighlightBeginsSelection

LEMMA WordIs == WordInSentence = WordOf(selection.places)
  BY DEF WordInSentence, WordOf, Least, First

LEMMA EmptyIsPrefix ==
    ASSUME NEW S, NEW s \in Seq(S)
    PROVE  << >> \in Seq(S) /\ IsPrefix(<< >>, s)
  BY DEF IsPrefix

LEMMA NothingIsPrefix ==
    << >> \in Seq(Nat \X Nat) /\ IsPrefix(<< >>, << >>)
  <1>1. << >> \in Seq(Nat \X Nat)
    OBVIOUS
  <1>. QED BY <1>1, EmptyIsPrefix

LEMMA SubSeqIsPrefix ==
    ASSUME NEW S, NEW s \in Seq(S), NEW n \in 0 .. Len(s)
    PROVE  SubSeq(s, 1, n) \in Seq(S) /\ IsPrefix(SubSeq(s, 1, n), s)
  <1>1. /\ SubSeq(s, 1, n) \in Seq(S) /\ Len(SubSeq(s, 1, n)) = n
    OBVIOUS
  <1>2. SubSeq(SubSeq(s, 1, n), 1, n) = SubSeq(s, 1, n)
    BY <1>1
  <1>. QED BY <1>1, <1>2 DEF IsPrefix

LEMMA SelectionInvStep == SelectionInv /\ [SelectionNext]_selectionVars => SelectionInv'
  <1>1. SUFFICES ASSUME SelectionInv, [SelectionNext]_selectionVars
                 PROVE  SelectionInv'
    OBVIOUS
  <1>2. CASE UNCHANGED << paragraph, selection, sentence >>
             /\ highlights' \in Seq(Nat \X Nat) /\ IsPrefix(highlights', selection.places)
    <2>1. WordInSentence' = WordInSentence
      BY <1>2 DEF WordInSentence, Spelled, CharAt, Least
    <2>2. SentenceHoldsWord'
      BY <1>1, <1>2, <2>1 DEF SelectionInv, SentenceHoldsWord
    <2>. QED BY <1>1, <1>2, <2>2
             DEF SelectionInv, IsParagraph, HighlightBeginsSelection
  <1>3. CASE UNCHANGED paragraph /\ selection' = NoSelection /\ highlights' = << >>
    <2>1. selection'.places = << >>
      BY <1>3 DEF NoSelection
    <2>2. highlights' \in Seq(Nat \X Nat) /\ selection'.places \in Seq(Nat \X Nat)
          /\ IsPrefix(highlights', selection'.places)
      BY <1>3, <2>1, NothingIsPrefix
    <2>. QED BY <1>1, <1>3, <2>2
             DEF SelectionInv, IsParagraph, SentenceHoldsWord, HighlightBeginsSelection
  <1>4. CASE TextShown
    <2>1. selection = NoSelection /\ UNCHANGED << selection, highlights >>
          /\ paragraph' \in Paragraphs
      BY <1>1, <1>4 DEF SelectionInv, TextShown
    <2>2. paragraph' # << >> \/ selection' = NoSelection
      BY <2>1
    <2>. QED BY <1>1, <2>1
             DEF SelectionInv, IsParagraph, SentenceHoldsWord, HighlightBeginsSelection
  <1>5. CASE SelectText
    <2>1. PICK place \in Hits :
              /\ selection' = [start |-> place, places |-> ScannedPlaces(place)]
              /\ sentence' = GetSentence(place)
      BY <1>5 DEF SelectText
    <2>2. highlights' = << >> /\ paragraph' = paragraph /\ IsParagraph
      BY <1>1, <1>5 DEF SelectText, SelectionInv
    <2>3. paragraph # << >>
      <3>1. Places \in Seq(Nat \X Nat) /\ Index(place) \in 1 .. Len(Places)
        BY <2>1, <2>2, PlacesIsSeq, HitAt
      <3>2. SUFFICES ASSUME paragraph = << >> PROVE FALSE
        OBVIOUS
      <3>3. Places = << >>
        BY <3>2 DEF Places, FlattenSeq
      <3>. QED BY <3>1, <3>3
    <2>4. selection'.places = ScannedPlaces(place)
      BY <2>1
    <2>5. selection'.places \in Seq(Nat \X Nat)
      <3>1. Places \in Seq(Nat \X Nat) /\ Index(place) \in 1 .. Len(Places)
        BY <2>1, <2>2, PlacesIsSeq, HitAt
      <3>2. PICK m \in Index(place) .. Len(Places) + 1 :
                ScannedPlaces(place) = SubSeq(Places, Index(place), m - 1)
        BY <2>1, <2>2, ScannedFacts
      <3>3. /\ Index(place) \in Int /\ m - 1 \in Int /\ 1 <= Index(place)
            /\ Index(place) <= (m - 1) + 1 /\ m - 1 <= Len(Places)
        BY <3>1, <3>2
      <3>4. SubSeq(Places, Index(place), m - 1) \in Seq(Nat \X Nat)
        BY <3>1, <3>3, SubSeqFacts, SMTT(30)
      <3>. QED BY <2>4, <3>2, <3>4
    <2>6. WordInSentence' = WordOf(selection'.places)
      BY <2>2 DEF WordInSentence, WordOf, Least, First, Spelled, CharAt
    <2>7. SentenceHoldsWord'
      <3>1. Occurs(WordOf(ScannedPlaces(place)), GetSentence(place))
        BY <2>1, <2>2, SelectionInSentence
      <3>2. Occurs(WordInSentence', sentence')
        BY <2>1, <2>4, <2>6, <3>1
      <3>. QED BY <3>2 DEF SentenceHoldsWord
    <2>8. HighlightBeginsSelection' /\ highlights' \in Seq(Nat \X Nat)
      BY <2>2, <2>5, EmptyIsPrefix DEF HighlightBeginsSelection
    <2>. QED BY <2>2, <2>3, <2>5, <2>7, <2>8 DEF SelectionInv, IsParagraph
  <1>6. CASE TapMissed \/ TapAgain
    BY <1>3, <1>6 DEF TapMissed, TapAgain, ClearSelection
  <1>7. CASE HighlightSelection
    <2>1. UNCHANGED << paragraph, selection, sentence >>
      BY <1>7 DEF HighlightSelection
    <2>2. highlights' \in Seq(Nat \X Nat) /\ IsPrefix(highlights', selection.places)
      <3>1. PICK length \in lookupsOut : \E matched \in 0 .. length :
                highlights' =
                    IF selection.places = << >> \/ matched = 0 THEN highlights
                    ELSE SubSeq(selection.places, 1,
                                IF matched < Len(selection.places) THEN matched
                                ELSE Len(selection.places))
        BY <1>7 DEF HighlightSelection
      <3>2. PICK matched \in 0 .. length :
                highlights' =
                    IF selection.places = << >> \/ matched = 0 THEN highlights
                    ELSE SubSeq(selection.places, 1,
                                IF matched < Len(selection.places) THEN matched
                                ELSE Len(selection.places))
        BY <3>1
      <3>3. CASE selection.places = << >> \/ matched = 0
        BY <1>1, <3>2, <3>3 DEF SelectionInv, HighlightBeginsSelection
      <3>4. CASE ~(selection.places = << >> \/ matched = 0)
        <4>. DEFINE n == IF matched < Len(selection.places) THEN matched
                         ELSE Len(selection.places)
        <4>1. selection.places \in Seq(Nat \X Nat) /\ n \in 0 .. Len(selection.places)
          BY <1>1 DEF SelectionInv
        <4>2. highlights' = SubSeq(selection.places, 1, n)
          BY <3>2, <3>4
        <4>. HIDE DEF n
        <4>. QED BY <4>1, <4>2, SubSeqIsPrefix
      <3>. QED BY <3>3, <3>4
    <2>. QED BY <1>2, <2>1, <2>2
  <1>8. CASE UNCHANGED selectionVars
    BY <1>1, <1>2, <1>8 DEF selectionVars, SelectionInv, HighlightBeginsSelection
  <1>. QED BY <1>1, <1>4, <1>5, <1>6, <1>7, <1>8 DEF SelectionNext

LEMMA SelectionInvInit == SelectionInit => SelectionInv
  <1>1. SUFFICES ASSUME SelectionInit PROVE SelectionInv
    OBVIOUS
  <1>2. selection.places = << >> /\ highlights = << >> /\ selection = NoSelection
        /\ paragraph = << >>
    BY <1>1 DEF SelectionInit, NoSelection
  <1>3. IsPrefix(highlights, selection.places) /\ highlights \in Seq(Nat \X Nat)
        /\ selection.places \in Seq(Nat \X Nat)
    BY <1>2, NothingIsPrefix
  <1>. QED BY <1>2, <1>3
           DEF SelectionInv, IsParagraph, SentenceHoldsWord, HighlightBeginsSelection

\* Whatever a text consists of, however furigana cut it into nodes and brackets
\* and blanks surround its words: the sentence that getSentence puts beside a
\* selection contains the word selected, up to where its sentence ends.
THEOREM SentencesHoldWords == SelectionSpec => []SentenceHoldsWord
  <1>1. SelectionInv => SentenceHoldsWord
    BY DEF SelectionInv
  <1>. QED BY <1>1, SelectionInvInit, SelectionInvStep, PTL DEF SelectionSpec

\* What is highlighted begins what is selected, whichever tap an answer of
\* Flutter belongs to (highlightSelection).
THEOREM HighlightsBeginSelections == SelectionSpec => []HighlightBeginsSelection
  <1>1. SelectionInv => HighlightBeginsSelection
    BY DEF SelectionInv
  <1>. QED BY <1>1, SelectionInvInit, SelectionInvStep, PTL DEF SelectionSpec

-----------------------------------------------------------------------------
(* What pieces spell *)

\* Two parts of a sequence that are next to one another.
LEMMA SubSeqJoin ==
    ASSUME NEW S, NEW s \in Seq(S), NEW a \in Int, NEW b \in Int, NEW c \in Int,
           1 <= a, a <= b + 1, b <= c, c <= Len(s)
    PROVE  SubSeq(s, a, b) \o SubSeq(s, b + 1, c) = SubSeq(s, a, c)
  <1>. DEFINE u == SubSeq(s, a, b)
              v == SubSeq(s, b + 1, c)
              w == SubSeq(s, a, c)
  <1>1. /\ u \in Seq(S) /\ Len(u) = b - a + 1
        /\ \A i \in 1 .. b - a + 1 : u[i] = s[a + i - 1]
    BY SubSeqFacts
  <1>2. /\ v \in Seq(S) /\ Len(v) = c - b
        /\ \A i \in 1 .. c - b : v[i] = s[b + i]
    <2>1. /\ 1 <= b + 1 /\ b + 1 <= c + 1 /\ b + 1 \in Int
          /\ c - (b + 1) + 1 = c - b /\ \A i \in Int : (b + 1) + i - 1 = b + i
      OBVIOUS
    <2>2. /\ v \in Seq(S) /\ Len(v) = c - (b + 1) + 1
          /\ \A i \in 1 .. c - (b + 1) + 1 : v[i] = s[(b + 1) + i - 1]
      BY <2>1, SubSeqFacts
    <2>. HIDE DEF v
    <2>. QED BY <2>1, <2>2
  <1>3. /\ w \in Seq(S) /\ Len(w) = c - a + 1
        /\ \A i \in 1 .. c - a + 1 : w[i] = s[a + i - 1]
    <2>1. a <= c + 1
      OBVIOUS
    <2>. QED BY <2>1, SubSeqFacts
  <1>. HIDE DEF u, v, w
  <1>. DEFINE uv == u \o v
  <1>4. /\ uv \in Seq(S) /\ Len(uv) = c - a + 1
        /\ \A i \in 1 .. Len(u) : uv[i] = u[i]
        /\ \A i \in Len(u) + 1 .. Len(u) + Len(v) : uv[i] = v[i - Len(u)]
    BY <1>1, <1>2
  <1>. HIDE DEF uv
  <1>5. ASSUME NEW i \in 1 .. c - a + 1 PROVE uv[i] = w[i]
    <2>1. CASE i <= b - a + 1
      <3>1. i \in 1 .. Len(u) /\ i \in 1 .. b - a + 1
        BY <1>1, <2>1
      <3>. QED BY <1>1, <1>3, <1>4, <3>1
    <2>2. CASE i > b - a + 1
      <3>1. /\ i \in Len(u) + 1 .. Len(u) + Len(v)
            /\ i - Len(u) \in 1 .. c - b /\ b + (i - Len(u)) = a + i - 1
        <4>1. Len(u) = b - a + 1 /\ Len(v) = c - b /\ i \in 1 .. c - a + 1
          BY <1>1, <1>2
        <4>2. a \in Int /\ b \in Int /\ c \in Int
          OBVIOUS
        <4>. QED BY ONLY <2>2, <4>1, <4>2
      <3>. QED BY <1>2, <1>3, <1>4, <3>1
    <2>. QED BY <2>1, <2>2
  <1>6. uv \in Seq(S) /\ Len(uv) = Len(w) /\ \A i \in 1 .. Len(w) : uv[i] = w[i]
    BY <1>3, <1>4, <1>5
  <1>7. uv = w
    BY <1>3, <1>6
  <1>. QED BY <1>7 DEF uv, u, v, w

\* The beginnings of what pieces spell, one after each piece.
Spelling(h, S, pieces) ==
    /\ h \in [0 .. Len(pieces) -> Seq(S)]
    /\ h[0] = << >>
    /\ \A i \in 1 .. Len(pieces) : h[i] = h[i - 1] \o pieces[i]

Spells(S, pieces, s) ==
    /\ pieces \in Seq(Seq(S))
    /\ \E h : Spelling(h, S, pieces) /\ h[Len(pieces)] = s

LEMMA SpellsFlatten ==
    ASSUME NEW S, NEW pieces, NEW s, Spells(S, pieces, s)
    PROVE  FlattenSeq(pieces) = s
  <1>. DEFINE L == Len(pieces)
              P(f) == f = [i \in 1 .. L |->
                             IF i = 1 THEN pieces[i] ELSE f[i - 1] \o pieces[i]]
              g == CHOOSE f : P(f)
  <1>1. PICK h : Spelling(h, S, pieces) /\ h[L] = s
    BY DEF Spells
  <1>2. L \in Nat /\ pieces \in Seq(Seq(S)) /\ \A i \in 1 .. L : pieces[i] \in Seq(S)
    BY DEF Spells
  <1>3. /\ h \in [0 .. L -> Seq(S)] /\ h[0] = << >>
        /\ \A i \in 1 .. L : h[i] = h[i - 1] \o pieces[i]
    BY <1>1 DEF Spelling
  <1>4. CASE L = 0
    <2>1. pieces = << >> /\ h[L] = << >>
      BY <1>2, <1>3, <1>4
    <2>. QED BY <1>1, <1>4, <2>1 DEF FlattenSeq
  <1>5. CASE L # 0
    <2>1. FlattenSeq(pieces) = g[L]
      BY <1>5 DEF FlattenSeq
    <2>2. \E f : P(f)
      <3>. DEFINE k == [i \in 1 .. L |-> h[i]]
      <3>1. ASSUME NEW i \in 1 .. L
            PROVE  k[i] = IF i = 1 THEN pieces[i] ELSE k[i - 1] \o pieces[i]
        <4>1. k[i] = h[i - 1] \o pieces[i]
          BY <1>3
        <4>2. CASE i = 1
          <5>1. << >> \o pieces[1] = pieces[1] /\ h[i - 1] = << >>
            BY <1>2, <1>3, <1>5, <4>2
          <5>. HIDE DEF k
          <5>. QED BY <4>1, <4>2, <5>1
        <4>3. CASE i # 1
          <5>1. i - 1 \in 1 .. L
            BY <1>2, <4>3
          <5>2. k[i - 1] = h[i - 1]
            BY <5>1
          <5>. HIDE DEF k
          <5>. QED BY <4>1, <4>3, <5>2
        <4>. QED BY <4>2, <4>3
      <3>2. P(k)
        BY <3>1
      <3>. HIDE DEF k, P
      <3>. QED BY <3>2
    <2>3. P(g)
      <3>. HIDE DEF P
      <3>. QED BY <2>2
    <2>4. \A i \in 1 .. L : g[i] = IF i = 1 THEN pieces[i] ELSE g[i - 1] \o pieces[i]
      <3>. HIDE DEF g, L
      <3>1. g = [i \in 1 .. L |-> IF i = 1 THEN pieces[i] ELSE g[i - 1] \o pieces[i]]
        BY <2>3
      <3>. HIDE DEF P
      <3>. QED BY <3>1
    <2>. HIDE DEF g, L
    <2>. DEFINE T == { n \in Nat : n + 1 <= L => g[n + 1] = h[n + 1] }
    <2>5. 0 \in T
      <3>1. 1 \in 1 .. L /\ << >> \o pieces[1] = pieces[1]
        BY <1>2, <1>5
      <3>2. g[1] = pieces[1]
        BY <2>4, <3>1
      <3>3. ASSUME NEW i \in 1 .. L, i = 1 PROVE g[i] = h[i]
        <4>1. h[i] = h[i - 1] \o pieces[i]
          BY <1>3
        <4>2. h[i - 1] = << >> /\ pieces[i] = pieces[1] /\ g[i] = g[1]
          BY <1>3, <3>3
        <4>. QED BY <3>1, <3>2, <4>1, <4>2
      <3>4. g[1] = h[1]
        BY <3>1, <3>3
      <3>. QED BY <3>4
    <2>6. ASSUME NEW n \in Nat, n \in T PROVE n + 1 \in T
      <3>1. SUFFICES ASSUME (n + 1) + 1 <= L PROVE g[(n + 1) + 1] = h[(n + 1) + 1]
        OBVIOUS
      <3>2. /\ (n + 1) + 1 \in 1 .. L /\ ((n + 1) + 1) - 1 = n + 1
            /\ (n + 1) + 1 # 1 /\ n + 1 <= L
        BY <1>2, <3>1
      <3>3. g[n + 1] = h[n + 1]
        BY <2>6, <3>2
      <3>. HIDE DEF T
      <3>4. g[(n + 1) + 1] = g[n + 1] \o pieces[(n + 1) + 1]
        BY <2>4, <3>2
      <3>5. h[(n + 1) + 1] = h[n + 1] \o pieces[(n + 1) + 1]
        BY <1>3, <3>2
      <3>. QED BY <3>3, <3>4, <3>5
    <2>7. L - 1 \in T
      <3>1. L - 1 \in Nat
        BY <1>2, <1>5
      <3>. HIDE DEF T
      <3>. QED BY <2>5, <2>6, <3>1, SetInduction
    <2>8. (L - 1) + 1 = L
      BY <1>2
    <2>. QED BY <1>1, <2>1, <2>7, <2>8
  <1>. QED BY <1>4, <1>5

LEMMA NothingSpells == ASSUME NEW S PROVE Spells(S, << >>, << >>)
  <1>. DEFINE h == [i \in 0 .. 0 |-> << >>]
  <1>1. << >> \in Seq(S) /\ << >> \in Seq(Seq(S)) /\ Len(<< >>) = 0
    OBVIOUS
  <1>2. h \in [0 .. 0 -> Seq(S)] /\ h[0] = << >>
    BY <1>1
  <1>. HIDE DEF h
  <1>3. Spelling(h, S, << >>)
    BY <1>1, <1>2 DEF Spelling
  <1>. QED BY <1>1, <1>2, <1>3 DEF Spells

LEMMA OneSpells == ASSUME NEW S, NEW s \in Seq(S) PROVE Spells(S, << s >>, s)
  <1>. DEFINE h == [i \in 0 .. 1 |-> IF i = 0 THEN << >> ELSE s]
  <1>1. /\ << s >> \in Seq(Seq(S)) /\ Len(<< s >>) = 1 /\ << s >>[1] = s
        /\ << >> \o s = s /\ << >> \in Seq(S)
    OBVIOUS
  <1>2. h \in [0 .. 1 -> Seq(S)] /\ h[0] = << >> /\ h[1] = s
    BY <1>1
  <1>. DEFINE p == << s >>
  <1>3. Len(p) = 1 /\ p[1] = s /\ p \in Seq(Seq(S))
    BY <1>1
  <1>. HIDE DEF h, p
  <1>4. \A i \in 1 .. Len(p) : i = 1 /\ i - 1 = 0
    BY <1>3
  <1>5. Spelling(h, S, p)
    BY <1>1, <1>2, <1>3, <1>4 DEF Spelling
  <1>6. Spells(S, p, s)
    BY <1>2, <1>3, <1>5 DEF Spells
  <1>. QED BY <1>6 DEF p

LEMMA SpellsJoin ==
    ASSUME NEW S, NEW p, NEW q, NEW s, NEW t, Spells(S, p, s), Spells(S, q, t)
    PROVE  Spells(S, p \o q, s \o t)
  <1>1. PICK f : Spelling(f, S, p) /\ f[Len(p)] = s
    BY DEF Spells
  <1>2. PICK g : Spelling(g, S, q) /\ g[Len(q)] = t
    BY DEF Spells
  <1>. DEFINE m == Len(p)
              n == Len(q)
              pq == p \o q
              h == [i \in 0 .. m + n |-> IF i <= m THEN f[i] ELSE s \o g[i - m]]
  <1>3. /\ p \in Seq(Seq(S)) /\ q \in Seq(Seq(S)) /\ m \in Nat /\ n \in Nat
        /\ pq \in Seq(Seq(S)) /\ Len(pq) = m + n
        /\ \A i \in 1 .. m : pq[i] = p[i] /\ p[i] \in Seq(S)
        /\ \A i \in m + 1 .. m + n : pq[i] = q[i - m]
        /\ \A i \in 1 .. n : q[i] \in Seq(S)
    BY DEF Spells
  <1>4. /\ f \in [0 .. m -> Seq(S)] /\ f[0] = << >> /\ f[m] = s
        /\ \A i \in 1 .. m : f[i] = f[i - 1] \o p[i]
    BY <1>1 DEF Spelling
  <1>5. /\ g \in [0 .. n -> Seq(S)] /\ g[0] = << >> /\ g[n] = t
        /\ \A i \in 1 .. n : g[i] = g[i - 1] \o q[i]
    BY <1>2 DEF Spelling
  <1>. HIDE DEF m, n, pq
  <1>6. s \in Seq(S) /\ t \in Seq(S) /\ s \o << >> = s
    <2>1. f[m] \in Seq(S) /\ g[n] \in Seq(S)
      BY <1>3, <1>4, <1>5
    <2>. QED BY <1>4, <1>5, <2>1
  <1>7. ASSUME NEW i \in 0 .. m + n PROVE h[i] \in Seq(S)
    <2>1. CASE i <= m
      BY <1>3, <1>4, <2>1
    <2>2. CASE ~(i <= m)
      <3>1. i - m \in 0 .. n
        BY <1>3, <2>2
      <3>2. g[i - m] \in Seq(S)
        BY <1>5, <3>1
      <3>. QED BY <1>6, <2>2, <3>2
    <2>. QED BY <2>1, <2>2
  <1>8. h[0] = << >> /\ h[m + n] = s \o t
    <2>1. h[0] = f[0]
      BY <1>3
    <2>2. CASE n = 0
      <3>1. h[m + n] = f[m] /\ t = << >>
        BY <1>3, <1>5, <2>2
      <3>. HIDE DEF h
      <3>. QED BY <1>4, <1>6, <2>1, <3>1
    <2>3. CASE n # 0
      <3>1. m + n \in 0 .. m + n /\ ~(m + n <= m) /\ (m + n) - m = n
        BY <1>3, <2>3
      <3>2. h[m + n] = s \o g[(m + n) - m]
        BY ONLY <3>1 DEF h
      <3>3. h[m + n] = s \o g[n]
        <4>. HIDE DEF h
        <4>. QED BY ONLY <3>1, <3>2
      <3>. HIDE DEF h
      <3>. QED BY <1>4, <1>5, <2>1, <3>3
    <2>. QED BY <2>2, <2>3
  <1>9. ASSUME NEW i \in 1 .. m + n PROVE h[i] = h[i - 1] \o pq[i]
    <2>1. CASE i <= m
      <3>1. /\ i \in 1 .. m /\ i - 1 <= m /\ i \in 0 .. m + n /\ i - 1 \in 0 .. m + n
        BY <1>3, <2>1
      <3>2. h[i] = f[i] /\ h[i - 1] = f[i - 1]
        BY <3>1
      <3>. HIDE DEF h
      <3>. QED BY <1>3, <1>4, <3>1, <3>2
    <2>2. CASE ~(i <= m)
      <3>1. /\ i \in 0 .. m + n /\ i - 1 \in 0 .. m + n
            /\ (i - m) - 1 = (i - 1) - m /\ i - m \in 1 .. n /\ i \in m + 1 .. m + n
            /\ (i - m) - 1 \in 0 .. n
        <4>. HIDE DEF h
        <4>1. i \in Int /\ i >= m + 1 /\ i <= m + n /\ m \in Nat /\ n \in Nat
          BY <1>3, <2>2
        <4>2. i \in 0 .. m + n /\ i - 1 \in 0 .. m + n /\ i \in m + 1 .. m + n
          BY <4>1
        <4>3. (i - m) - 1 = (i - 1) - m /\ i - m \in 1 .. n /\ (i - m) - 1 \in 0 .. n
          BY <4>1
        <4>. QED BY <4>2, <4>3
      <3>2. h[i] = s \o g[i - m]
        BY <2>2, <3>1
      <3>3. h[i - 1] = s \o g[(i - m) - 1]
        <4>1. CASE i - 1 <= m
          <5>1. (i - m) - 1 = 0 /\ i - 1 = m
            BY <1>3, <2>2, <4>1
          <5>2. h[i - 1] = f[m]
            BY <3>1, <4>1, <5>1
          <5>. HIDE DEF h
          <5>. QED BY <1>4, <1>5, <1>6, <5>1, <5>2
        <4>2. CASE ~(i - 1 <= m)
          BY <3>1, <4>2
        <4>. QED BY <4>1, <4>2
      <3>. HIDE DEF h
      <3>4. g[i - m] = g[(i - m) - 1] \o q[i - m] /\ pq[i] = q[i - m]
        BY <1>3, <1>5, <3>1
      <3>5. g[(i - m) - 1] \in Seq(S) /\ q[i - m] \in Seq(S)
        BY <1>3, <1>5, <3>1
      <3>6. ASSUME NEW b \in Seq(S), NEW c \in Seq(S)
            PROVE  s \o (b \o c) = (s \o b) \o c
        BY <1>6
      <3>7. s \o (g[(i - m) - 1] \o q[i - m]) = (s \o g[(i - m) - 1]) \o q[i - m]
        BY ONLY <3>5, <3>6
      <3>. QED BY ONLY <3>2, <3>3, <3>4, <3>7
    <2>. QED BY <2>1, <2>2
  <1>10. h \in [0 .. m + n -> Seq(S)]
    BY <1>7
  <1>. HIDE DEF h
  <1>11. Spelling(h, S, pq)
    BY <1>3, <1>8, <1>9, <1>10 DEF Spelling
  <1>12. Spells(S, pq, s \o t)
    BY <1>3, <1>8, <1>11 DEF Spells
  <1>. QED BY <1>12 DEF pq


-----------------------------------------------------------------------------
(* Runs *)

Runs == Seq([from : Nat, to : Nat])

\* Where a run ends; before the first one, nothing has.
EndOf(runs, i) == IF i = 0 THEN 0 ELSE runs[i].to

\* Runs hold the numbers to n in order, and none changes within a run.
RunsCover(runs, n, changes) ==
    /\ runs \in Runs
    /\ EndOf(runs, Len(runs)) = n
    /\ \A i \in 1 .. Len(runs) :
           /\ runs[i].from = EndOf(runs, i - 1) + 1
           /\ runs[i].from <= runs[i].to
           /\ \A k \in runs[i].from + 1 .. runs[i].to : k \notin changes

LEMMA RunTo ==
    ASSUME NEW run \in [from : Nat, to : Nat], NEW k \in Nat
    PROVE  /\ [run EXCEPT !.to = k] \in [from : Nat, to : Nat]
           /\ [run EXCEPT !.to = k].from = run.from
           /\ [run EXCEPT !.to = k].to = k
  OBVIOUS

LEMMA RunsWithType ==
    ASSUME NEW runs \in Runs, NEW k \in Nat, NEW changes
    PROVE  RunsWith(runs, k, changes) \in Runs
  <1>. DEFINE Run == [from : Nat, to : Nat]
  <1>1. runs \in Seq(Run) /\ [from |-> k, to |-> k] \in Run /\ Runs = Seq(Run)
    BY DEF Runs
  <1>2. CASE k = 1 \/ k \in changes
    <2>1. RunsWith(runs, k, changes) = Append(runs, [from |-> k, to |-> k])
      BY <1>2 DEF RunsWith
    <2>. HIDE DEF Run
    <2>. QED BY <1>1, <2>1
  <1>3. CASE ~(k = 1 \/ k \in changes)
    <2>. DEFINE L == Len(runs)
                last == [runs[L] EXCEPT !.to = k]
                new == [runs EXCEPT ![L] = last]
    <2>1. RunsWith(runs, k, changes) = new
      BY <1>3 DEF RunsWith
    <2>2. L \in Nat /\ DOMAIN runs = 1 .. L
      BY <1>1
    <2>3. ASSUME L \in 1 .. L PROVE last \in Run
      <3>1. runs[L] \in Run
        <4>. HIDE DEF Run
        <4>. QED BY <1>1, <2>3
      <3>. QED BY <3>1, RunTo
    <2>. HIDE DEF last, Run
    <2>4. new \in [1 .. L -> Run]
      <3>1. runs \in [1 .. L -> Run]
        BY <1>1
      <3>. HIDE DEF L
      <3>. QED BY <2>2, <2>3, <3>1
    <2>5. new \in Seq(Run)
      <3>. HIDE DEF new, L
      <3>. QED BY <2>2, <2>4
    <2>. QED BY <1>1, <2>1, <2>5
  <1>. QED BY <1>2, <1>3

LEMMA RunsWithCover ==
    ASSUME NEW runs, NEW n \in Nat, NEW changes, RunsCover(runs, n, changes)
    PROVE  RunsCover(RunsWith(runs, n + 1, changes), n + 1, changes)
  <1>. DEFINE Run == [from : Nat, to : Nat]
              L == Len(runs)
              new == RunsWith(runs, n + 1, changes)
  <1>1. /\ runs \in Seq(Run) /\ L \in Nat /\ EndOf(runs, L) = n
        /\ \A i \in 1 .. L : runs[i] \in Run
        /\ \A i \in 1 .. L :
               /\ runs[i].from = EndOf(runs, i - 1) + 1
               /\ runs[i].from <= runs[i].to
               /\ \A k \in runs[i].from + 1 .. runs[i].to : k \notin changes
    <2>1. runs \in Seq(Run)
      BY DEF RunsCover, Runs
    <2>2. L \in Nat /\ \A i \in 1 .. L : runs[i] \in Run
      <3>. HIDE DEF Run
      <3>. QED BY <2>1
    <2>. HIDE DEF Run
    <2>. QED BY <2>1, <2>2 DEF RunsCover
  <1>2. new \in Runs
    BY <1>1, RunsWithType DEF Runs
  <1>3. CASE n + 1 = 1 \/ n + 1 \in changes
    <2>. DEFINE one == [from |-> n + 1, to |-> n + 1]
    <2>1. one \in Run /\ one.from = n + 1 /\ one.to = n + 1
      OBVIOUS
    <2>2. new = Append(runs, one)
      BY <1>3 DEF RunsWith
    <2>. HIDE DEF one, new, Run
    <2>3. /\ Len(new) = L + 1 /\ new[L + 1] = one
          /\ \A i \in 1 .. L : new[i] = runs[i]
      BY <1>1, <2>1, <2>2
    <2>4. \A i \in 0 .. L : EndOf(new, i) = EndOf(runs, i)
      BY <2>3 DEF EndOf
    <2>5. EndOf(new, L + 1) = n + 1
      BY <1>1, <2>1, <2>3 DEF EndOf
    <2>6. ASSUME NEW i \in 1 .. L + 1
          PROVE  /\ new[i].from = EndOf(new, i - 1) + 1
                 /\ new[i].from <= new[i].to
                 /\ \A k \in new[i].from + 1 .. new[i].to : k \notin changes
      <3>1. CASE i \in 1 .. L
        <4>1. i - 1 \in 0 .. L
          BY <3>1
        <4>. QED BY <1>1, <2>3, <2>4, <3>1, <4>1
      <3>2. CASE i = L + 1
        <4>1. i - 1 = L /\ L \in 0 .. L
          BY <1>1, <3>2
        <4>2. EndOf(new, i - 1) = n /\ new[i] = one
          BY <1>1, <2>3, <2>4, <3>2, <4>1
        <4>. HIDE DEF L
        <4>. QED BY <2>1, <4>2
      <3>. QED BY <1>1, <3>1, <3>2
    <2>7. RunsCover(new, n + 1, changes)
      BY <1>2, <2>3, <2>5, <2>6 DEF RunsCover
    <2>. QED BY <2>7 DEF new
  <1>4. CASE ~(n + 1 = 1 \/ n + 1 \in changes)
    <2>. DEFINE last == [runs[L] EXCEPT !.to = n + 1]
    <2>1. L \in 1 .. L
      <3>1. L # 0
        BY <1>1, <1>4 DEF EndOf
      <3>. QED BY <1>1, <3>1
    <2>2. runs[L].to = n
      BY <1>1, <2>1 DEF EndOf
    <2>3. last.from = runs[L].from /\ last.to = n + 1
      BY <1>1, <2>1
    <2>4. new = [runs EXCEPT ![L] = last]
      BY <1>4 DEF RunsWith
    <2>. HIDE DEF last, new, Run
    <2>5. /\ Len(new) = L /\ new[L] = last
          /\ \A i \in 1 .. L : i # L => new[i] = runs[i]
      BY <1>1, <2>1, <2>4
    <2>. HIDE DEF L
    <2>6. \A i \in 0 .. L : i # L => EndOf(new, i) = EndOf(runs, i)
      BY <1>1, <2>5 DEF EndOf
    <2>7. EndOf(new, L) = n + 1
      BY <2>1, <2>3, <2>5 DEF EndOf
    <2>8. ASSUME NEW i \in 1 .. L
          PROVE  /\ new[i].from = EndOf(new, i - 1) + 1
                 /\ new[i].from <= new[i].to
                 /\ \A k \in new[i].from + 1 .. new[i].to : k \notin changes
      <3>1. i - 1 \in 0 .. L /\ i - 1 # L
        BY <1>1
      <3>2. EndOf(new, i - 1) = EndOf(runs, i - 1)
        BY <2>6, <3>1
      <3>3. CASE i # L
        BY <1>1, <2>5, <3>2, <3>3
      <3>4. CASE i = L
        <4>1. /\ runs[L].from = EndOf(runs, L - 1) + 1
              /\ runs[L].from <= runs[L].to /\ runs[L].from \in Nat
              /\ \A k \in runs[L].from + 1 .. runs[L].to : k \notin changes
          BY <1>1, <2>1 DEF Run
        <4>2. new[i].from = runs[L].from /\ new[i].to = n + 1
          BY <2>3, <2>5, <3>4
        <4>3. \A k \in runs[L].from + 1 .. n + 1 :
                 k \in runs[L].from + 1 .. runs[L].to \/ k = n + 1
          BY <2>2, <4>1
        <4>. QED BY <1>4, <2>2, <3>2, <3>4, <4>1, <4>2, <4>3
      <3>. QED BY <3>3, <3>4
    <2>9. RunsCover(new, n + 1, changes)
      BY <1>2, <2>5, <2>7, <2>8 DEF RunsCover
    <2>. QED BY <2>9 DEF new
  <1>. QED BY <1>3, <1>4

LEMMA RunsOfCover ==
    ASSUME NEW L \in Nat, NEW changes
    PROVE  RunsCover(RunsOf(L, changes), L, changes)
  <1>. DEFINE P(f) == f = [k \in 0 .. L |->
                             IF k = 0 THEN << >>
                             ELSE RunsWith(f[k - 1], k, changes)]
              g == CHOOSE f : P(f)
              step == [p \in Runs \X Nat |-> RunsWith(p[1], p[2], changes)]
              base == << >>
  <1>1. base \in Runs
    BY DEF Runs
  <1>2. RunsOf(L, changes) = g[L]
    BY DEF RunsOf
  <1>3. Stays(step, Runs)
    BY RunsWithType DEF Stays
  <1>4a. PICK h : Steps(h, L, Runs, base, step)
    <2>. HIDE DEF step, base
    <2>. QED BY <1>1, <1>3, Recursion
  <1>4. /\ h \in [0 .. L -> Runs]
        /\ h[0] = base
        /\ \A n \in 1 .. L : h[n] = step[<< h[n - 1], n >>]
    BY <1>4a DEF Steps
  <1>5. P(h)
    <2>1. ASSUME NEW k \in 0 .. L
          PROVE  h[k] = IF k = 0 THEN << >> ELSE RunsWith(h[k - 1], k, changes)
      <3>1. CASE k = 0
        BY <1>4, <3>1
      <3>2. CASE k # 0
        <4>1. k \in 1 .. L /\ k \in Nat /\ h[k - 1] \in Runs
          BY <1>4, <3>2
        <4>2. step[<< h[k - 1], k >>] = RunsWith(h[k - 1], k, changes)
          BY <4>1
        <4>. HIDE DEF step
        <4>. QED BY <1>4, <3>2, <4>1, <4>2
      <3>. QED BY <3>1, <3>2
    <2>. HIDE DEF step
    <2>. QED BY <2>1, <1>4
  <1>6. P(g)
    <2>. HIDE DEF P, step
    <2>. QED BY <1>5
  <1>. HIDE DEF g, step
  <1>7. \A k \in 0 .. L :
            g[k] = IF k = 0 THEN << >> ELSE RunsWith(g[k - 1], k, changes)
    <2>1. g = [k \in 0 .. L |->
                 IF k = 0 THEN << >> ELSE RunsWith(g[k - 1], k, changes)]
      BY <1>6
    <2>. HIDE DEF P
    <2>. QED BY <2>1
  <1>. HIDE DEF P
  <1>. DEFINE T == { n \in Nat : n <= L => RunsCover(g[n], n, changes) }
  <1>8. 0 \in T
    <2>1. g[0] = base
      BY <1>7
    <2>2. Len(base) = 0 /\ \A i \in 1 .. 0 : FALSE
      OBVIOUS
    <2>3. RunsCover(base, 0, changes)
      <3>. HIDE DEF base
      <3>. QED BY <1>1, <2>2 DEF RunsCover, EndOf
    <2>. QED BY <2>1, <2>3
  <1>9. ASSUME NEW n \in Nat, n \in T
        PROVE  n + 1 \in T
    <2>1. SUFFICES ASSUME n + 1 <= L PROVE RunsCover(g[n + 1], n + 1, changes)
      OBVIOUS
    <2>2. n + 1 \in 0 .. L /\ n + 1 # 0 /\ (n + 1) - 1 = n /\ n <= L
      BY <2>1
    <2>3. RunsCover(g[n], n, changes)
      BY <1>9, <2>2
    <2>4. g[n + 1] = RunsWith(g[n], n + 1, changes)
      BY <1>7, <2>2
    <2>. QED BY <2>3, <2>4, RunsWithCover
  <1>10. L \in T
    <2>. HIDE DEF T
    <2>. QED BY <1>8, <1>9, SetInduction
  <1>. QED BY <1>2, <1>10

LEMMA CoverFacts ==
    ASSUME NEW runs, NEW n \in Nat, NEW changes, RunsCover(runs, n, changes)
    PROVE  /\ Len(runs) \in Nat /\ DOMAIN runs = 1 .. Len(runs)
           /\ \A i \in 1 .. Len(runs) :
                  /\ runs[i].from \in Nat /\ runs[i].to \in Nat
                  /\ EndOf(runs, i) = runs[i].to
                  /\ runs[i].from = EndOf(runs, i - 1) + 1
                  /\ runs[i].from <= runs[i].to
                  /\ \A k \in runs[i].from + 1 .. runs[i].to : k \notin changes
           /\ \A i \in 0 .. Len(runs) : EndOf(runs, i) \in Nat
  <1>. DEFINE Run == [from : Nat, to : Nat]
              L == Len(runs)
  <1>1. runs \in Seq(Run)
    BY DEF RunsCover, Runs
  <1>2. ASSUME NEW i \in 1 .. L PROVE runs[i] \in Run
    <2>. HIDE DEF Run
    <2>. QED BY <1>1
  <1>3. \A i \in 1 .. L : runs[i].from \in Nat /\ runs[i].to \in Nat
    BY <1>2
  <1>4. L \in Nat /\ DOMAIN runs = 1 .. L
    <2>. HIDE DEF Run
    <2>. QED BY <1>1
  <1>5. \A i \in 1 .. L : EndOf(runs, i) = runs[i].to
    BY <1>4 DEF EndOf
  <1>6. \A i \in 0 .. L : EndOf(runs, i) \in Nat
    BY <1>3, <1>4 DEF EndOf
  <1>. HIDE DEF Run
  <1>. QED BY <1>3, <1>4, <1>5, <1>6 DEF RunsCover

\* Every run ends by the last number.
LEMMA RunsWithin ==
    ASSUME NEW runs, NEW n \in Nat, NEW changes, RunsCover(runs, n, changes)
    PROVE  \A i \in 0 .. Len(runs) : EndOf(runs, i) <= n
  <1>. DEFINE L == Len(runs)
              T == { j \in Nat : j <= L => EndOf(runs, L - j) <= n }
  <1>1. L \in Nat /\ EndOf(runs, L) = n
    BY CoverFacts DEF RunsCover
  <1>2. 0 \in T
    BY <1>1
  <1>3. ASSUME NEW j \in Nat, j \in T PROVE j + 1 \in T
    <2>1. SUFFICES ASSUME j + 1 <= L PROVE EndOf(runs, L - (j + 1)) <= n
      OBVIOUS
    <2>2. /\ L - j \in 1 .. L /\ (L - j) - 1 = L - (j + 1) /\ j <= L
          /\ L - j \in 0 .. L /\ L - (j + 1) \in 0 .. L
      BY <1>1, <2>1
    <2>3. EndOf(runs, L - j) <= n
      BY <1>3, <2>2
    <2>. DEFINE i == L - j
    <2>4. i \in 1 .. Len(runs) /\ i - 1 = L - (j + 1) /\ EndOf(runs, i) <= n
      BY <2>2, <2>3
    <2>. HIDE DEF i, L, T
    <2>5. /\ EndOf(runs, i) = runs[i].to /\ runs[i].from = EndOf(runs, i - 1) + 1
          /\ runs[i].from <= runs[i].to /\ runs[i].from \in Nat /\ runs[i].to \in Nat
      BY <2>4, CoverFacts
    <2>6. EndOf(runs, i - 1) \in Nat
      BY <2>2, <2>4, CoverFacts DEF L
    <2>. QED BY <2>4, <2>5, <2>6
  <1>4. Nat \subseteq T
    <2>. HIDE DEF T, L
    <2>. QED BY <1>2, <1>3, SetInduction
  <1>5. ASSUME NEW i \in 0 .. L PROVE EndOf(runs, i) <= n
    <2>1. L - i \in Nat /\ L - i <= L /\ L - (L - i) = i
      BY <1>1
    <2>2. L - i \in T
      BY <1>4, <2>1
    <2>. QED BY <2>1, <2>2
  <1>. QED BY <1>5

\* The numbers of a run are alike.
LEMMA RunsAlike ==
    ASSUME NEW runs, NEW n \in Nat, NEW A,
           RunsCover(runs, n, { k \in 2 .. n : (k - 1 \in A) # (k \in A) })
    PROVE  \A i \in 1 .. Len(runs) : \A k \in runs[i].from .. runs[i].to :
               k \in A <=> runs[i].from \in A
  <1>. DEFINE changes == { k \in 2 .. n : (k - 1 \in A) # (k \in A) }
  <1>1. SUFFICES ASSUME NEW i \in 1 .. Len(runs)
                 PROVE  \A k \in runs[i].from .. runs[i].to :
                            k \in A <=> runs[i].from \in A
    OBVIOUS
  <1>2. ASSUME NEW k \in 2 .. n, k \notin changes PROVE k - 1 \in A <=> k \in A
    BY <1>2
  <1>3. RunsCover(runs, n, changes)
    OBVIOUS
  <1>. HIDE DEF changes
  <1>. DEFINE f == runs[i].from
              t == runs[i].to
              T == { j \in Nat : f + j <= t => (f + j \in A <=> f \in A) }
  <1>4. /\ f \in Nat /\ t \in Nat /\ 1 <= f /\ f <= t /\ t <= n
        /\ \A k \in f + 1 .. t : k \notin changes
    <2>1. EndOf(runs, i) = t /\ f = EndOf(runs, i - 1) + 1
      BY <1>1, <1>3, CoverFacts
    <2>2. i \in 0 .. Len(runs) /\ i - 1 \in 0 .. Len(runs)
      BY <1>1, <1>3, CoverFacts
    <2>3. EndOf(runs, i) <= n /\ EndOf(runs, i - 1) \in Nat
      BY <1>3, <2>2, CoverFacts, RunsWithin
    <2>. QED BY <1>1, <1>3, <2>1, <2>3, CoverFacts
  <1>. HIDE DEF f, t
  <1>5. 0 \in T
    BY <1>4
  <1>6. ASSUME NEW j \in Nat, j \in T PROVE j + 1 \in T
    <2>1. SUFFICES ASSUME f + (j + 1) <= t PROVE f + (j + 1) \in A <=> f \in A
      OBVIOUS
    <2>2. /\ f + j <= t /\ (f + (j + 1)) - 1 = f + j
          /\ f + (j + 1) \in 2 .. n /\ f + (j + 1) \in f + 1 .. t
      BY <1>4, <2>1
    <2>3. f + j \in A <=> f \in A
      BY <1>6, <2>2
    <2>4. f + (j + 1) \notin changes
      BY <1>4, <2>2
    <2>5. (f + (j + 1)) - 1 \in A <=> f + (j + 1) \in A
      BY <1>2, <2>2, <2>4
    <2>. HIDE DEF T
    <2>. QED BY <2>2, <2>3, <2>5
  <1>7. Nat \subseteq T
    <2>. HIDE DEF T
    <2>. QED BY <1>5, <1>6, SetInduction
  <1>8. ASSUME NEW k \in f .. t PROVE k \in A <=> f \in A
    <2>1. k - f \in Nat /\ f + (k - f) = k /\ k <= t
      BY <1>4
    <2>2. k - f \in T
      BY <1>7, <2>1
    <2>. QED BY <2>1, <2>2
  <1>. QED BY <1>8 DEF f, t

\* The parts of a text at the runs spell it.
LEMMA RunsSpell ==
    ASSUME NEW S, NEW s \in Seq(S), NEW runs, NEW changes,
           RunsCover(runs, Len(s), changes)
    PROVE  Spells(S, [i \in DOMAIN runs |-> Part(s, runs[i])], s)
  <1>. DEFINE n == Len(s)
              L == Len(runs)
              pieces == [i \in 1 .. L |-> Part(s, runs[i])]
              h == [i \in 0 .. L |-> SubSeq(s, 1, EndOf(runs, i))]
  <1>1. /\ n \in Nat /\ L \in Nat /\ DOMAIN runs = 1 .. L
        /\ EndOf(runs, L) = n /\ EndOf(runs, 0) = 0
        /\ \A i \in 0 .. L : EndOf(runs, i) \in Nat /\ EndOf(runs, i) <= n
        /\ \A i \in 1 .. L :
               /\ runs[i].from \in Nat /\ runs[i].to \in Nat
               /\ EndOf(runs, i) = runs[i].to
               /\ runs[i].from = EndOf(runs, i - 1) + 1
               /\ runs[i].from <= runs[i].to
    <2>1. n \in Nat
      OBVIOUS
    <2>2. EndOf(runs, L) = n /\ EndOf(runs, 0) = 0
      BY DEF RunsCover, EndOf
    <2>. QED BY <2>1, <2>2, CoverFacts, RunsWithin
  <1>. HIDE DEF n, L
  <1>2. ASSUME NEW i \in 0 .. L PROVE h[i] \in Seq(S)
    <2>1. EndOf(runs, i) \in Nat /\ EndOf(runs, i) <= n
      BY <1>1
    <2>. QED BY <2>1, SubSeqFacts DEF n
  <1>3. h[0] = << >>
    <2>1. h[0] = SubSeq(s, 1, 0)
      BY <1>1
    <2>2. SubSeq(s, 1, 0) = << >>
      OBVIOUS
    <2>. QED BY <2>1, <2>2
  <1>4. h[L] = s
    <2>1. h[L] = SubSeq(s, 1, Len(s))
      BY <1>1 DEF n
    <2>. QED BY <2>1
  <1>5. ASSUME NEW i \in 1 .. L
        PROVE  pieces[i] \in Seq(S) /\ h[i] = h[i - 1] \o pieces[i]
    <2>. DEFINE a == EndOf(runs, i - 1)
                b == EndOf(runs, i)
    <2>1. i - 1 \in 0 .. L /\ i \in 0 .. L
      BY <1>1
    <2>2. a \in Nat /\ b \in Nat /\ a + 1 <= b /\ b <= n
      BY <1>1, <2>1
    <2>3. pieces[i] = SubSeq(s, a + 1, b)
      BY <1>1 DEF Part
    <2>4. h[i - 1] = SubSeq(s, 1, a) /\ h[i] = SubSeq(s, 1, b)
      BY <2>1
    <2>. HIDE DEF a, b, h, pieces
    <2>5. SubSeq(s, a + 1, b) \in Seq(S)
      <3>1. /\ a + 1 \in Int /\ b \in Int /\ 1 <= a + 1 /\ a + 1 <= b + 1
            /\ b <= Len(s)
        BY <2>2 DEF n
      <3>. QED BY <3>1, SubSeqFacts
    <2>6. SubSeq(s, 1, a) \o SubSeq(s, a + 1, b) = SubSeq(s, 1, b)
      <3>1. 1 <= a + 1 /\ a <= b /\ b <= Len(s) /\ a \in Int /\ b \in Int
        BY <2>2 DEF n
      <3>. QED BY <3>1, SubSeqJoin
    <2>. QED BY <2>3, <2>4, <2>5, <2>6
  <1>6. h \in [0 .. L -> Seq(S)]
    BY <1>2
  <1>7. pieces \in [1 .. L -> Seq(S)]
    BY <1>5
  <1>8. pieces = [i \in DOMAIN runs |-> Part(s, runs[i])]
    BY <1>1
  <1>. HIDE DEF h, pieces
  <1>9. pieces \in Seq(Seq(S)) /\ Len(pieces) = L
    BY <1>1, <1>7
  <1>10. Spelling(h, S, pieces)
    BY <1>3, <1>5, <1>6, <1>9 DEF Spelling
  <1>11. Spells(S, pieces, s)
    BY <1>4, <1>9, <1>10 DEF Spells
  <1>. QED BY <1>8, <1>11

-----------------------------------------------------------------------------
(* Segments *)

Text == Seq(STRING)

Segs == [text : Text, reading : Text]

HasKanji(text) == \E j \in DOMAIN text : text[j] \in Kanji

\* Kanji have a share of the reading.
HasShare(segment) ==
    HasKanji(segment.text) => Len(segment.reading) >= Len(segment.text)

TextsOf(segments) == [k \in DOMAIN segments |-> segments[k].text]

SaidsOf(segments) == [k \in DOMAIN segments |-> Said(segments[k])]

\* Segments that spell an expression and its reading.
SegmentsSpell(segments, expression, reading) ==
    /\ segments \in Seq(Segs)
    /\ Spells(STRING, TextsOf(segments), expression)
    /\ Spells(STRING, SaidsOf(segments), reading)
    /\ \A k \in 1 .. Len(segments) : HasShare(segments[k])

LEMMA JoinFacts ==
    ASSUME NEW S, NEW p \in Seq(S), NEW q \in Seq(S)
    PROVE  /\ p \o q \in Seq(S)
           /\ p \o q \in [1 .. Len(p) + Len(q) -> S]
           /\ \A k \in 1 .. Len(p) : (p \o q)[k] = p[k]
           /\ \A k \in Len(p) + 1 .. Len(p) + Len(q) : (p \o q)[k] = q[k - Len(p)]
  <1>. DEFINE pq == p \o q
  <1>1. pq \in Seq(S) /\ Len(pq) = Len(p) + Len(q)
    OBVIOUS
  <1>2. \A k \in 1 .. Len(p) : pq[k] = p[k]
    OBVIOUS
  <1>3. \A k \in Len(p) + 1 .. Len(p) + Len(q) : pq[k] = q[k - Len(p)]
    OBVIOUS
  <1>4. pq \in [1 .. Len(p) + Len(q) -> S]
    <2>. DEFINE n == Len(p) + Len(q)
    <2>. HIDE DEF pq, n
    <2>. QED BY <1>1 DEF n
  <1>. QED BY <1>1, <1>2, <1>3, <1>4

LEMMA SegmentFacts ==
    ASSUME NEW text \in Text, NEW reading \in Text
    PROVE  /\ Segment(text, reading) \in Segs
           /\ Segment(text, reading).text = text
           /\ Segment(text, reading).reading = reading
           /\ Said(Segment(text, reading)) = IF reading = << >> THEN text ELSE reading
  BY DEF Segment, Segs, Said

LEMMA NoSegments == SegmentsSpell(<< >>, << >>, << >>)
  <1>. DEFINE none == << >>
  <1>1. none \in Seq(Segs) /\ Len(none) = 0 /\ DOMAIN none = {}
    OBVIOUS
  <1>2. TextsOf(none) = << >> /\ SaidsOf(none) = << >>
    BY <1>1 DEF TextsOf, SaidsOf
  <1>3. Spells(STRING, TextsOf(none), << >>) /\ Spells(STRING, SaidsOf(none), << >>)
    <2>. HIDE DEF none
    <2>. QED BY <1>2, NothingSpells
  <1>4. SegmentsSpell(none, << >>, << >>)
    <2>1. \A k \in 1 .. Len(none) : FALSE
      BY <1>1
    <2>. HIDE DEF none
    <2>. QED BY <1>1, <1>3, <2>1 DEF SegmentsSpell
  <1>. QED BY <1>4

LEMMA OneSpelled ==
    ASSUME NEW segment \in Segs
    PROVE  /\ Spells(STRING, TextsOf(<< segment >>), segment.text)
           /\ Spells(STRING, SaidsOf(<< segment >>), Said(segment))
  <1>. DEFINE one == << segment >>
              T == << segment.text >>
              D == << Said(segment) >>
  <1>1. one \in Seq(Segs) /\ Len(one) = 1 /\ DOMAIN one = 1 .. 1 /\ one[1] = segment
    OBVIOUS
  <1>2. segment.text \in Text /\ Said(segment) \in Text
    BY DEF Segs, Said
  <1>. HIDE DEF one
  <1>3. TextsOf(one) = T /\ SaidsOf(one) = D
    <2>1. /\ TextsOf(one) = [k \in 1 .. 1 |-> segment.text]
          /\ SaidsOf(one) = [k \in 1 .. 1 |-> Said(segment)]
      BY <1>1 DEF TextsOf, SaidsOf
    <2>2. ASSUME NEW x PROVE [k \in 1 .. 1 |-> x] = << x >>
      OBVIOUS
    <2>. QED BY <2>1, <2>2
  <1>4. Spells(STRING, T, segment.text) /\ Spells(STRING, D, Said(segment))
    BY <1>2, OneSpells DEF Text
  <1>. HIDE DEF T, D
  <1>5. /\ Spells(STRING, TextsOf(one), segment.text)
        /\ Spells(STRING, SaidsOf(one), Said(segment))
    BY <1>3, <1>4
  <1>. QED BY <1>5 DEF one

LEMMA OneSegment ==
    ASSUME NEW segment \in Segs, HasShare(segment)
    PROVE  SegmentsSpell(<< segment >>, segment.text, Said(segment))
  <1>. DEFINE one == << segment >>
  <1>1. one \in Seq(Segs) /\ Len(one) = 1 /\ one[1] = segment
    OBVIOUS
  <1>2. /\ Spells(STRING, TextsOf(one), segment.text)
        /\ Spells(STRING, SaidsOf(one), Said(segment))
    BY OneSpelled
  <1>. HIDE DEF one
  <1>3. \A k \in 1 .. Len(one) : HasShare(one[k])
    <2>1. \A k \in 1 .. Len(one) : k = 1
      BY <1>1
    <2>. QED BY <1>1, <2>1
  <1>4. SegmentsSpell(one, segment.text, Said(segment))
    BY <1>1, <1>2, <1>3 DEF SegmentsSpell
  <1>. QED BY <1>4 DEF one

LEMMA SegmentsJoin ==
    ASSUME NEW p, NEW q, NEW e, NEW f, NEW r, NEW s,
           SegmentsSpell(p, e, r), SegmentsSpell(q, f, s)
    PROVE  SegmentsSpell(p \o q, e \o f, r \o s)
  <1>. DEFINE pq == p \o q
              m == Len(p)
              n == Len(q)
  <1>1. p \in Seq(Segs) /\ q \in Seq(Segs)
    BY DEF SegmentsSpell
  <1>2. /\ pq \in Seq(Segs) /\ Len(pq) = m + n /\ m \in Nat /\ n \in Nat
        /\ DOMAIN p = 1 .. m /\ DOMAIN q = 1 .. n /\ DOMAIN pq = 1 .. m + n
        /\ \A k \in 1 .. m : pq[k] = p[k]
        /\ \A k \in m + 1 .. m + n : pq[k] = q[k - m]
    BY <1>1
  <1>. HIDE DEF pq, m, n
  <1>3. TextsOf(pq) = TextsOf(p) \o TextsOf(q)
    <2>. DEFINE P == TextsOf(p)
                Q == TextsOf(q)
                PQ == P \o Q
    <2>1. /\ P \in Seq(Seq(STRING)) /\ Len(P) = m /\ \A k \in 1 .. m : P[k] = p[k].text
          /\ Q \in Seq(Seq(STRING)) /\ Len(Q) = n /\ \A k \in 1 .. n : Q[k] = q[k].text
      <3>1. P = [k \in 1 .. m |-> p[k].text] /\ Q = [k \in 1 .. n |-> q[k].text]
        BY <1>2 DEF TextsOf
      <3>2. P \in Seq(Seq(STRING)) /\ Q \in Seq(Seq(STRING))
        BY DEF SegmentsSpell, Spells
      <3>. HIDE DEF P, Q
      <3>. QED BY <1>2, <3>1, <3>2
    <2>. HIDE DEF P, Q
    <2>2. /\ PQ \in [1 .. m + n -> Seq(STRING)]
          /\ \A k \in 1 .. m : PQ[k] = P[k]
          /\ \A k \in m + 1 .. m + n : PQ[k] = Q[k - m]
      <3>. DEFINE W == Seq(STRING)
      <3>. HIDE DEF W
      <3>1. P \in Seq(W) /\ Q \in Seq(W) /\ Len(P) = m /\ Len(Q) = n
        BY <2>1 DEF W
      <3>2. /\ PQ \in [1 .. m + n -> W]
            /\ \A k \in 1 .. m : PQ[k] = P[k]
            /\ \A k \in m + 1 .. m + n : PQ[k] = Q[k - m]
        <4>1. /\ PQ \in [1 .. Len(P) + Len(Q) -> W]
              /\ \A k \in 1 .. Len(P) : PQ[k] = P[k]
              /\ \A k \in Len(P) + 1 .. Len(P) + Len(Q) : PQ[k] = Q[k - Len(P)]
          BY ONLY <3>1, JoinFacts DEF PQ
        <4>. QED BY ONLY <3>1, <4>1
      <3>. QED BY <3>2 DEF W
    <2>. HIDE DEF PQ
    <2>3. ASSUME NEW k \in 1 .. m + n PROVE PQ[k] = pq[k].text
      <3>1. CASE k \in 1 .. m
        BY <1>2, <2>1, <2>2, <3>1
      <3>2. CASE k \in m + 1 .. m + n
        <4>1. k - m \in 1 .. n
          BY <1>2, <3>2
        <4>. QED BY <1>2, <2>1, <2>2, <3>2, <4>1
      <3>. QED BY <1>2, <3>1, <3>2
    <2>4. PQ = [k \in 1 .. m + n |-> PQ[k]]
      BY <2>2
    <2>5. TextsOf(pq) = [k \in 1 .. m + n |-> pq[k].text]
      BY <1>2 DEF TextsOf
    <2>6. PQ = TextsOf(pq)
      BY <2>3, <2>4, <2>5
    <2>. QED BY <2>6 DEF PQ, P, Q
  <1>4. SaidsOf(pq) = SaidsOf(p) \o SaidsOf(q)
    <2>. DEFINE P == SaidsOf(p)
                Q == SaidsOf(q)
                PQ == P \o Q
    <2>1. /\ P \in Seq(Seq(STRING)) /\ Len(P) = m
          /\ \A k \in 1 .. m : P[k] = Said(p[k])
          /\ Q \in Seq(Seq(STRING)) /\ Len(Q) = n
          /\ \A k \in 1 .. n : Q[k] = Said(q[k])
      <3>1. P = [k \in 1 .. m |-> Said(p[k])] /\ Q = [k \in 1 .. n |-> Said(q[k])]
        BY <1>2 DEF SaidsOf
      <3>2. P \in Seq(Seq(STRING)) /\ Q \in Seq(Seq(STRING))
        BY DEF SegmentsSpell, Spells
      <3>. HIDE DEF P, Q
      <3>. QED BY <1>2, <3>1, <3>2
    <2>. HIDE DEF P, Q
    <2>2. /\ PQ \in [1 .. m + n -> Seq(STRING)]
          /\ \A k \in 1 .. m : PQ[k] = P[k]
          /\ \A k \in m + 1 .. m + n : PQ[k] = Q[k - m]
      <3>. DEFINE W == Seq(STRING)
      <3>. HIDE DEF W
      <3>1. P \in Seq(W) /\ Q \in Seq(W) /\ Len(P) = m /\ Len(Q) = n
        BY <2>1 DEF W
      <3>2. /\ PQ \in [1 .. m + n -> W]
            /\ \A k \in 1 .. m : PQ[k] = P[k]
            /\ \A k \in m + 1 .. m + n : PQ[k] = Q[k - m]
        <4>1. /\ PQ \in [1 .. Len(P) + Len(Q) -> W]
              /\ \A k \in 1 .. Len(P) : PQ[k] = P[k]
              /\ \A k \in Len(P) + 1 .. Len(P) + Len(Q) : PQ[k] = Q[k - Len(P)]
          BY ONLY <3>1, JoinFacts DEF PQ
        <4>. QED BY ONLY <3>1, <4>1
      <3>. QED BY <3>2 DEF W
    <2>. HIDE DEF PQ
    <2>3. ASSUME NEW k \in 1 .. m + n PROVE PQ[k] = Said(pq[k])
      <3>1. CASE k \in 1 .. m
        BY <1>2, <2>1, <2>2, <3>1
      <3>2. CASE k \in m + 1 .. m + n
        <4>1. k - m \in 1 .. n
          BY <1>2, <3>2
        <4>. QED BY <1>2, <2>1, <2>2, <3>2, <4>1
      <3>. QED BY <1>2, <3>1, <3>2
    <2>4. PQ = [k \in 1 .. m + n |-> PQ[k]]
      BY <2>2
    <2>5. SaidsOf(pq) = [k \in 1 .. m + n |-> Said(pq[k])]
      BY <1>2 DEF SaidsOf
    <2>6. PQ = SaidsOf(pq)
      BY <2>3, <2>4, <2>5
    <2>. QED BY <2>6 DEF PQ, P, Q
  <1>5. /\ Spells(STRING, TextsOf(pq), e \o f)
        /\ Spells(STRING, SaidsOf(pq), r \o s)
    <2>1. /\ Spells(STRING, TextsOf(p), e) /\ Spells(STRING, TextsOf(q), f)
          /\ Spells(STRING, SaidsOf(p), r) /\ Spells(STRING, SaidsOf(q), s)
      BY DEF SegmentsSpell
    <2>. QED BY <1>3, <1>4, <2>1, SpellsJoin
  <1>6. ASSUME NEW k \in 1 .. m + n PROVE HasShare(pq[k])
    <2>1. /\ \A j \in 1 .. m : HasShare(p[j])
          /\ \A j \in 1 .. n : HasShare(q[j])
      BY DEF SegmentsSpell, m, n
    <2>2. CASE k \in 1 .. m
      BY <1>2, <2>1, <2>2
    <2>3. CASE k \in m + 1 .. m + n
      <3>1. k - m \in 1 .. n
        BY <1>2, <2>3
      <3>. QED BY <1>2, <2>1, <2>3, <3>1
    <2>. QED BY <1>2, <2>2, <2>3
  <1>7. SegmentsSpell(pq, e \o f, r \o s)
    BY <1>2, <1>5, <1>6 DEF SegmentsSpell
  <1>. QED BY <1>7 DEF pq

LEMMA SeqIsFunction ==
    ASSUME NEW S, NEW s \in Seq(S)
    PROVE  s \in [DOMAIN s -> S]
  OBVIOUS

LEMMA PartFacts ==
    ASSUME NEW S, NEW s \in Seq(S), NEW run, run.from \in Nat, run.to \in Nat,
           1 <= run.from, run.from <= run.to, run.to <= Len(s)
    PROVE  /\ Part(s, run) \in Seq(S) /\ Part(s, run) # << >>
           /\ Len(Part(s, run)) = run.to - run.from + 1
           /\ DOMAIN Part(s, run) = 1 .. run.to - run.from + 1
           /\ \A i \in 1 .. run.to - run.from + 1 : Part(s, run)[i] = s[run.from + i - 1]
  <1>. DEFINE a == run.from
              b == run.to
              u == SubSeq(s, a, b)
  <1>1. /\ u \in Seq(S) /\ Len(u) = b - a + 1
        /\ \A i \in 1 .. b - a + 1 : u[i] = s[a + i - 1]
    <2>1. a \in Int /\ b \in Int /\ 1 <= a /\ a <= b + 1 /\ b <= Len(s)
      OBVIOUS
    <2>. HIDE DEF a, b
    <2>. QED BY <2>1, SubSeqFacts
  <1>2. Part(s, run) = u
    BY DEF Part
  <1>3. a <= b /\ a \in Nat /\ b \in Nat
    OBVIOUS
  <1>. HIDE DEF u, a, b
  <1>4. DOMAIN u = 1 .. b - a + 1 /\ u # << >>
    BY <1>1, <1>3
  <1>. QED BY <1>1, <1>2, <1>4 DEF a, b

LEMMA RunFacts ==
    ASSUME NEW runs, NEW n \in Nat, NEW changes, RunsCover(runs, n, changes),
           NEW i \in 1 .. Len(runs)
    PROVE  /\ runs[i].from \in Nat /\ runs[i].to \in Nat
           /\ 1 <= runs[i].from /\ runs[i].from <= runs[i].to /\ runs[i].to <= n
           /\ runs[i].from = EndOf(runs, i - 1) + 1 /\ EndOf(runs, i) = runs[i].to
           /\ EndOf(runs, i - 1) \in Nat
  <1>1. /\ EndOf(runs, i) = runs[i].to /\ runs[i].from = EndOf(runs, i - 1) + 1
        /\ runs[i].from \in Nat /\ runs[i].to \in Nat /\ runs[i].from <= runs[i].to
    BY CoverFacts
  <1>2. i \in 0 .. Len(runs) /\ i - 1 \in 0 .. Len(runs)
    BY CoverFacts
  <1>3. EndOf(runs, i) <= n /\ EndOf(runs, i - 1) \in Nat
    BY <1>2, CoverFacts, RunsWithin
  <1>. QED BY <1>1, <1>3

\* Letters without kanji and what is read for them, as long as they are.
LEMMA KanaSpell ==
    ASSUME NEW text \in Text, NEW reading \in Text, Len(text) = Len(reading),
           ~HasKanji(text)
    PROVE  SegmentsSpell(KanaSegments(text, reading), text, reading)
  <1>. DEFINE n == Len(text)
              A == { k \in 1 .. n : text[k] = reading[k] }
              changes == { k \in 2 .. n : (k - 1 \in A) # (k \in A) }
              runs == RunsOf(n, changes)
              L == Len(runs)
              Share(i) == IF runs[i].from \in A THEN << >> ELSE Part(reading, runs[i])
              segs == [i \in 1 .. L |-> Segment(Part(text, runs[i]), Share(i))]
  <1>0. n \in Nat /\ Len(reading) = n
    BY DEF Text
  <1>1. RunsCover(runs, n, changes)
    BY <1>0, RunsOfCover
  <1>2. L \in Nat /\ DOMAIN runs = 1 .. L
    BY <1>0, <1>1, CoverFacts
  <1>3. /\ \A i \in 1 .. L :
               /\ runs[i].from \in Nat /\ runs[i].to \in Nat
               /\ 1 <= runs[i].from /\ runs[i].from <= runs[i].to /\ runs[i].to <= n
        /\ \A i \in 1 .. L : \A k \in runs[i].from .. runs[i].to :
               k \in A <=> runs[i].from \in A
    <2>1. \A i \in 1 .. L :
               /\ runs[i].from \in Nat /\ runs[i].to \in Nat
               /\ 1 <= runs[i].from /\ runs[i].from <= runs[i].to /\ runs[i].to <= n
      <3>. HIDE DEF runs, changes
      <3>. QED BY <1>0, <1>1, RunFacts
    <2>2. RunsCover(runs, n, { k \in 2 .. n : (k - 1 \in A) # (k \in A) })
      BY <1>1
    <2>3. \A i \in 1 .. L : \A k \in runs[i].from .. runs[i].to :
               k \in A <=> runs[i].from \in A
      <3>. HIDE DEF runs, A, n
      <3>. QED BY <1>0, <2>2, RunsAlike
    <2>. QED BY <2>1, <2>3
  <1>4. KanaSegments(text, reading) = segs
    <2>. DEFINE same == { k \in 2 .. Len(text) :
                            (text[k - 1] = reading[k - 1]) # (text[k] = reading[k]) }
                found == RunsOf(Len(text), same)
    <2>1. KanaSegments(text, reading)
              = [r \in DOMAIN found |->
                    Segment(Part(text, found[r]),
                            IF text[found[r].from] = reading[found[r].from]
                            THEN << >> ELSE Part(reading, found[r]))]
      BY DEF KanaSegments
    <2>2. same = changes
      <3>1. \A k \in 2 .. n : /\ k - 1 \in A <=> text[k - 1] = reading[k - 1]
                              /\ k \in A <=> text[k] = reading[k]
        BY <1>0
      <3>. HIDE DEF A
      <3>. QED BY <3>1
    <2>3. found = runs
      BY <2>2
    <2>4. \A i \in 1 .. L : runs[i].from \in A
                              <=> text[runs[i].from] = reading[runs[i].from]
      <3>1. \A i \in 1 .. L : runs[i].from \in 1 .. n
        <4>. HIDE DEF runs, L, A
        <4>. QED BY <1>0, <1>3
      <3>. HIDE DEF runs, L
      <3>. QED BY <3>1
    <2>. HIDE DEF same, found, runs, changes, A
    <2>. QED BY <1>2, <2>1, <2>3, <2>4
  <1>. HIDE DEF runs, L, changes
  <1>5. ASSUME NEW i \in 1 .. L
        PROVE  /\ segs[i] \in Segs /\ segs[i].text = Part(text, runs[i])
               /\ Said(segs[i]) = Part(reading, runs[i])
               /\ HasShare(segs[i])
    <2>. DEFINE t == Part(text, runs[i])
                r == Part(reading, runs[i])
                a == runs[i].from
                b == runs[i].to
    <2>0. a \in Nat /\ b \in Nat /\ 1 <= a /\ a <= b /\ b <= n
      BY <1>3
    <2>1. /\ t \in Text /\ t # << >> /\ DOMAIN t = 1 .. b - a + 1
          /\ \A k \in 1 .. b - a + 1 : t[k] = text[a + k - 1]
      BY <2>0, PartFacts DEF Text
    <2>2. /\ r \in Text /\ r # << >> /\ DOMAIN r = 1 .. b - a + 1
          /\ \A k \in 1 .. b - a + 1 : r[k] = reading[a + k - 1]
      <3>1. b <= Len(reading)
        BY <1>0, <2>0
      <3>. HIDE DEF n
      <3>. QED BY <2>0, <3>1, PartFacts DEF Text
    <2>3. segs[i] = Segment(t, Share(i)) /\ Share(i) = IF a \in A THEN << >> ELSE r
      OBVIOUS
    <2>4. \A k \in a .. b : k \in A <=> a \in A
      BY <1>3
    <2>. HIDE DEF segs, Share, t, r
    <2>5. Share(i) \in Text
      <3>1. << >> \in Text
        BY DEF Text
      <3>. QED BY <2>2, <2>3, <3>1
    <2>6. segs[i] \in Segs /\ segs[i].text = t
      BY <2>1, <2>3, <2>5, SegmentFacts
    <2>7. Said(segs[i]) = r
      <3>1. CASE a \in A
        <4>1. Said(segs[i]) = t
          BY <2>1, <2>3, <2>5, <3>1, SegmentFacts
        <4>2. ASSUME NEW k \in 1 .. b - a + 1 PROVE t[k] = r[k]
          <5>1. a + k - 1 \in a .. b /\ a + k - 1 \in 1 .. n
            <6>1. k \in 1 .. b - a + 1
              BY <4>2
            <6>. HIDE DEF n, a, b
            <6>. QED BY ONLY <1>0, <2>0, <6>1
          <5>2. a + k - 1 \in A
            BY <2>4, <3>1, <5>1
          <5>3. text[a + k - 1] = reading[a + k - 1]
            BY <5>2
          <5>. QED BY <2>1, <2>2, <5>3
        <4>3. t = r
          <5>. DEFINE m == b - a + 1
          <5>1. t \in [1 .. m -> STRING] /\ r \in [1 .. m -> STRING]
            <6>1. DOMAIN t = 1 .. m /\ DOMAIN r = 1 .. m
              BY <2>1, <2>2
            <6>2. t \in [DOMAIN t -> STRING] /\ r \in [DOMAIN r -> STRING]
              <7>1. t \in Seq(STRING) /\ r \in Seq(STRING)
                BY <2>1, <2>2 DEF Text
              <7>. HIDE DEF m
              <7>. QED BY ONLY <7>1, SeqIsFunction
            <6>. HIDE DEF m
            <6>. QED BY <6>1, <6>2
          <5>2. \A k \in 1 .. m : t[k] = r[k]
            BY <4>2
          <5>. HIDE DEF m
          <5>3. t = [k \in 1 .. m |-> t[k]] /\ r = [k \in 1 .. m |-> r[k]]
            BY <5>1
          <5>. QED BY <5>2, <5>3
        <4>. QED BY <4>1, <4>3
      <3>2. CASE a \notin A
        <4>1. Said(segs[i]) = IF r = << >> THEN t ELSE r
          BY <2>1, <2>2, <2>3, <3>2, SegmentFacts
        <4>. QED BY <2>2, <4>1
      <3>. QED BY <3>1, <3>2
    <2>8. ~HasKanji(t)
      <3>1. SUFFICES ASSUME NEW j \in 1 .. b - a + 1, t[j] \in Kanji PROVE FALSE
        BY <2>1 DEF HasKanji
      <3>2. text[a + j - 1] \in Kanji /\ a + j - 1 \in 1 .. n
        <4>1. t[j] = text[a + j - 1]
          BY <2>1
        <4>2. a + j - 1 \in 1 .. n
          BY <2>0
        <4>. QED BY <3>1, <4>1, <4>2
      <3>3. DOMAIN text = 1 .. n
        BY DEF Text
      <3>. QED BY <3>2, <3>3 DEF HasKanji
    <2>9. HasShare(segs[i])
      BY <2>6, <2>8 DEF HasShare
    <2>. QED BY <2>6, <2>7, <2>9 DEF t, r
  <1>. DEFINE T == [i \in DOMAIN runs |-> Part(text, runs[i])]
              D == [i \in DOMAIN runs |-> Part(reading, runs[i])]
  <1>6. Spells(STRING, T, text)
    <2>. HIDE DEF changes
    <2>. QED BY <1>1, RunsSpell DEF Text
  <1>7. Spells(STRING, D, reading)
    <2>1. RunsCover(runs, Len(reading), changes)
      BY <1>0, <1>1
    <2>. QED BY <2>1, RunsSpell DEF Text
  <1>8. segs \in [1 .. L -> Segs] /\ DOMAIN segs = 1 .. L
    BY <1>5
  <1>. HIDE DEF segs
  <1>9. segs \in Seq(Segs) /\ Len(segs) = L
    BY <1>2, <1>8
  <1>10. TextsOf(segs) = T
    <2>1. TextsOf(segs) = [i \in 1 .. L |-> segs[i].text]
      BY <1>8 DEF TextsOf
    <2>. QED BY <1>2, <1>5, <2>1
  <1>11. SaidsOf(segs) = D
    <2>1. SaidsOf(segs) = [i \in 1 .. L |-> Said(segs[i])]
      BY <1>8 DEF SaidsOf
    <2>. QED BY <1>2, <1>5, <2>1
  <1>12. SegmentsSpell(segs, text, reading)
    <2>. HIDE DEF T, D
    <2>. QED BY <1>5, <1>6, <1>7, <1>9, <1>10, <1>11 DEF SegmentsSpell
  <1>. QED BY <1>4, <1>12

\* The groups of an expression are its parts at runs; letters are without kanji.
GroupsCover(groups, runs, changes, expression) ==
    /\ RunsCover(runs, Len(expression), changes)
    /\ DOMAIN groups = 1 .. Len(runs) /\ Len(groups) = Len(runs)
    /\ \A g \in 1 .. Len(runs) :
           /\ groups[g].text = Part(expression, runs[g])
           /\ groups[g].isKana \in BOOLEAN
           /\ groups[g].isKana => ~HasKanji(groups[g].text)

LEMMA GroupFacts ==
    ASSUME NEW e \in Text
    PROVE  \E runs, changes : GroupsCover(Groups(e), runs, changes, e)
  <1>. DEFINE n == Len(e)
              A == { k \in 1 .. n : e[k] \in Kanji }
              changes == { k \in 2 .. n : (k - 1 \in A) # (k \in A) }
              runs == RunsOf(n, changes)
              L == Len(runs)
              groups == [g \in 1 .. L |->
                            [text |-> Part(e, runs[g]),
                             isKana |-> ~(e[runs[g].from] \in Kanji)]]
  <1>0. n \in Nat /\ DOMAIN e = 1 .. n /\ e \in Seq(STRING)
    BY DEF Text
  <1>1. RunsCover(runs, n, changes)
    BY <1>0, RunsOfCover
  <1>2. L \in Nat /\ DOMAIN runs = 1 .. L
    BY <1>0, <1>1, CoverFacts
  <1>3. \A i \in 1 .. L :
               /\ runs[i].from \in Nat /\ runs[i].to \in Nat
               /\ 1 <= runs[i].from /\ runs[i].from <= runs[i].to /\ runs[i].to <= n
    <2>. HIDE DEF runs, changes
    <2>. QED BY <1>0, <1>1, RunFacts
  <1>4. \A i \in 1 .. L : \A k \in runs[i].from .. runs[i].to :
               k \in A <=> runs[i].from \in A
    <2>2. RunsCover(runs, n, { k \in 2 .. n : (k - 1 \in A) # (k \in A) })
      BY <1>1
    <2>. HIDE DEF runs, A, n
    <2>. QED BY <1>0, <2>2, RunsAlike
  <1>5. Groups(e) = groups
    <2>. DEFINE same == { k \in 2 .. Len(e) : (e[k - 1] \in Kanji) # (e[k] \in Kanji) }
                found == RunsOf(Len(e), same)
    <2>1. Groups(e) = [g \in DOMAIN found |->
                          [text |-> Part(e, found[g]),
                           isKana |-> ~(e[found[g].from] \in Kanji)]]
      BY DEF Groups
    <2>2. same = changes
      <3>1. \A k \in 2 .. n : /\ k - 1 \in A <=> e[k - 1] \in Kanji
                              /\ k \in A <=> e[k] \in Kanji
        BY <1>0
      <3>. HIDE DEF A
      <3>. QED BY <3>1
    <2>3. found = runs
      BY <2>2
    <2>. HIDE DEF same, found, runs, changes, A
    <2>. QED BY <1>2, <2>1, <2>3
  <1>. HIDE DEF runs, L, changes
  <1>6. ASSUME NEW g \in 1 .. L
        PROVE  /\ groups[g].text = Part(e, runs[g])
               /\ groups[g].isKana \in BOOLEAN
               /\ groups[g].isKana => ~HasKanji(groups[g].text)
    <2>. DEFINE t == Part(e, runs[g])
                a == runs[g].from
                b == runs[g].to
    <2>0. a \in Nat /\ b \in Nat /\ 1 <= a /\ a <= b /\ b <= n
      <3>. HIDE DEF n
      <3>. QED BY <1>3
    <2>1. /\ DOMAIN t = 1 .. b - a + 1
          /\ \A k \in 1 .. b - a + 1 : t[k] = e[a + k - 1]
      <3>1. e \in Seq(STRING) /\ b <= Len(e)
        BY <1>0, <2>0
      <3>. HIDE DEF n
      <3>. QED BY <2>0, <3>1, PartFacts
    <2>2. groups[g].text = t /\ groups[g].isKana = ~(e[a] \in Kanji)
      OBVIOUS
    <2>3. \A k \in a .. b : k \in A <=> a \in A
      <3>. HIDE DEF A
      <3>. QED BY <1>4
    <2>. HIDE DEF groups, t, a, b
    <2>4. ASSUME ~(e[a] \in Kanji) PROVE ~HasKanji(t)
      <3>1. SUFFICES ASSUME NEW j \in 1 .. b - a + 1, t[j] \in Kanji PROVE FALSE
        BY <2>1 DEF HasKanji
      <3>2. a + j - 1 \in a .. b /\ a + j - 1 \in 1 .. n
        <4>1. j \in 1 .. b - a + 1
          BY <3>1
        <4>. HIDE DEF n
        <4>. QED BY ONLY <1>0, <2>0, <4>1
      <3>3. t[j] = e[a + j - 1]
        BY <2>1
      <3>4. a + j - 1 \in A /\ ~(a \in A)
        BY <2>4, <3>1, <3>2, <3>3
      <3>. HIDE DEF A
      <3>. QED BY <2>3, <3>2, <3>4
    <2>. QED BY <2>2, <2>4 DEF t
  <1>7. DOMAIN groups = 1 .. L
    OBVIOUS
  <1>8. Len(groups) = L
    <2>. HIDE DEF groups
    <2>. QED BY <1>2, <1>7
  <1>. HIDE DEF groups
  <1>9. GroupsCover(groups, runs, changes, e)
    BY <1>1, <1>6, <1>7, <1>8 DEF GroupsCover, L
  <1>. QED BY <1>5, <1>9

LEMMA HiraganaAsLong ==
    ASSUME NEW t \in Text, NEW r \in Text, ToHiragana(t) = ToHiragana(r)
    PROVE  Len(t) = Len(r)
  <1>1. DOMAIN ToHiragana(t) = DOMAIN t /\ DOMAIN ToHiragana(r) = DOMAIN r
    BY DEF ToHiragana
  <1>2. DOMAIN t = DOMAIN r
    BY <1>1
  <1>. QED BY <1>2 DEF Text

IsGroup(group) ==
    /\ group.text \in Text /\ group.text # << >>
    /\ group.isKana \in BOOLEAN
    /\ group.isKana => ~HasKanji(group.text)

BeginsWith(segs, group, reading, start, after) ==
    \E to \in start .. Len(reading) + 1 : \E head, tail :
        /\ tail \in after[to] /\ segs = head \o tail
        /\ SegmentsSpell(head, group.text, SubSeq(reading, start, to - 1))

\* What a group and those after it result in begins with what spells the group
\* and the next part of the reading.
LEMMA SplitsForm ==
    ASSUME NEW group, IsGroup(group), NEW reading \in Text, NEW start \in 1 .. Len(reading) + 1,
           NEW isLast, NEW after,
           NEW segs \in Splits(group, isLast, reading, start, after)
    PROVE  BeginsWith(segs, group, reading, start, after)
  <1>. DEFINE end == Len(reading) + 1
              next == start + Len(group.text)
              Share(to) == SubSeq(reading, start, to - 1)
              With(segments, to) == { segments \o tail : tail \in after[to] }
              ends == { to \in next .. end : isLast => to = end }
              found == UNION { With(<< Segment(group.text, Share(to)) >>, to) : to \in ends }
              m == Len(group.text)
  <1>0. /\ group.text \in Text /\ group.text # << >>
        /\ group.isKana \in BOOLEAN
        /\ group.isKana => ~HasKanji(group.text)
    BY DEF IsGroup
  <1>1. /\ m \in Nat /\ m >= 1 /\ Len(reading) \in Nat
        /\ start \in Nat /\ start >= 1 /\ next \in Nat /\ next > start
    BY <1>0 DEF Text
  <1>2. ASSUME NEW to \in next .. end
        PROVE  /\ to \in start .. end
               /\ Share(to) \in Text /\ Len(Share(to)) = to - start
    <2>1. /\ start \in Int /\ to - 1 \in Int /\ 1 <= start
          /\ start <= (to - 1) + 1 /\ to - 1 <= Len(reading)
          /\ (to - 1) - start + 1 = to - start
      BY <1>1, <1>2
    <2>2. /\ SubSeq(reading, start, to - 1) \in Seq(STRING)
          /\ Len(SubSeq(reading, start, to - 1)) = (to - 1) - start + 1
      BY <2>1, SubSeqFacts DEF Text
    <2>3. to \in start .. end
      BY <1>1
    <2>. QED BY <2>1, <2>2, <2>3 DEF Text
  <1>3. CASE group.isKana
    <2>1. /\ segs \in With(KanaSegments(group.text, Share(next)), next)
          /\ next <= end /\ ToHiragana(group.text) = ToHiragana(Share(next))
      <3>. HIDE DEF With
      <3>1. segs \in IF next <= end /\ ToHiragana(group.text) = ToHiragana(Share(next))
                     THEN With(KanaSegments(group.text, Share(next)), next)
                     ELSE {}
        BY <1>3 DEF Splits, With
      <3>. HIDE DEF next, end, Share
      <3>. QED BY <3>1
    <2>2. next \in next .. end
      BY <1>1, <2>1
    <2>3. next \in start .. end /\ Share(next) \in Text
      <3>. HIDE DEF next, end, Share
      <3>. QED BY <1>2, <2>2
    <2>. DEFINE head == KanaSegments(group.text, Share(next))
    <2>4. SegmentsSpell(head, group.text, Share(next))
      <3>1. Len(group.text) = Len(Share(next))
        <4>. HIDE DEF Share, next
        <4>. QED BY <1>0, <2>1, <2>3, HiraganaAsLong
      <3>. HIDE DEF Share, next
      <3>. QED BY <1>0, <1>3, <2>3, <3>1, KanaSpell
    <2>5. PICK tail \in after[next] : segs = head \o tail
      <3>. HIDE DEF head, next
      <3>1. segs \in { head \o tail : tail \in after[next] }
        BY <2>1 DEF head
      <3>. QED BY <3>1
    <2>. HIDE DEF head
    <2>6. SegmentsSpell(head, group.text, SubSeq(reading, start, next - 1))
      BY <2>4
    <2>. HIDE DEF next
    <2>. QED BY <2>3, <2>5, <2>6 DEF BeginsWith
  <1>4. CASE ~group.isKana
    <2>1. segs \in found
      <3>. HIDE DEF found
      <3>1. segs \in IF \A a, b \in found : a = b THEN found ELSE {}
        BY <1>4 DEF Splits, found
      <3>. QED BY <3>1
    <2>2. PICK to \in ends : segs \in With(<< Segment(group.text, Share(to)) >>, to)
      <3>. HIDE DEF With, ends, Share
      <3>. QED BY <2>1
    <2>3. to \in next .. end
      OBVIOUS
    <2>4. /\ to \in start .. end /\ Share(to) \in Text /\ Len(Share(to)) = to - start
      <3>. HIDE DEF next, end, Share
      <3>. QED BY <1>2, <2>3
    <2>. DEFINE segment == Segment(group.text, Share(to))
                head == << segment >>
    <2>5. /\ segment \in Segs /\ segment.text = group.text
          /\ segment.reading = Share(to)
          /\ Said(segment) = IF Share(to) = << >> THEN group.text ELSE Share(to)
      <3>. HIDE DEF Share
      <3>. QED BY <1>0, <2>4, SegmentFacts
    <2>6. Len(Share(to)) >= Len(group.text) /\ Share(to) # << >>
      <3>1. to - start >= m /\ to - start >= 1
        BY <1>1, <2>3
      <3>. HIDE DEF Share
      <3>. QED BY <2>4, <3>1
    <2>. HIDE DEF segment
    <2>7. HasShare(segment) /\ Said(segment) = Share(to)
      <3>. HIDE DEF Share
      <3>. QED BY <2>5, <2>6 DEF HasShare
    <2>8. SegmentsSpell(head, group.text, Share(to))
      <3>. HIDE DEF Share
      <3>. QED BY <2>5, <2>7, OneSegment
    <2>9. PICK tail \in after[to] : segs = head \o tail
      <3>1. segs \in { head \o tail : tail \in after[to] }
        BY <2>2 DEF segment
      <3>. HIDE DEF head
      <3>. QED BY <3>1
    <2>. HIDE DEF head
    <2>10. SegmentsSpell(head, group.text, SubSeq(reading, start, to - 1))
      BY <2>8
    <2>. QED BY <2>4, <2>9, <2>10 DEF BeginsWith
  <1>. QED BY <1>0, <1>3, <1>4

LEMMA SplitsAreSegments ==
    ASSUME NEW group, IsGroup(group), NEW reading \in Text, NEW start \in 1 .. Len(reading) + 1, NEW isLast,
           NEW after \in [1 .. Len(reading) + 1 -> SUBSET Seq(Segs)]
    PROVE  Splits(group, isLast, reading, start, after) \in SUBSET Seq(Segs)
  <1>1. SUFFICES ASSUME NEW segs \in Splits(group, isLast, reading, start, after)
                 PROVE  segs \in Seq(Segs)
    OBVIOUS
  <1>2. PICK to \in start .. Len(reading) + 1 : \E head, tail :
            /\ tail \in after[to] /\ segs = head \o tail
            /\ SegmentsSpell(head, group.text, SubSeq(reading, start, to - 1))
    <2>1. BeginsWith(segs, group, reading, start, after)
      BY SplitsForm
    <2>. QED BY <2>1 DEF BeginsWith
  <1>3. PICK head, tail :
            /\ tail \in after[to] /\ segs = head \o tail
            /\ SegmentsSpell(head, group.text, SubSeq(reading, start, to - 1))
    BY <1>2
  <1>4. to \in 1 .. Len(reading) + 1
    BY DEF Text
  <1>5. tail \in Seq(Segs) /\ head \in Seq(Segs)
    BY <1>3, <1>4 DEF SegmentsSpell
  <1>. QED BY <1>3, <1>5

LEMMA SplitsSpell ==
    ASSUME NEW group, IsGroup(group), NEW reading \in Text, NEW start \in 1 .. Len(reading) + 1, NEW isLast,
           NEW after, NEW rest,
           \A to \in 1 .. Len(reading) + 1 : \A tail \in after[to] :
               SegmentsSpell(tail, rest, SubSeq(reading, to, Len(reading))),
           NEW segs \in Splits(group, isLast, reading, start, after)
    PROVE  SegmentsSpell(segs, group.text \o rest, SubSeq(reading, start, Len(reading)))
  <1>2. PICK to \in start .. Len(reading) + 1 : \E head, tail :
            /\ tail \in after[to] /\ segs = head \o tail
            /\ SegmentsSpell(head, group.text, SubSeq(reading, start, to - 1))
    <2>1. BeginsWith(segs, group, reading, start, after)
      BY SplitsForm
    <2>. QED BY <2>1 DEF BeginsWith
  <1>3. PICK head, tail :
            /\ tail \in after[to] /\ segs = head \o tail
            /\ SegmentsSpell(head, group.text, SubSeq(reading, start, to - 1))
    BY <1>2
  <1>4. to \in 1 .. Len(reading) + 1
    BY DEF Text
  <1>5. SegmentsSpell(tail, rest, SubSeq(reading, to, Len(reading)))
    BY <1>3, <1>4
  <1>6. SubSeq(reading, start, to - 1) \o SubSeq(reading, to, Len(reading))
            = SubSeq(reading, start, Len(reading))
    <2>1. /\ start \in Int /\ to - 1 \in Int /\ Len(reading) \in Int
          /\ 1 <= start /\ start <= (to - 1) + 1 /\ to - 1 <= Len(reading)
          /\ Len(reading) <= Len(reading) /\ (to - 1) + 1 = to
          /\ reading \in Seq(STRING)
      BY DEF Text
    <2>2. SubSeq(reading, start, to - 1) \o SubSeq(reading, (to - 1) + 1, Len(reading))
              = SubSeq(reading, start, Len(reading))
      BY ONLY <2>1, SubSeqJoin
    <2>. QED BY <2>1, <2>2
  <1>. DEFINE a == SubSeq(reading, start, to - 1)
              b == SubSeq(reading, to, Len(reading))
              t == group.text
  <1>7. SegmentsSpell(head, t, a) /\ SegmentsSpell(tail, rest, b)
    BY <1>3, <1>5
  <1>. HIDE DEF a, b, t
  <1>8. SegmentsSpell(head \o tail, t \o rest, a \o b)
    BY <1>7, SegmentsJoin
  <1>. QED BY <1>3, <1>6, <1>8 DEF a, b, t

LEMMA SegmentizeSpells ==
    ASSUME NEW e \in Text, NEW reading \in Text,
           NEW segs \in Segmentize(reading, Groups(e))
    PROVE  SegmentsSpell(segs, e, reading)
  <1>. DEFINE groups == Groups(e)
              L == Len(groups)
              end == Len(reading) + 1
              At0(start) == IF start = end THEN { << >> } ELSE {}
              Step(x, n) == [start \in 1 .. end |->
                                Splits(groups[L + 1 - n], n = 1, reading, start, x)]
              Body(f, n) == [start \in 1 .. end |->
                                IF n = 0 THEN IF start = end THEN { << >> } ELSE {}
                                ELSE Splits(groups[L + 1 - n], n = 1, reading, start,
                                            f[n - 1])]
              P(f) == f = [n \in 0 .. L |-> Body(f, n)]
              g == CHOOSE f : P(f)
              X == [1 .. end -> SUBSET Seq(Segs)]
              base == [start \in 1 .. end |-> IF start = end THEN { << >> } ELSE {}]
              step == [p \in X \X Nat |->
                          IF p[2] \in 1 .. L THEN Step(p[1], p[2]) ELSE p[1]]
  <1>1. PICK runs, changes : GroupsCover(groups, runs, changes, e)
    BY GroupFacts
  <1>2. /\ L \in Nat /\ L = Len(runs) /\ RunsCover(runs, Len(e), changes)
        /\ Len(e) \in Nat /\ e \in Seq(STRING)
        /\ end \in Nat /\ end >= 1 /\ Len(reading) \in Nat
    <2>1. Len(e) \in Nat /\ e \in Seq(STRING) /\ Len(reading) \in Nat
      BY DEF Text
    <2>2. L = Len(runs) /\ RunsCover(runs, Len(e), changes)
      <3>. HIDE DEF groups
      <3>. QED BY <1>1 DEF GroupsCover
    <2>3. Len(runs) \in Nat
      <3>. HIDE DEF groups
      <3>. QED BY <2>1, <2>2, CoverFacts
    <2>. HIDE DEF groups
    <2>. QED BY <2>1, <2>2, <2>3
  <1>3. segs \in g[L][1]
    BY DEF Segmentize
  <1>. HIDE DEF groups, L
  <1>4. ASSUME NEW i \in 1 .. L
        PROVE  /\ groups[i].text \in Text /\ groups[i].text # << >>
               /\ groups[i].isKana \in BOOLEAN
               /\ groups[i].isKana => ~HasKanji(groups[i].text)
               /\ groups[i].text = SubSeq(e, EndOf(runs, i - 1) + 1, EndOf(runs, i))
               /\ EndOf(runs, i - 1) \in Nat /\ EndOf(runs, i) \in Nat
               /\ EndOf(runs, i - 1) + 1 <= EndOf(runs, i) /\ EndOf(runs, i) <= Len(e)
    <2>1. /\ groups[i].text = Part(e, runs[i])
          /\ groups[i].isKana \in BOOLEAN
          /\ groups[i].isKana => ~HasKanji(groups[i].text)
      BY <1>1, <1>2 DEF GroupsCover
    <2>2. /\ runs[i].from \in Nat /\ runs[i].to \in Nat
          /\ 1 <= runs[i].from /\ runs[i].from <= runs[i].to /\ runs[i].to <= Len(e)
          /\ runs[i].from = EndOf(runs, i - 1) + 1 /\ EndOf(runs, i) = runs[i].to
          /\ EndOf(runs, i - 1) \in Nat
      BY <1>2, RunFacts
    <2>3. Part(e, runs[i]) \in Seq(STRING) /\ Part(e, runs[i]) # << >>
      BY <1>2, <2>2, PartFacts
    <2>4. Part(e, runs[i]) = SubSeq(e, EndOf(runs, i - 1) + 1, EndOf(runs, i))
      BY <2>2 DEF Part
    <2>. QED BY <2>1, <2>2, <2>3, <2>4 DEF Text
  <1>5. base \in X
    <2>1. << >> \in Seq(Segs)
      OBVIOUS
    <2>. HIDE DEF end
    <2>. QED BY <2>1
  <1>6. ASSUME NEW x \in X, NEW n \in 1 .. L PROVE Step(x, n) \in X
    <2>1. L + 1 - n \in 1 .. L
      BY <1>2
    <2>2. ASSUME NEW start \in 1 .. end
          PROVE  Splits(groups[L + 1 - n], n = 1, reading, start, x) \in SUBSET Seq(Segs)
      <3>. DEFINE group == groups[L + 1 - n]
      <3>1. IsGroup(group)
        BY <1>4, <2>1 DEF IsGroup
      <3>. HIDE DEF group
      <3>2. ASSUME NEW isLast
            PROVE  Splits(group, isLast, reading, start, x) \in SUBSET Seq(Segs)
        BY <3>1, SplitsAreSegments
      <3>3. Splits(group, n = 1, reading, start, x) \in SUBSET Seq(Segs)
        BY <3>2
      <3>. QED BY <3>3 DEF group
    <2>. HIDE DEF end
    <2>. QED BY <2>2
  <1>7. Stays(step, X)
    <2>1. ASSUME NEW x \in X, NEW n \in Nat PROVE step[<< x, n >>] \in X
      <3>1. step[<< x, n >>] = IF n \in 1 .. L THEN Step(x, n) ELSE x
        <4>. HIDE DEF X, Step
        <4>. QED OBVIOUS
      <3>. HIDE DEF step, X, Step
      <3>. QED BY <1>6, <3>1
    <2>. HIDE DEF step, X
    <2>. QED BY <2>1 DEF Stays
  <1>8. PICK h : Steps(h, L, X, base, step)
    <2>. HIDE DEF step, X, base
    <2>. QED BY <1>2, <1>5, <1>7, Recursion
  <1>9. /\ h \in [0 .. L -> X] /\ h[0] = base
        /\ \A n \in 1 .. L : h[n] = step[<< h[n - 1], n >>]
    <2>. HIDE DEF step, X, base
    <2>. QED BY <1>8 DEF Steps
  <1>10. P(h)
    <2>1. ASSUME NEW n \in 0 .. L PROVE h[n] = Body(h, n)
      <3>1. CASE n = 0
        <4>1. Body(h, n) = base
          BY <3>1
        <4>. HIDE DEF base, Body
        <4>. QED BY <1>9, <3>1, <4>1
      <3>2. CASE n # 0
        <4>1. n \in 1 .. L /\ n \in Nat /\ n - 1 \in 0 .. L
          BY <1>2, <3>2
        <4>2. h[n - 1] \in X
          <5>. HIDE DEF X
          <5>. QED BY <1>9, <4>1
        <4>3. step[<< h[n - 1], n >>] = Step(h[n - 1], n)
          <5>. HIDE DEF X, Step
          <5>. QED BY <4>1, <4>2
        <4>4. Body(h, n) = Step(h[n - 1], n)
          BY <3>2
        <4>. HIDE DEF step, Step, Body, X
        <4>. QED BY <1>9, <4>1, <4>3, <4>4
      <3>. QED BY <3>1, <3>2
    <2>2. h = [n \in 0 .. L |-> h[n]]
      <3>. HIDE DEF X
      <3>. QED BY <1>9
    <2>. HIDE DEF Body
    <2>. QED BY <2>1, <2>2
  <1>11. P(g)
    <2>. HIDE DEF P
    <2>. QED BY <1>10
  <1>. HIDE DEF g
  <1>12. \A n \in 0 .. L : g[n] = Body(g, n)
    <2>. HIDE DEF Body
    <2>1. g = [n \in 0 .. L |-> Body(g, n)]
      BY <1>11
    <2>. HIDE DEF P
    <2>. QED BY <2>1
  <1>. HIDE DEF P, step, X, base
  <1>. DEFINE Rest(n) == SubSeq(e, EndOf(runs, L - n) + 1, Len(e))
              Holds(n) == \A start \in 1 .. end : \A s \in g[n][start] :
                              SegmentsSpell(s, Rest(n), SubSeq(reading, start, Len(reading)))
              T == { n \in Nat : n <= L => Holds(n) }
  <1>13. 0 \in T
    <2>1. SUFFICES ASSUME NEW start \in 1 .. end, NEW s \in g[0][start]
                   PROVE  SegmentsSpell(s, Rest(0), SubSeq(reading, start, Len(reading)))
      OBVIOUS
    <2>2. g[0][start] = IF start = end THEN { << >> } ELSE {}
      <3>1. g[0] = Body(g, 0)
        <4>. HIDE DEF Body
        <4>. QED BY <1>2, <1>12
      <3>. QED BY <3>1
    <2>3. start = end /\ s = << >>
      BY <2>1, <2>2
    <2>4. Rest(0) = << >>
      <3>1. EndOf(runs, L - 0) = Len(e)
        BY <1>2 DEF RunsCover
      <3>2. SubSeq(e, Len(e) + 1, Len(e)) = << >>
        BY <1>2
      <3>. QED BY <3>1, <3>2
    <2>5. SubSeq(reading, start, Len(reading)) = << >>
      BY <1>2, <2>3 DEF Text
    <2>. HIDE DEF Rest
    <2>. QED BY <2>3, <2>4, <2>5, NoSegments
  <1>14. ASSUME NEW n \in Nat, n \in T PROVE n + 1 \in T
    <2>. HIDE DEF Rest
    <2>1. SUFFICES ASSUME n + 1 <= L, NEW start \in 1 .. end, NEW s \in g[n + 1][start]
                   PROVE  SegmentsSpell(s, Rest(n + 1), SubSeq(reading, start, Len(reading)))
      OBVIOUS
    <2>. DEFINE i == L + 1 - (n + 1)
                group == groups[i]
    <2>2. /\ n + 1 \in 0 .. L /\ n + 1 # 0 /\ (n + 1) - 1 = n /\ n <= L
          /\ i \in 1 .. L /\ i = L - n /\ i - 1 = L - (n + 1)
      BY <1>2, <2>1
    <2>3. g[n + 1][start] = Splits(group, n + 1 = 1, reading, start, g[n])
      <3>1. g[n + 1] = Body(g, n + 1)
        <4>. HIDE DEF Body
        <4>. QED BY <1>12, <2>2
      <3>2. Body(g, n + 1)[start]
                = Splits(groups[L + 1 - (n + 1)], n + 1 = 1, reading, start, g[(n + 1) - 1])
        BY <2>2
      <3>. HIDE DEF Body
      <3>. QED BY <2>2, <3>1, <3>2
    <2>4. /\ IsGroup(group)
          /\ group.text = SubSeq(e, EndOf(runs, i - 1) + 1, EndOf(runs, i))
          /\ EndOf(runs, i - 1) \in Nat /\ EndOf(runs, i) \in Nat
          /\ EndOf(runs, i - 1) + 1 <= EndOf(runs, i) /\ EndOf(runs, i) <= Len(e)
      <3>. HIDE DEF i
      <3>. QED BY <1>4, <2>2 DEF IsGroup
    <2>5. group.text \o Rest(n) = Rest(n + 1)
      <3>. DEFINE a == EndOf(runs, i - 1) + 1
                  b == EndOf(runs, i)
      <3>1. Rest(n) = SubSeq(e, b + 1, Len(e)) /\ Rest(n + 1) = SubSeq(e, a, Len(e))
        BY <2>2 DEF Rest
      <3>2. /\ a \in Int /\ b \in Int /\ 1 <= a /\ a <= b + 1 /\ b <= Len(e)
            /\ Len(e) \in Int /\ Len(e) <= Len(e) /\ e \in Seq(STRING)
        <4>. HIDE DEF i, group
        <4>. QED BY <1>2, <2>4
      <3>3. group.text = SubSeq(e, a, b)
        BY <2>4
      <3>. HIDE DEF a, b, group
      <3>4. SubSeq(e, a, b) \o SubSeq(e, b + 1, Len(e)) = SubSeq(e, a, Len(e))
        BY ONLY <3>2, SubSeqJoin
      <3>. QED BY <3>1, <3>3, <3>4
    <2>6. Holds(n)
      <3>. HIDE DEF Holds
      <3>. QED BY <1>14, <2>2
    <2>. DEFINE after == g[n]
                rest == Rest(n)
    <2>7. \A to \in 1 .. Len(reading) + 1 : \A tail \in after[to] :
              SegmentsSpell(tail, rest, SubSeq(reading, to, Len(reading)))
      BY <2>6
    <2>. HIDE DEF after, rest, group, Holds, T
    <2>8. ASSUME NEW isLast, NEW x \in Splits(group, isLast, reading, start, after)
          PROVE  SegmentsSpell(x, group.text \o rest, SubSeq(reading, start, Len(reading)))
      BY <2>4, <2>7, <2>8, SplitsSpell
    <2>9. s \in Splits(group, n + 1 = 1, reading, start, after)
      BY <2>1, <2>3 DEF after
    <2>10. SegmentsSpell(s, group.text \o rest, SubSeq(reading, start, Len(reading)))
      BY <2>8, <2>9
    <2>. QED BY <2>5, <2>10 DEF rest
  <1>15. L \in T
    <2>. HIDE DEF T
    <2>. QED BY <1>2, <1>13, <1>14, SetInduction
  <1>16. Holds(L)
    <2>. HIDE DEF Holds
    <2>. QED BY <1>2, <1>15
  <1>17. SegmentsSpell(segs, Rest(L), SubSeq(reading, 1, Len(reading)))
    <2>1. 1 \in 1 .. end
      BY <1>2
    <2>. HIDE DEF Rest, end
    <2>. QED BY <1>3, <1>16, <2>1
  <1>18. Rest(L) = e /\ SubSeq(reading, 1, Len(reading)) = reading
    <2>1. EndOf(runs, L - L) = 0
      BY <1>2 DEF EndOf
    <2>2. SubSeq(e, 0 + 1, Len(e)) = e
      BY <1>2
    <2>3. SubSeq(reading, 1, Len(reading)) = reading
      BY DEF Text
    <2>. QED BY <2>1, <2>2, <2>3
  <1>. HIDE DEF Rest
  <1>. QED BY <1>17, <1>18

\* What segmentFurigana returns.
FuriganaOf(segs, e, reading) ==
    /\ FlattenSeq(TextsOf(segs)) = e
    /\ reading # << >> => FlattenSeq(SaidsOf(segs)) = reading
    /\ Len(segs) > 1 => \A k \in DOMAIN segs : HasShare(segs[k])

LEMMA WholeHeadword ==
    ASSUME NEW e \in Text, NEW shown \in Text, NEW reading,
           reading # << >> => reading = IF shown = << >> THEN e ELSE shown
    PROVE  FuriganaOf(<< Segment(e, shown) >>, e, reading)
  <1>. DEFINE segment == Segment(e, shown)
              one == << segment >>
  <1>1. /\ segment \in Segs /\ segment.text = e
        /\ Said(segment) = IF shown = << >> THEN e ELSE shown
    BY SegmentFacts
  <1>2. Len(one) = 1
    OBVIOUS
  <1>. HIDE DEF segment
  <1>3. FlattenSeq(TextsOf(one)) = e /\ FlattenSeq(SaidsOf(one)) = Said(segment)
    BY <1>1, OneSpelled, SpellsFlatten
  <1>. HIDE DEF one
  <1>4. FuriganaOf(one, e, reading)
    BY <1>1, <1>2, <1>3 DEF FuriganaOf
  <1>. QED BY <1>4 DEF one, segment

LEMMA SegmentFuriganaSpells ==
    ASSUME NEW e \in Text, NEW reading \in Text
    PROVE  FuriganaOf(SegmentFurigana(e, reading), e, reading)
  <1>. DEFINE found == Segmentize(reading, Groups(e))
  <1>1. CASE reading \in {<< >>, e}
    <2>1. SegmentFurigana(e, reading) = << Segment(e, << >>) >>
      BY <1>1 DEF SegmentFurigana
    <2>2. << >> \in Text
      BY DEF Text
    <2>3. FuriganaOf(<< Segment(e, << >>) >>, e, reading)
      <3>1. reading # << >> => reading = e
        BY <1>1
      <3>. QED BY <2>2, <3>1, WholeHeadword
    <2>. QED BY <2>1, <2>3
  <1>2. CASE ~(reading \in {<< >>, e}) /\ found = {}
    <2>1. SegmentFurigana(e, reading) = << Segment(e, reading) >>
      BY <1>2 DEF SegmentFurigana
    <2>. QED BY <1>2, <2>1, WholeHeadword
  <1>3. CASE ~(reading \in {<< >>, e}) /\ found # {}
    <2>. DEFINE segs == CHOOSE s \in found : TRUE
    <2>1. SegmentFurigana(e, reading) = segs
      BY <1>3 DEF SegmentFurigana
    <2>2. segs \in found
      <3>. HIDE DEF found
      <3>. QED BY <1>3
    <2>. HIDE DEF segs
    <2>3. SegmentsSpell(segs, e, reading)
      BY <2>2, SegmentizeSpells
    <2>4. FlattenSeq(TextsOf(segs)) = e /\ FlattenSeq(SaidsOf(segs)) = reading
      BY <2>3, SpellsFlatten DEF SegmentsSpell
    <2>5. \A k \in DOMAIN segs : HasShare(segs[k])
      <3>1. segs \in Seq(Segs) /\ \A k \in 1 .. Len(segs) : HasShare(segs[k])
        BY <2>3 DEF SegmentsSpell
      <3>. QED BY <3>1
    <2>. QED BY <2>1, <2>4, <2>5 DEF FuriganaOf
  <1>. QED BY <1>1, <1>2, <1>3

LEMMA FuriganaStep ==
    ASSUME BuildFurigana
    PROVE  FuriganaSpellsBoth'
  <1>1. PICK e \in Text, reading \in Text : headword' = << e, reading >>
    BY FuriganaAssumption DEF BuildFurigana, Text
  <1>2. headword'[1] = e /\ headword'[2] = reading
    BY <1>1
  <1>3. FuriganaOf(ruby', e, reading)
    BY <1>2, SegmentFuriganaSpells DEF BuildFurigana
  <1>4. /\ TextsOf(ruby') = [k \in DOMAIN ruby' |-> ruby'[k].text]
        /\ SaidsOf(ruby') = [k \in DOMAIN ruby' |-> Said(ruby'[k])]
    BY DEF TextsOf, SaidsOf
  <1>. QED BY <1>2, <1>3, <1>4 DEF FuriganaSpellsBoth, Joined, FuriganaOf, HasShare, HasKanji

\* The furigana of every headword spell it and its reading, each kanji with a
\* share: segmentFurigana, whatever the headword.
THEOREM FuriganaSpells == FuriganaSpec => []FuriganaSpellsBoth
  <1>1. FuriganaInit => FuriganaSpellsBoth
    BY DEF FuriganaInit, FuriganaSpellsBoth
  <1>2. FuriganaSpellsBoth /\ [FuriganaNext]_furiganaVars => FuriganaSpellsBoth'
    <2>1. ASSUME FuriganaSpellsBoth, BuildFurigana PROVE FuriganaSpellsBoth'
      BY <2>1, FuriganaStep
    <2>2. ASSUME FuriganaSpellsBoth, UNCHANGED furiganaVars PROVE FuriganaSpellsBoth'
      <3>1. headword' = headword /\ ruby' = ruby
        BY <2>2 DEF furiganaVars
      <3>. QED BY <2>2, <3>1 DEF FuriganaSpellsBoth, Joined
    <2>. QED BY <2>1, <2>2 DEF FuriganaNext
  <1>. QED BY <1>1, <1>2, PTL DEF FuriganaSpec

-----------------------------------------------------------------------------
(* The popup as a whole *)

\* A step of the popup is one of a single part; the others stay as they are.
LEMMA PopupSteps ==
    [PopupNext]_popupVars
        => /\ [Next]_vars /\ [ButtonsNext]_buttonVars
           /\ [FuriganaNext]_furiganaVars /\ [SelectionNext]_selectionVars
  BY DEF PopupNext, popupVars

\* Whichever of its parts the popup is used for: back and forward implement a
\* browsing history, nothing that was replaced comes back, style scopes stay apart, a
\* second card is asked for only where there is a first one, furigana spell their
\* headword and reading, and sentence and highlight belong to the selection.
THEOREM PopupCorrect ==
    PopupSpec => /\ [](ReplacedIsGone /\ ScopesApart) /\ ImplementsHistory
                 /\ NoSilentDuplicate /\ []FuriganaSpellsBoth
                 /\ [](SentenceHoldsWord /\ HighlightBeginsSelection)
  <1>1. PopupSpec => Spec /\ FuriganaSpec /\ SelectionSpec
    BY PopupSteps, PTL DEF PopupSpec, PopupInit, Spec, FuriganaSpec, SelectionSpec
  <1>2. PopupSpec => NoSilentDuplicate
    <2>1. CardsInv /\ [ButtonsNext]_buttonVars =>
              [\A mine \in mines' \ mines :
                   mine.allowDuplicate => mine.expression \in cards]_buttonVars
      BY NoDuplicateStep
    <2>. QED BY <2>1, PopupSteps, InitCards, CardsStep, PTL
             DEF PopupSpec, PopupInit, NoSilentDuplicate
  <1>. QED BY <1>1, <1>2, ReplacedStaysGone, ScopesStayApart, PopupImplementsHistory,
              FuriganaSpells, SentencesHoldWords, HighlightsBeginSelections, PTL

=============================================================================
