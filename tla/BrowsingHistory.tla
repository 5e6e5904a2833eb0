--------------------------- MODULE BrowsingHistory ---------------------------
(***************************************************************************)
(* What the dictionary popup promises of its back and forward buttons: the *)
(* pages visited since the last lookup of the reader, in order, and one of *)
(* them on show.                                                           *)
(***************************************************************************)
EXTENDS Naturals, Sequences

CONSTANT Page

VARIABLES
    pages,      \* visited, in order
    at,         \* the one on show
    buttons     \* which of the buttons are offered

historyVars == << pages, at, buttons >>

Offered(count, position) ==
    [canGoBack |-> position > 1, canGoForward |-> position < count]

Init ==
    /\ pages = << pages[1] >> /\ pages[1] \in Page
    /\ at = 1
    /\ buttons = Offered(1, 1)

\* A link leads to a new page; those after the one on show are forgotten.
Visit ==
    /\ at' = at + 1
    /\ pages' = Append(SubSeq(pages, 1, at), pages'[at'])
    /\ pages'[at'] \in Page
    /\ buttons' = Offered(Len(pages'), at')

Move(to) ==
    /\ to \in DOMAIN pages
    /\ at' = to
    /\ buttons' = Offered(Len(pages), to)
    /\ UNCHANGED pages

Back == Move(at - 1)
Forward == Move(at + 1)

\* A lookup of the reader starts over.
StartOver ==
    /\ at' = 1
    /\ pages' = << pages'[1] >> /\ pages'[1] \in Page
    /\ buttons' = Offered(1, 1)

Next == Visit \/ Back \/ Forward \/ StartOver

Spec == Init /\ [][Next]_historyVars

=============================================================================
