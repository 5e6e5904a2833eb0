----------------------- MODULE DictionaryPopupProofs -----------------------
(***************************************************************************)
(* For every lookup and every order of answers and frames: back and        *)
(* forward of the dictionary popup implement a browsing history, and a     *)
(* render loop adds entries only while its token is the page's, so that    *)
(* nothing of what the reader's lookup replaced comes back, and the style  *)
(* scopes of the sections a user can come to are distinct.                 *)
(***************************************************************************)
EXTENDS DictionaryPopup, TLAPS

(* Sequences, whatever they are of *)

IsSeq(s) == s \in Seq(RangeOf(s))

LEMMA SeqFacts ==
    ASSUME NEW s, IsSeq(s)
    PROVE  Len(s) \in Nat /\ DOMAIN s = 1 .. Len(s)
  BY DEF IsSeq

LEMMA SeqIsSeq ==
    ASSUME NEW S, NEW s \in Seq(S)
    PROVE  IsSeq(s)
  <1>1. Len(s) \in Nat /\ s \in [1 .. Len(s) -> S]
    OBVIOUS
  <1>2. s \in [1 .. Len(s) -> RangeOf(s)]
    BY <1>1 DEF RangeOf
  <1>. QED BY <1>1, <1>2 DEF IsSeq

LEMMA ConcatFacts ==
    ASSUME NEW S, NEW s \in Seq(S), NEW t \in Seq(S)
    PROVE  /\ s \o t \in Seq(S)
           /\ Len(s \o t) = Len(s) + Len(t)
           /\ \A k \in 1 .. Len(s) : (s \o t)[k] = s[k]
           /\ \A k \in Len(s) + 1 .. Len(s) + Len(t) :
                  (s \o t)[k] = t[k - Len(s)]
  OBVIOUS

LEMMA JoinedFacts ==
    ASSUME NEW S, NEW s \in Seq(S), NEW e \in S, NEW t \in Seq(S)
    PROVE  LET joined == s \o << e >> \o t IN
           /\ joined \in Seq(S)
           /\ Len(joined) = Len(s) + 1 + Len(t)
           /\ \A k \in 1 .. Len(s) : joined[k] = s[k]
           /\ joined[Len(s) + 1] = e
           /\ \A k \in Len(s) + 2 .. Len(s) + 1 + Len(t) :
                  joined[k] = t[k - (Len(s) + 1)]
  <1>. DEFINE c == s \o << e >>
  <1>1. /\ c \in Seq(S) /\ Len(c) = Len(s) + 1
        /\ \A k \in 1 .. Len(s) : c[k] = s[k]
        /\ c[Len(s) + 1] = e
        /\ Len(s) \in Nat /\ Len(t) \in Nat
    OBVIOUS
  <1>2. s \o << e >> \o t = c \o t
    OBVIOUS
  <1>. HIDE DEF c
  <1>3. /\ c \o t \in Seq(S)
        /\ Len(c \o t) = Len(c) + Len(t)
        /\ \A k \in 1 .. Len(c) : (c \o t)[k] = c[k]
        /\ \A k \in Len(c) + 1 .. Len(c) + Len(t) :
               (c \o t)[k] = t[k - Len(c)]
    BY <1>1, ConcatFacts
  <1>. QED BY <1>1, <1>2, <1>3

LEMMA AppendFacts ==
    ASSUME NEW s, IsSeq(s), NEW e
    PROVE  /\ IsSeq(Append(s, e))
           /\ Len(Append(s, e)) = Len(s) + 1
           /\ Append(s, e)[Len(s) + 1] = e
           /\ \A k \in 1 .. Len(s) : Append(s, e)[k] = s[k]
  <1>. DEFINE S == RangeOf(s) \cup {e}
  <1>1. s \in Seq(S) /\ e \in S /\ Len(s) \in Nat
    BY DEF IsSeq
  <1>2. /\ Append(s, e) \in Seq(S)
        /\ Len(Append(s, e)) = Len(s) + 1
        /\ Append(s, e)[Len(s) + 1] = e
        /\ \A k \in 1 .. Len(s) : Append(s, e)[k] = s[k]
    BY <1>1
  <1>3. IsSeq(Append(s, e))
    BY <1>2, SeqIsSeq
  <1>. QED BY <1>2, <1>3 DEF IsSeq

LEMMA AllButLastFacts ==
    ASSUME NEW s, IsSeq(s), s # << >>
    PROVE  /\ IsSeq(AllButLast(s))
           /\ Len(AllButLast(s)) = Len(s) - 1
           /\ Len(s) \in DOMAIN s
           /\ \A k \in 1 .. Len(s) - 1 : AllButLast(s)[k] = s[k]
  <1>. DEFINE S == RangeOf(s)
  <1>1. s \in Seq(S) /\ Len(s) \in Nat \ {0} /\ DOMAIN s = 1 .. Len(s)
    BY DEF IsSeq
  <1>2. /\ AllButLast(s) \in Seq(S)
        /\ Len(AllButLast(s)) = Len(s) - 1
        /\ \A k \in 1 .. Len(s) - 1 : AllButLast(s)[k] = s[k]
    BY <1>1 DEF AllButLast
  <1>3. IsSeq(AllButLast(s))
    BY <1>2, SeqIsSeq
  <1>. QED BY <1>1, <1>2, <1>3 DEF IsSeq

LEMMA TailFacts ==
    ASSUME NEW s, IsSeq(s), s # << >>
    PROVE  /\ IsSeq(Tail(s))
           /\ Len(Tail(s)) = Len(s) - 1
           /\ Head(s) = s[1] /\ 1 \in DOMAIN s
           /\ \A k \in 1 .. Len(s) - 1 : Tail(s)[k] = s[k + 1]
  <1>. DEFINE S == RangeOf(s)
  <1>1. s \in Seq(S) /\ Len(s) \in Nat \ {0} /\ DOMAIN s = 1 .. Len(s)
    BY DEF IsSeq
  <1>2. /\ Tail(s) \in Seq(S)
        /\ Len(Tail(s)) = Len(s) - 1
        /\ Head(s) = s[1]
        /\ \A k \in 1 .. Len(s) - 1 : Tail(s)[k] = s[k + 1]
    BY <1>1
  <1>3. IsSeq(Tail(s))
    BY <1>2, SeqIsSeq
  <1>. QED BY <1>1, <1>2, <1>3 DEF IsSeq

-----------------------------------------------------------------------------
(* The browsing history *)

IsPage(p) ==
    /\ p = [id |-> p.id, entries |-> p.entries, count |-> p.count]
    /\ p.id \in Nat

IsStack(stack) ==
    IsSeq(stack) /\ \A k \in DOMAIN stack : IsPage(stack[k].page)

HistoryInv ==
    /\ nextPage \in Nat
    /\ IsPage(page)
    /\ IsStack(backStack) /\ IsStack(forwardStack)
    /\ reported = [canGoBack |-> backStack # << >>,
                   canGoForward |-> forwardStack # << >>]

LEMMA InitHistory == Init => HistoryInv /\ History!Init
  <1>1. SUFFICES ASSUME Init PROVE HistoryInv /\ History!Init
    OBVIOUS
  <1>2. IsSeq(<< >>)
    BY DEF IsSeq
  <1>3. IsPage(page) /\ nextPage \in Nat
    BY <1>1 DEF Init, IsPage
  <1>4. /\ backStack = << >> /\ forwardStack = << >> /\ page.id = 0
        /\ reported = [canGoBack |-> FALSE, canGoForward |-> FALSE]
    BY <1>1 DEF Init
  <1>5. HistoryInv
    <2>1. IsStack(backStack) /\ IsStack(forwardStack)
      BY <1>2, <1>4 DEF IsStack
    <2>2. (backStack # << >>) = FALSE /\ (forwardStack # << >>) = FALSE
      BY <1>4
    <2>3. reported = [canGoBack |-> backStack # << >>,
                      canGoForward |-> forwardStack # << >>]
      BY <1>4, <2>2, Zenon
    <2>. QED BY <1>3, <2>1, <2>3 DEF HistoryInv
  <1>6. VisitedPages = << 0 >>
    <2>1. \A f \in {<< >>} : f \o << 0 >> \o f = << 0 >>
      OBVIOUS
    <2>2. /\ [k \in DOMAIN backStack |-> backStack[k].page.id] = << >>
          /\ [k \in DOMAIN forwardStack |->
                 forwardStack[Len(forwardStack) + 1 - k].page.id] = << >>
      BY <1>4
    <2>. QED BY <1>4, <2>1, <2>2 DEF VisitedPages
  <1>7. Len(backStack) + 1 = 1
    BY <1>4
  <1>8. History!Init
    <2>1. (1 > 1) = FALSE /\ (1 < 1) = FALSE
      OBVIOUS
    <2>2. reported = History!Offered(1, 1)
      BY <1>4, <2>1, Zenon DEF History!Offered
    <2>3. VisitedPages = << VisitedPages[1] >> /\ VisitedPages[1] \in Nat
      BY <1>6
    <2>. QED BY <1>7, <2>2, <2>3 DEF History!Init
  <1>. QED BY <1>5, <1>8

\* A step that leaves the stacks and the identity of the page alone.
LEMMA SamePage ==
    ASSUME HistoryInv, UNCHANGED << nextPage, history >>,
           IsPage(page)', page'.id = page.id
    PROVE  HistoryInv' /\ UNCHANGED History!historyVars
  BY DEF HistoryInv, IsStack, history, History!historyVars, VisitedPages

\* All steps but those of the navigation.
LEMMA OtherSteps ==
    ASSUME HistoryInv,
           \/ LookUp \/ FollowLink \/ FindForReader \/ FindForLink
           \/ AnswerEntries \/ RenderStep \/ UNCHANGED vars
    PROVE  HistoryInv' /\ UNCHANGED History!historyVars
  <1>1. UNCHANGED << nextPage, history >>
    BY DEF LookUp, FollowLink, FindForReader, FindForLink, AnswerEntries,
           RenderStep, RenderReturns, FetchEntries, ReceiveEntries, ShowKanji,
           ShowTerm, AddSection, SectionsDone, Frame, Resume, Elsewhere, vars
  <1>2. IsPage(page)' /\ page'.id = page.id
    <2>1. CASE ReceiveEntries
      <3>1. \/ page' = page
            \/ \E e : page' = [page EXCEPT !.entries = e]
        BY <2>1 DEF ReceiveEntries
      <3>2. page = [id |-> page.id, entries |-> page.entries, count |-> page.count]
            /\ page.id \in Nat
        BY DEF HistoryInv, IsPage
      <3>3. ASSUME NEW e, page' = [page EXCEPT !.entries = e]
            PROVE  page' = [id |-> page.id, entries |-> e, count |-> page.count]
        BY <3>2, <3>3
      <3>. QED BY <3>1, <3>2, <3>3 DEF IsPage
    <2>2. CASE ~ReceiveEntries
      <3>1. page' = page
        BY <2>2 DEF LookUp, FollowLink, FindForReader, FindForLink,
                    AnswerEntries, RenderStep, RenderReturns, FetchEntries,
                    ShowKanji, ShowTerm, AddSection, SectionsDone, Frame,
                    Resume, vars
      <3>. QED BY <3>1 DEF HistoryInv, IsPage
    <2>. QED BY <2>1, <2>2
  <1>. QED BY <1>1, <1>2, SamePage

VisitedInOrder ==
    LET m == Len(backStack)
        n == Len(forwardStack)
    IN  /\ m \in Nat /\ n \in Nat
        /\ VisitedPages \in Seq(Nat)
        /\ Len(VisitedPages) = m + 1 + n
        /\ \A k \in 1 .. m : VisitedPages[k] = backStack[k].page.id
        /\ VisitedPages[m + 1] = page.id
        /\ \A k \in m + 2 .. m + 1 + n :
               VisitedPages[k] = forwardStack[m + n + 2 - k].page.id
        /\ reported = History!Offered(Len(VisitedPages), m + 1)

LEMMA InvVisited == HistoryInv => VisitedInOrder
  <1>1. SUFFICES ASSUME HistoryInv PROVE VisitedInOrder
    OBVIOUS
  <1>. DEFINE m == Len(backStack)
              n == Len(forwardStack)
  <1>2. /\ IsSeq(backStack) /\ IsSeq(forwardStack)
        /\ \A k \in DOMAIN backStack : backStack[k].page.id \in Nat
        /\ \A k \in DOMAIN forwardStack : forwardStack[k].page.id \in Nat
        /\ page.id \in Nat
    BY <1>1 DEF HistoryInv, IsStack, IsPage
  <1>3. m \in Nat /\ n \in Nat
    BY <1>2, SeqFacts
  <1>. DEFINE b == [k \in DOMAIN backStack |-> backStack[k].page.id]
              f == [k \in DOMAIN forwardStack |->
                       forwardStack[n + 1 - k].page.id]
              joined == b \o << page.id >> \o f
  <1>4. /\ VisitedPages = joined
        /\ DOMAIN backStack = 1 .. m /\ DOMAIN forwardStack = 1 .. n
    BY <1>2, SeqFacts DEF VisitedPages
  <1>5. /\ VisitedPages \in Seq(Nat)
        /\ Len(VisitedPages) = m + 1 + n
        /\ \A k \in 1 .. m : VisitedPages[k] = backStack[k].page.id
        /\ VisitedPages[m + 1] = page.id
        /\ \A k \in m + 2 .. m + 1 + n :
               VisitedPages[k] = forwardStack[m + n + 2 - k].page.id
    <2>1. /\ b \in Seq(Nat) /\ Len(b) = m
          /\ \A k \in 1 .. m : b[k] = backStack[k].page.id
      BY <1>2, <1>3, <1>4
    <2>2. \A k \in 1 .. n : n + 1 - k \in 1 .. n
      BY <1>3
    <2>3. /\ f \in Seq(Nat) /\ Len(f) = n
          /\ \A k \in 1 .. n : f[k] = forwardStack[n + 1 - k].page.id
      BY <1>2, <1>3, <1>4, <2>2
    <2>. HIDE DEF b, f
    <2>4. b \in Seq(Nat) /\ f \in Seq(Nat) /\ page.id \in Nat
      BY <1>2, <2>1, <2>3
    <2>5. /\ joined \in Seq(Nat)
          /\ Len(joined) = Len(b) + 1 + Len(f)
          /\ \A k \in 1 .. Len(b) : joined[k] = b[k]
          /\ joined[Len(b) + 1] = page.id
          /\ \A k \in Len(b) + 2 .. Len(b) + 1 + Len(f) :
                 joined[k] = f[k - (Len(b) + 1)]
      BY ONLY <2>4, JoinedFacts
    <2>. HIDE DEF joined
    <2>6. \A k \in m + 2 .. m + 1 + n :
             /\ k - (m + 1) \in 1 .. n
             /\ n + 1 - (k - (m + 1)) = m + n + 2 - k
      BY <1>3
    <2>7. VisitedPages = joined
      BY <1>4
    <2>8. /\ Len(joined) = m + 1 + n
          /\ \A k \in 1 .. m : joined[k] = backStack[k].page.id
          /\ joined[m + 1] = page.id
          /\ \A k \in m + 2 .. m + 1 + n : joined[k] = f[k - (m + 1)]
      BY ONLY <1>3, <2>1, <2>3, <2>5
    <2>9. ASSUME NEW k \in m + 2 .. m + 1 + n
          PROVE  joined[k] = forwardStack[m + n + 2 - k].page.id
      <3>1. f[k - (m + 1)] = forwardStack[n + 1 - (k - (m + 1))].page.id
        BY <2>3, <2>6
      <3>. QED BY <2>6, <2>8, <3>1
    <2>. QED BY <2>5, <2>7, <2>8, <2>9
  <1>6. reported = History!Offered(Len(VisitedPages), m + 1)
    <2>1. /\ (backStack # << >>) = (m + 1 > 1)
          /\ (forwardStack # << >>) = (m + 1 < m + 1 + n)
      BY <1>2, <1>3, SeqFacts DEF IsSeq
    <2>2. reported = [canGoBack |-> m + 1 > 1,
                      canGoForward |-> m + 1 < m + 1 + n]
      BY <1>1, <2>1, Zenon DEF HistoryInv
    <2>. QED BY <1>5, <2>2 DEF History!Offered
  <1>. QED BY <1>3, <1>5, <1>6 DEF VisitedInOrder

LEMMA InvVisitedNext == HistoryInv' => VisitedInOrder'
  BY InvVisited, PTL

\* redirect: the pages ahead are forgotten.
LEMMA RedirectVisits == HistoryInv /\ Redirect => HistoryInv' /\ History!Visit
  <1>1. SUFFICES ASSUME HistoryInv, Redirect PROVE HistoryInv' /\ History!Visit
    OBVIOUS
  <1>. DEFINE m == Len(backStack)
              snapshot == [nodes |-> container, page |-> page]
  <1>2. /\ backStack' = Append(backStack, snapshot)
        /\ forwardStack' = << >>
        /\ page' = [id |-> nextPage, entries |-> NoEntries,
                    count |-> Head(inbox).count]
        /\ nextPage' = nextPage + 1
        /\ reported' = [canGoBack |-> backStack' # << >>,
                        canGoForward |-> forwardStack' # << >>]
    BY <1>1 DEF Redirect, Report, Snapshot
  <1>3. /\ IsSeq(backStack) /\ IsPage(page) /\ nextPage \in Nat
        /\ \A k \in DOMAIN backStack : IsPage(backStack[k].page)
    BY <1>1 DEF HistoryInv, IsStack
  <1>4. /\ IsSeq(backStack') /\ Len(backStack') = m + 1 /\ m \in Nat
        /\ backStack'[m + 1] = snapshot
        /\ \A k \in 1 .. m : backStack'[k] = backStack[k]
        /\ DOMAIN backStack' = 1 .. m + 1 /\ DOMAIN backStack = 1 .. m
    BY <1>2, <1>3, AppendFacts, SeqFacts
  <1>5. HistoryInv'
    <2>1. IsStack(backStack')
      BY <1>3, <1>4 DEF IsStack
    <2>2. IsStack(forwardStack')
      BY <1>2 DEF IsStack, IsSeq
    <2>3. IsPage(page') /\ nextPage' \in Nat
      BY <1>2, <1>3 DEF IsPage
    <2>. QED BY <1>2, <2>1, <2>2, <2>3, Zenon DEF HistoryInv
  <1>6. VisitedInOrder /\ VisitedInOrder'
    BY <1>1, <1>5, InvVisited, InvVisitedNext
  <1>7. VisitedPages' = Append(SubSeq(VisitedPages, 1, m + 1),
                               VisitedPages'[m + 2])
    <2>1. /\ VisitedPages' \in Seq(Nat) /\ Len(VisitedPages') = m + 2
          /\ \A k \in 1 .. m + 1 : VisitedPages'[k] = backStack'[k].page.id
      <3>1. Len(backStack') = m + 1 /\ Len(forwardStack') = 0 /\ m \in Nat
        BY <1>2, <1>4
      <3>. QED BY <1>6, <3>1 DEF VisitedInOrder
    <2>2. /\ VisitedPages \in Seq(Nat) /\ Len(VisitedPages) >= m + 1
          /\ Len(VisitedPages) \in Nat
          /\ \A k \in 1 .. m : VisitedPages[k] = backStack[k].page.id
          /\ VisitedPages[m + 1] = page.id
      BY <1>4, <1>6 DEF VisitedInOrder
    <2>3. \A k \in 1 .. m + 1 : VisitedPages'[k] = VisitedPages[k]
      <3>1. /\ \A k \in 1 .. m : backStack'[k].page.id = backStack[k].page.id
            /\ backStack'[m + 1].page.id = page.id
        BY <1>4
      <3>2. \A k \in 1 .. m + 1 : k \in 1 .. m \/ k = m + 1
        BY <1>4
      <3>. QED BY <2>1, <2>2, <3>1, <3>2
    <2>4. ASSUME NEW u \in Seq(Nat), NEW v \in Seq(Nat), NEW n \in Nat,
                 Len(v) = n + 1, Len(u) >= n, \A k \in 1 .. n : v[k] = u[k]
          PROVE  v = Append(SubSeq(u, 1, n), v[n + 1])
      <3>. DEFINE w == SubSeq(u, 1, n)
      <3>1. w \in Seq(Nat) /\ Len(w) = n /\ \A k \in 1 .. n : w[k] = u[k]
        BY <2>4
      <3>. DEFINE last == v[n + 1]
      <3>2. last \in Nat
        BY <2>4
      <3>. HIDE DEF w, last
      <3>. DEFINE x == Append(w, last)
      <3>3. /\ x \in Seq(Nat) /\ Len(x) = n + 1 /\ x[n + 1] = last
            /\ \A k \in 1 .. n : x[k] = w[k]
        BY <2>4, <3>1, <3>2
      <3>. HIDE DEF x
      <3>4. \A k \in 1 .. n + 1 : x[k] = v[k]
        <4>1. \A k \in 1 .. n + 1 : k \in 1 .. n \/ k = n + 1
          OBVIOUS
        <4>. QED BY <2>4, <3>1, <3>3, <4>1 DEF last
      <3>5. x = v
        BY <2>4, <3>3, <3>4
      <3>. QED BY <3>5 DEF x, w, last
    <2>5. m + 1 \in Nat /\ (m + 1) + 1 = m + 2
      BY <1>4
    <2>. QED BY ONLY <2>1, <2>2, <2>3, <2>4, <2>5
  <1>8. VisitedPages'[m + 2] \in Nat
    BY <1>2, <1>4, <1>5, <1>6 DEF VisitedInOrder, HistoryInv, IsPage
  <1>9. /\ Len(backStack') + 1 = m + 2 /\ m + 1 + 1 = m + 2
        /\ reported' = History!Offered(Len(VisitedPages'), m + 2)
    BY <1>4, <1>6 DEF VisitedInOrder
  <1>. QED BY <1>5, <1>7, <1>8, <1>9 DEF History!Visit

\* navigate, back: the page on show goes over to the other stack.
LEMMA BackMoves ==
    HistoryInv /\ NavigateBack => HistoryInv' /\ History!Back
  <1>1. SUFFICES ASSUME HistoryInv, NavigateBack
                 PROVE  HistoryInv' /\ History!Back
    OBVIOUS
  <1>. DEFINE m == Len(backStack)
              n == Len(forwardStack)
              snapshot == [nodes |-> container, page |-> page]
              last == backStack[m]
  <1>2. /\ backStack # << >> /\ backStack' = AllButLast(backStack)
        /\ forwardStack' = Append(forwardStack, snapshot)
        /\ page' = last.page
        /\ nextPage' = nextPage
        /\ reported' = [canGoBack |-> backStack' # << >>,
                        canGoForward |-> forwardStack' # << >>]
    BY <1>1 DEF NavigateBack, Report, Snapshot, Restore
  <1>3. /\ IsSeq(backStack) /\ IsSeq(forwardStack)
        /\ IsPage(page) /\ nextPage \in Nat
        /\ \A k \in DOMAIN backStack : IsPage(backStack[k].page)
        /\ \A k \in DOMAIN forwardStack : IsPage(forwardStack[k].page)
        /\ m \in Nat /\ n \in Nat
        /\ DOMAIN backStack = 1 .. m /\ DOMAIN forwardStack = 1 .. n
    BY <1>1, SeqFacts DEF HistoryInv, IsStack
  <1>4. /\ IsSeq(forwardStack') /\ Len(forwardStack') = n + 1
        /\ forwardStack'[n + 1] = snapshot
        /\ \A k \in 1 .. n : forwardStack'[k] = forwardStack[k]
        /\ DOMAIN forwardStack' = 1 .. n + 1
    BY <1>2, <1>3, AppendFacts, SeqFacts
  <1>5. /\ IsSeq(backStack') /\ Len(backStack') = m - 1
        /\ m \in 1 .. m
        /\ \A k \in 1 .. m - 1 : backStack'[k] = backStack[k]
        /\ DOMAIN backStack' = 1 .. m - 1
    BY <1>2, <1>3, AllButLastFacts, SeqFacts
  <1>6. HistoryInv'
    <2>1. IsStack(forwardStack')
      BY <1>3, <1>4 DEF IsStack
    <2>2. IsStack(backStack')
      BY <1>3, <1>5 DEF IsStack
    <2>3. IsPage(page') /\ nextPage' \in Nat
      BY <1>2, <1>3, <1>5
    <2>. QED BY <1>2, <2>1, <2>2, <2>3, Zenon DEF HistoryInv
  <1>7. VisitedInOrder /\ VisitedInOrder'
    BY <1>1, <1>6, InvVisited, InvVisitedNext
  <1>8. VisitedPages' = VisitedPages
    <2>1. /\ VisitedPages' \in Seq(Nat) /\ Len(VisitedPages') = m + 1 + n
          /\ \A k \in 1 .. m - 1 : VisitedPages'[k] = backStack'[k].page.id
          /\ VisitedPages'[m - 1 + 1] = page'.id
          /\ \A k \in m - 1 + 2 .. m + 1 + n :
                 VisitedPages'[k] = forwardStack'[m + n + 2 - k].page.id
      <3>1. /\ Len(backStack') = m - 1 /\ m - 1 \in Nat
            /\ Len(forwardStack') = n + 1 /\ n + 1 \in Nat
            /\ (m - 1) + 1 + (n + 1) = m + 1 + n
            /\ \A k \in Nat : (m - 1) + (n + 1) + 2 - k = m + n + 2 - k
        BY <1>3, <1>4, <1>5
      <3>. QED BY <1>7, <3>1 DEF VisitedInOrder
    <2>2. /\ VisitedPages \in Seq(Nat) /\ Len(VisitedPages) = m + 1 + n
          /\ \A k \in 1 .. m : VisitedPages[k] = backStack[k].page.id
          /\ VisitedPages[m + 1] = page.id
          /\ \A k \in m + 2 .. m + 1 + n :
                 VisitedPages[k] = forwardStack[m + n + 2 - k].page.id
      BY <1>7 DEF VisitedInOrder
    <2>. HIDE DEF m, n
    <2>3. ASSUME NEW k \in 1 .. m + 1 + n
          PROVE  VisitedPages'[k] = VisitedPages[k]
      <3>1. CASE k \in 1 .. m - 1
        <4>1. k \in 1 .. m /\ backStack'[k] = backStack[k]
          BY <1>3, <1>5, <3>1
        <4>2. /\ VisitedPages'[k] = backStack'[k].page.id
              /\ VisitedPages[k] = backStack[k].page.id
          BY ONLY <2>1, <2>2, <3>1, <4>1
        <4>. QED BY <4>1, <4>2
      <3>2. CASE k = m
        <4>1. m \in 1 .. m /\ m - 1 + 1 = m
          <5>1. m \in 1 .. m
            BY <1>5
          <5>. QED BY ONLY <5>1
        <4>2. VisitedPages'[m] = page'.id
          BY ONLY <2>1, <4>1
        <4>3. VisitedPages[m] = backStack[m].page.id
          BY ONLY <2>2, <4>1
        <4>. QED BY <1>2, <1>5, <3>2, <4>2, <4>3
      <3>3. CASE k = m + 1
        <4>1. m + n + 2 - k = n + 1 /\ k \in m - 1 + 2 .. m + 1 + n
          BY <1>3, <3>3
        <4>. QED BY <1>4, <2>1, <2>2, <3>3, <4>1
      <3>4. CASE k \in m + 2 .. m + 1 + n
        <4>1. m + n + 2 - k \in 1 .. n /\ k \in m - 1 + 2 .. m + 1 + n
          BY <1>3, <3>4
        <4>. QED BY <1>4, <2>1, <2>2, <3>4, <4>1
      <3>. QED BY <1>3, <3>1, <3>2, <3>3, <3>4
    <2>. QED BY ONLY <1>3, <2>1, <2>2, <2>3
  <1>9. /\ Len(backStack') + 1 = m + 1 - 1
        /\ m + 1 - 1 \in DOMAIN VisitedPages
        /\ reported' = History!Offered(Len(VisitedPages'), m + 1 - 1)
    <2>1. /\ Len(backStack') + 1 = m + 1 - 1 /\ m + 1 - 1 \in 1 .. m + 1 + n
          /\ m \in Nat /\ n \in Nat
      BY <1>3, <1>4, <1>5
    <2>2. reported' = History!Offered(Len(VisitedPages'), m + 1 - 1)
      BY <1>7, <2>1 DEF VisitedInOrder
    <2>3. DOMAIN VisitedPages = 1 .. m + 1 + n
      BY <1>7 DEF VisitedInOrder
    <2>. QED BY <2>1, <2>2, <2>3
  <1>. QED BY <1>6, <1>8, <1>9 DEF History!Back, History!Move

\* navigate, forward: the page on show goes over to the other stack.
LEMMA ForwardMoves ==
    HistoryInv /\ NavigateForward => HistoryInv' /\ History!Forward
  <1>1. SUFFICES ASSUME HistoryInv, NavigateForward
                 PROVE  HistoryInv' /\ History!Forward
    OBVIOUS
  <1>. DEFINE m == Len(backStack)
              n == Len(forwardStack)
              snapshot == [nodes |-> container, page |-> page]
              last == forwardStack[n]
  <1>2. /\ forwardStack # << >> /\ forwardStack' = AllButLast(forwardStack)
        /\ backStack' = Append(backStack, snapshot)
        /\ page' = last.page
        /\ nextPage' = nextPage
        /\ reported' = [canGoBack |-> backStack' # << >>,
                        canGoForward |-> forwardStack' # << >>]
    BY <1>1 DEF NavigateForward, Report, Snapshot, Restore
  <1>3. /\ IsSeq(backStack) /\ IsSeq(forwardStack)
        /\ IsPage(page) /\ nextPage \in Nat
        /\ \A k \in DOMAIN backStack : IsPage(backStack[k].page)
        /\ \A k \in DOMAIN forwardStack : IsPage(forwardStack[k].page)
        /\ m \in Nat /\ n \in Nat
        /\ DOMAIN backStack = 1 .. m /\ DOMAIN forwardStack = 1 .. n
    BY <1>1, SeqFacts DEF HistoryInv, IsStack
  <1>4. /\ IsSeq(backStack') /\ Len(backStack') = m + 1
        /\ backStack'[m + 1] = snapshot
        /\ \A k \in 1 .. m : backStack'[k] = backStack[k]
        /\ DOMAIN backStack' = 1 .. m + 1
    BY <1>2, <1>3, AppendFacts, SeqFacts
  <1>5. /\ IsSeq(forwardStack') /\ Len(forwardStack') = n - 1
        /\ n \in 1 .. n
        /\ \A k \in 1 .. n - 1 : forwardStack'[k] = forwardStack[k]
        /\ DOMAIN forwardStack' = 1 .. n - 1
    BY <1>2, <1>3, AllButLastFacts, SeqFacts
  <1>6. HistoryInv'
    <2>1. IsStack(backStack')
      BY <1>3, <1>4 DEF IsStack
    <2>2. IsStack(forwardStack')
      BY <1>3, <1>5 DEF IsStack
    <2>3. IsPage(page') /\ nextPage' \in Nat
      BY <1>2, <1>3, <1>5
    <2>. QED BY <1>2, <2>1, <2>2, <2>3, Zenon DEF HistoryInv
  <1>7. VisitedInOrder /\ VisitedInOrder'
    BY <1>1, <1>6, InvVisited, InvVisitedNext
  <1>8. VisitedPages' = VisitedPages
    <2>1. /\ VisitedPages' \in Seq(Nat) /\ Len(VisitedPages') = m + 1 + n
          /\ \A k \in 1 .. m + 1 : VisitedPages'[k] = backStack'[k].page.id
          /\ VisitedPages'[m + 1 + 1] = page'.id
          /\ \A k \in m + 1 + 2 .. m + 1 + n :
                 VisitedPages'[k] = forwardStack'[m + n + 2 - k].page.id
      <3>1. /\ Len(backStack') = m + 1 /\ m + 1 \in Nat
            /\ Len(forwardStack') = n - 1 /\ n - 1 \in Nat
            /\ (m + 1) + 1 + (n - 1) = m + 1 + n
            /\ \A k \in Nat : (m + 1) + (n - 1) + 2 - k = m + n + 2 - k
        BY <1>3, <1>4, <1>5
      <3>. QED BY <1>7, <3>1 DEF VisitedInOrder
    <2>2. /\ VisitedPages \in Seq(Nat) /\ Len(VisitedPages) = m + 1 + n
          /\ \A k \in 1 .. m : VisitedPages[k] = backStack[k].page.id
          /\ VisitedPages[m + 1] = page.id
          /\ \A k \in m + 2 .. m + 1 + n :
                 VisitedPages[k] = forwardStack[m + n + 2 - k].page.id
      BY <1>7 DEF VisitedInOrder
    <2>. HIDE DEF m, n
    <2>3. ASSUME NEW k \in 1 .. m + 1 + n
          PROVE  VisitedPages'[k] = VisitedPages[k]
      <3>1. CASE k \in 1 .. m
        <4>1. k \in 1 .. m + 1 /\ backStack'[k] = backStack[k]
          BY <1>3, <1>4, <3>1
        <4>2. /\ VisitedPages'[k] = backStack'[k].page.id
              /\ VisitedPages[k] = backStack[k].page.id
          BY ONLY <2>1, <2>2, <3>1, <4>1
        <4>. QED BY <4>1, <4>2
      <3>2. CASE k = m + 1
        BY <1>3, <1>4, <2>1, <2>2, <3>2
      <3>3. CASE k = m + 2
        <4>1. m + n + 2 - k = n /\ k = m + 1 + 1
          BY <1>3, <3>3
        <4>. QED BY <1>2, <1>3, <2>1, <2>2, <3>3, <4>1
      <3>4. CASE k \in m + 3 .. m + 1 + n
        <4>1. /\ m + n + 2 - k \in 1 .. n - 1
              /\ k \in m + 1 + 2 .. m + 1 + n /\ k \in m + 2 .. m + 1 + n
          BY <1>3, <3>4
        <4>. QED BY <1>5, <2>1, <2>2, <4>1
      <3>. QED BY <1>3, <3>1, <3>2, <3>3, <3>4
    <2>. QED BY ONLY <1>3, <2>1, <2>2, <2>3
  <1>9. /\ Len(backStack') + 1 = m + 1 + 1
        /\ m + 1 + 1 \in DOMAIN VisitedPages
        /\ reported' = History!Offered(Len(VisitedPages'), m + 1 + 1)
    <2>1. /\ Len(backStack') + 1 = m + 1 + 1 /\ m + 1 + 1 \in 1 .. m + 1 + n
          /\ m \in Nat /\ n \in Nat
      BY <1>3, <1>4, <1>5
    <2>2. reported' = History!Offered(Len(VisitedPages'), m + 1 + 1)
      BY <1>7, <2>1 DEF VisitedInOrder
    <2>3. DOMAIN VisitedPages = 1 .. m + 1 + n
      BY <1>7 DEF VisitedInOrder
    <2>. QED BY <2>1, <2>2, <2>3
  <1>. QED BY <1>6, <1>8, <1>9 DEF History!Forward, History!Move

\* The reader's lookup: resetHoshiNavigation.
LEMMA ReplaceStartsOver ==
    HistoryInv /\ ReplaceRender => HistoryInv' /\ History!StartOver
  <1>1. SUFFICES ASSUME HistoryInv, ReplaceRender
                 PROVE  HistoryInv' /\ History!StartOver
    OBVIOUS
  <1>2. /\ backStack' = << >> /\ forwardStack' = << >>
        /\ page'.id = nextPage /\ nextPage' = nextPage + 1
        /\ page' = [id |-> page'.id, entries |-> page'.entries,
                    count |-> page'.count]
        /\ reported' = [canGoBack |-> backStack' # << >>,
                        canGoForward |-> forwardStack' # << >>]
    BY <1>1 DEF ReplaceRender, ResetNavigation, Report
  <1>3. HistoryInv'
    <2>1. IsStack(backStack') /\ IsStack(forwardStack')
      BY <1>2 DEF IsStack, IsSeq
    <2>2. IsPage(page') /\ nextPage' \in Nat
      BY <1>1, <1>2 DEF HistoryInv, IsPage
    <2>. QED BY <1>2, <2>1, <2>2, Zenon DEF HistoryInv
  <1>4. VisitedInOrder'
    BY <1>3, InvVisitedNext
  <1>5. /\ VisitedPages' \in Seq(Nat) /\ Len(VisitedPages') = 1
        /\ Len(backStack') + 1 = 1
        /\ reported' = History!Offered(1, 1)
    BY <1>2, <1>4 DEF VisitedInOrder
  <1>6. VisitedPages' = << VisitedPages'[1] >> /\ VisitedPages'[1] \in Nat
    BY ONLY <1>5
  <1>. QED BY <1>3, <1>5, <1>6 DEF History!StartOver

LEMMA HistoryStep ==
    HistoryInv /\ [Next]_vars => HistoryInv' /\ [History!Next]_History!historyVars
  <1>1. SUFFICES ASSUME HistoryInv, [Next]_vars
                 PROVE  HistoryInv' /\ [History!Next]_History!historyVars
    OBVIOUS
  <1>2. CASE Redirect
    BY <1>1, <1>2, RedirectVisits DEF History!Next
  <1>3. CASE NavigateBack
    BY <1>1, <1>3, BackMoves DEF History!Next
  <1>4. CASE NavigateForward
    BY <1>1, <1>4, ForwardMoves DEF History!Next
  <1>5. CASE ReplaceRender
    BY <1>1, <1>5, ReplaceStartsOver DEF History!Next
  <1>6. CASE \/ LookUp \/ FollowLink \/ FindForReader \/ FindForLink
             \/ AnswerEntries \/ RenderStep \/ UNCHANGED vars
    BY <1>1, <1>6, OtherSteps
  <1>. QED BY <1>1, <1>2, <1>3, <1>4, <1>5, <1>6 DEF Next

THEOREM HistoryInvHolds == Spec => []HistoryInv
  BY InitHistory, HistoryStep, PTL DEF Spec

\* Back and forward of the popup (redirect, navigate, resetHoshiNavigation and
\* reportNavigationState) implement a browsing history, whatever is looked up
\* and in whatever order links, answers and frames come.
THEOREM PopupImplementsHistory == Spec => ImplementsHistory
  <1>1. Init => History!Init
    BY InitHistory
  <1>2. HistoryInv /\ [Next]_vars => [History!Next]_History!historyVars
    BY HistoryStep
  <1>. QED BY <1>1, <1>2, HistoryInvHolds, PTL
           DEF Spec, ImplementsHistory, History!Spec

-----------------------------------------------------------------------------
(* What the popup shows *)

LEMMA ReplacedFacts ==
    ASSUME NEW s, IsSeq(s), NEW r \in DOMAIN s, NEW x
    PROVE  LET t == [s EXCEPT ![r] = x] IN
           /\ IsSeq(t) /\ DOMAIN t = DOMAIN s
           /\ t[r] = x
           /\ \A q \in DOMAIN s : q # r => t[q] = s[q]
  <1>. DEFINE t == [s EXCEPT ![r] = x]
              S == RangeOf(s) \cup {x}
  <1>1. s \in Seq(S) /\ x \in S
    BY DEF IsSeq
  <1>2. t \in Seq(S)
    BY <1>1
  <1>3. IsSeq(t)
    BY <1>2, SeqIsSeq
  <1>4. /\ DOMAIN t = DOMAIN s /\ t[r] = x
        /\ \A q \in DOMAIN s : q # r => t[q] = s[q]
    OBVIOUS
  <1>. QED BY <1>3, <1>4

(* The render loops *)

IsRender(x) ==
    x = [token |-> x.token, page |-> x.page, idx |-> x.idx,
         count |-> x.count, step |-> x.step, node |-> x.node,
         section |-> x.section]

Loops(s) == IsSeq(s) /\ \A k \in DOMAIN s : s[k] \in DOMAIN renders

AnswersKnown(s) ==
    /\ IsSeq(s)
    /\ \A k \in DOMAIN s : s[k].kind = "entries" => s[k].render \in DOMAIN renders

\* A loop that is about to add to the page has compared its token.
LoopInv ==
    /\ IsSeq(renders) /\ \A r \in DOMAIN renders : IsRender(renders[r])
    /\ Loops(callbacks) /\ Loops(frame) /\ AnswersKnown(inbox)
    /\ running # 0 => running \in DOMAIN renders
    /\ running # 0 /\ renders[running].step \in {"entry", "sections"}
           => Current(running)

\* What no step does to the loops there are.
KeepsTokens ==
    \A r \in DOMAIN renders :
        r \in DOMAIN renders' /\ renders'[r].token = renders[r].token

GoodRenders == IsSeq(renders) /\ \A r \in DOMAIN renders : IsRender(renders[r])

\* One loop goes on, its token stays.
LEMMA OneLoopGoes ==
    ASSUME LoopInv, NEW r \in DOMAIN renders, NEW x,
           IsRender(x), x.token = renders[r].token,
           renders' = [renders EXCEPT ![r] = x]
    PROVE  /\ GoodRenders' /\ KeepsTokens
           /\ DOMAIN renders' = DOMAIN renders
           /\ renders'[r] = x
  <1>1. IsSeq(renders)
    BY DEF LoopInv
  <1>2. /\ IsSeq(renders') /\ DOMAIN renders' = DOMAIN renders
        /\ renders'[r] = x
        /\ \A q \in DOMAIN renders : q # r => renders'[q] = renders[q]
    BY <1>1, ReplacedFacts
  <1>. QED BY <1>2 DEF LoopInv, GoodRenders, KeepsTokens

\* The forms in which the loop of a step is changed.
LEMMA RenderUpdates ==
    ASSUME LoopInv, NEW r \in DOMAIN renders
    PROVE  /\ \A s : [renders EXCEPT ![r].step = s] =
                     [renders EXCEPT ![r] = [renders[r] EXCEPT !.step = s]]
           /\ \A s : /\ IsRender([renders[r] EXCEPT !.step = s])
                     /\ [renders[r] EXCEPT !.step = s].token = renders[r].token
                     /\ [renders[r] EXCEPT !.step = s].step = s
  <1>1. renders[r] = [token |-> renders[r].token, page |-> renders[r].page,
                      idx |-> renders[r].idx, count |-> renders[r].count,
                      step |-> renders[r].step, node |-> renders[r].node,
                      section |-> renders[r].section]
    BY DEF LoopInv, IsRender
  <1>2. ASSUME NEW s
        PROVE  [renders[r] EXCEPT !.step = s] =
                   [token |-> renders[r].token, page |-> renders[r].page,
                    idx |-> renders[r].idx, count |-> renders[r].count,
                    step |-> s, node |-> renders[r].node,
                    section |-> renders[r].section]
    BY <1>1
  <1>. QED BY <1>2 DEF IsRender

LEMMA RenderedLater ==
    ASSUME LoopInv, NEW x, IsRender(x), renders' = Append(renders, x),
           running' = Len(renders')
    PROVE  /\ GoodRenders' /\ KeepsTokens
           /\ running' \in DOMAIN renders' /\ renders'[running'] = x
  <1>1. IsSeq(renders) /\ \A r \in DOMAIN renders : IsRender(renders[r])
    BY DEF LoopInv
  <1>2. /\ IsSeq(renders') /\ Len(renders') = Len(renders) + 1
        /\ renders'[Len(renders) + 1] = x
        /\ \A r \in 1 .. Len(renders) : renders'[r] = renders[r]
        /\ DOMAIN renders = 1 .. Len(renders)
        /\ DOMAIN renders' = 1 .. Len(renders) + 1
        /\ Len(renders) \in Nat
    BY <1>1, AppendFacts, SeqFacts
  <1>. QED BY <1>1, <1>2 DEF GoodRenders, KeepsTokens

\* Lists of loops, when loops are added, lists shortened or lengthened.
LEMMA LoopLists ==
    ASSUME NEW D, NEW s, IsSeq(s), \A k \in DOMAIN s : s[k] \in D
    PROVE  /\ \A e \in D : /\ IsSeq(Append(s, e))
                           /\ \A k \in DOMAIN Append(s, e) : Append(s, e)[k] \in D
           /\ s # << >> =>
                  /\ IsSeq(Tail(s)) /\ \A k \in DOMAIN Tail(s) : Tail(s)[k] \in D
                  /\ Head(s) \in D
  <1>1. ASSUME NEW e \in D
        PROVE  /\ IsSeq(Append(s, e))
               /\ \A k \in DOMAIN Append(s, e) : Append(s, e)[k] \in D
    <2>1. /\ IsSeq(Append(s, e))
          /\ DOMAIN Append(s, e) = 1 .. Len(s) + 1
          /\ Append(s, e)[Len(s) + 1] = e
          /\ \A k \in 1 .. Len(s) : Append(s, e)[k] = s[k]
          /\ DOMAIN s = 1 .. Len(s) /\ Len(s) \in Nat
      BY AppendFacts, SeqFacts
    <2>. QED BY <2>1, <1>1
  <1>2. ASSUME s # << >>
        PROVE  /\ IsSeq(Tail(s)) /\ \A k \in DOMAIN Tail(s) : Tail(s)[k] \in D
               /\ Head(s) \in D
    <2>1. /\ IsSeq(Tail(s))
          /\ DOMAIN Tail(s) = 1 .. Len(s) - 1
          /\ Head(s) = s[1] /\ 1 \in DOMAIN s
          /\ \A k \in 1 .. Len(s) - 1 : Tail(s)[k] = s[k + 1]
          /\ DOMAIN s = 1 .. Len(s) /\ Len(s) \in Nat
      BY <1>2, TailFacts, SeqFacts
    <2>. QED BY <2>1
  <1>. QED BY <1>1, <1>2

\* Messages the page has not got yet.
LEMMA AnswerLists ==
    ASSUME AnswersKnown(inbox), KeepsTokens
    PROVE  /\ inbox' = inbox => AnswersKnown(inbox)'
           /\ inbox # << >> /\ inbox' = Tail(inbox) => AnswersKnown(inbox)'
           /\ \A e : /\ inbox' = Append(inbox, e)
                     /\ e.kind = "entries" => e.render \in DOMAIN renders
                     => AnswersKnown(inbox)'
  <1>. DEFINE Good(e) == e.kind = "entries" => e.render \in DOMAIN renders
  <1>1. IsSeq(inbox) /\ \A k \in DOMAIN inbox : Good(inbox[k])
    BY DEF AnswersKnown
  <1>2. \A e : Good(e) => (e.kind = "entries" => e.render \in DOMAIN renders')
    BY DEF KeepsTokens
  <1>3. ASSUME inbox' = inbox PROVE AnswersKnown(inbox)'
    BY <1>1, <1>2, <1>3 DEF AnswersKnown
  <1>4. ASSUME inbox # << >>, inbox' = Tail(inbox) PROVE AnswersKnown(inbox)'
    <2>1. /\ IsSeq(inbox') /\ DOMAIN inbox' = 1 .. Len(inbox) - 1
          /\ \A k \in 1 .. Len(inbox) - 1 : inbox'[k] = inbox[k + 1]
          /\ DOMAIN inbox = 1 .. Len(inbox) /\ Len(inbox) \in Nat
      BY <1>1, <1>4, TailFacts, SeqFacts
    <2>2. \A k \in DOMAIN inbox' : Good(inbox'[k])
      BY <1>1, <2>1
    <2>. QED BY <1>2, <2>1, <2>2 DEF AnswersKnown
  <1>5. ASSUME NEW e, inbox' = Append(inbox, e), Good(e) PROVE AnswersKnown(inbox)'
    <2>1. /\ IsSeq(inbox') /\ DOMAIN inbox' = 1 .. Len(inbox) + 1
          /\ inbox'[Len(inbox) + 1] = e
          /\ \A k \in 1 .. Len(inbox) : inbox'[k] = inbox[k]
          /\ DOMAIN inbox = 1 .. Len(inbox) /\ Len(inbox) \in Nat
      BY <1>1, <1>5, AppendFacts, SeqFacts
    <2>2. \A k \in DOMAIN inbox' : Good(inbox'[k])
      BY <1>1, <1>5, <2>1
    <2>. QED BY <1>2, <2>1, <2>2 DEF AnswersKnown
  <1>. QED BY <1>3, <1>4, <1>5

Adds(step) == step \in {"entry", "sections"}

\* A step in which one loop goes on, waits or returns.
LEMMA LoopGoes ==
    ASSUME LoopInv, NEW r \in DOMAIN renders, NEW x,
           IsRender(x), x.token = renders[r].token,
           renders' = [renders EXCEPT ![r] = x],
           token' = token,
           \/ inbox' = inbox
           \/ (inbox # << >> /\ inbox' = Tail(inbox))
           \/ \E e : inbox' = Append(inbox, e) /\ e.render = r,
           \/ running' = 0
           \/ running' = r /\ (Adds(x.step) => Current(r))
           \/ running' = running /\ ~Adds(x.step),
           callbacks' = callbacks \/ callbacks' = Append(callbacks, r),
           frame' = frame \/ (frame # << >> /\ frame' = Tail(frame))
    PROVE  LoopInv' /\ KeepsTokens
  <1>1. /\ GoodRenders' /\ KeepsTokens
        /\ DOMAIN renders' = DOMAIN renders
        /\ renders'[r] = x
        /\ \A q \in DOMAIN renders : q # r => renders'[q] = renders[q]
    BY OneLoopGoes
  <1>2. Loops(callbacks)' /\ Loops(frame)'
    <2>1. /\ IsSeq(callbacks) /\ \A k \in DOMAIN callbacks :
                                     callbacks[k] \in DOMAIN renders
          /\ IsSeq(frame) /\ \A k \in DOMAIN frame : frame[k] \in DOMAIN renders
      BY DEF LoopInv, Loops
    <2>2. /\ IsSeq(callbacks')
          /\ \A k \in DOMAIN callbacks' : callbacks'[k] \in DOMAIN renders
      <3>1. CASE callbacks' = callbacks
        BY <2>1, <3>1
      <3>2. CASE callbacks' = Append(callbacks, r)
        BY <2>1, <3>2, LoopLists
      <3>. QED BY <3>1, <3>2
    <2>3. /\ IsSeq(frame')
          /\ \A k \in DOMAIN frame' : frame'[k] \in DOMAIN renders
      <3>1. CASE frame' = frame
        BY <2>1, <3>1
      <3>2. CASE frame # << >> /\ frame' = Tail(frame)
        BY <2>1, <3>2, LoopLists
      <3>. QED BY <3>1, <3>2
    <2>. QED BY <1>1, <2>2, <2>3 DEF Loops
  <1>3. AnswersKnown(inbox)'
    BY <1>1, AnswerLists DEF LoopInv
  <1>4. ASSUME running' # 0
        PROVE  /\ running' \in DOMAIN renders'
               /\ Adds(renders'[running'].step) => Current(running)'
    <2>1. CASE running' = r
      BY <1>1, <1>4, <2>1 DEF Current
    <2>2. CASE running' = running /\ running # r /\ ~Adds(x.step)
      BY <1>1, <1>4, <2>2 DEF Current, Adds, LoopInv
    <2>. QED BY <1>4, <2>1, <2>2
  <1>. QED BY <1>1, <1>2, <1>3, <1>4 DEF LoopInv, GoodRenders, Adds

\* A step that starts a loop for the page on show.
LEMMA LoopStarts ==
    ASSUME LoopInv, RenderPopup, inbox # << >>, inbox' = Tail(inbox)
    PROVE  LoopInv' /\ KeepsTokens
  <1>. DEFINE x == [token |-> token', page |-> page'.id, idx |-> 0,
                    count |-> 0, step |-> "head", node |-> 0, section |-> 0]
  <1>1. /\ GoodRenders' /\ KeepsTokens
        /\ running' \in DOMAIN renders' /\ renders'[running'] = x
    <2>1. renders' = Append(renders, x) /\ running' = Len(renders')
      BY DEF RenderPopup
    <2>2. IsRender(x)
      BY DEF IsRender
    <2>. HIDE DEF x
    <2>. QED BY <2>1, <2>2, RenderedLater
  <1>2. Loops(callbacks)' /\ Loops(frame)'
    BY <1>1 DEF RenderPopup, LoopInv, Loops, KeepsTokens
  <1>3. AnswersKnown(inbox)'
    BY <1>1, AnswerLists DEF LoopInv
  <1>. QED BY <1>1, <1>2, <1>3 DEF LoopInv, GoodRenders

\* A step of Flutter or of the user that leaves the loops alone.
LEMMA LoopStays ==
    ASSUME LoopInv, UNCHANGED loops,
           token' = token \/ running = 0,
           \/ inbox' = inbox
           \/ (inbox # << >> /\ inbox' = Tail(inbox))
           \/ \E e : inbox' = Append(inbox, e) /\ e.kind # "entries"
    PROVE  LoopInv' /\ KeepsTokens
  <1>1. KeepsTokens
    BY DEF loops, KeepsTokens
  <1>2. AnswersKnown(inbox)'
    BY <1>1, AnswerLists DEF LoopInv
  <1>. QED BY <1>1, <1>2 DEF loops, LoopInv, Loops, Current

LEMMA LoopGoesOn ==
    ASSUME LoopInv, NEW r \in DOMAIN renders, token' = token,
           inbox' = inbox \/ (inbox # << >> /\ inbox' = Tail(inbox)),
           frame' = frame \/ (frame # << >> /\ frame' = Tail(frame))
    PROVE  /\ \A step : Goes(r, step) /\ (Adds(step) => Current(r))
                            => LoopInv' /\ KeepsTokens
           /\ \A step : Leaves(r, step) => LoopInv' /\ KeepsTokens
           /\ \A step : AwaitsFrame(r, step) => LoopInv' /\ KeepsTokens
           /\ GoesToNextEntry(r) => LoopInv' /\ KeepsTokens
  <1>1. ASSUME NEW step, renders' = [renders EXCEPT ![r].step = step],
               \/ running' = 0
               \/ running' = r /\ (Adds(step) => Current(r)),
               callbacks' = callbacks \/ callbacks' = Append(callbacks, r)
        PROVE  LoopInv' /\ KeepsTokens
    <2>. DEFINE x == [renders[r] EXCEPT !.step = step]
    <2>1. /\ IsRender(x) /\ x.token = renders[r].token /\ x.step = step
          /\ renders' = [renders EXCEPT ![r] = x]
      BY <1>1, RenderUpdates
    <2>. HIDE DEF x
    <2>. QED BY <1>1, <2>1, LoopGoes
  <1>2. ASSUME GoesToNextEntry(r) PROVE LoopInv' /\ KeepsTokens
    <2>. DEFINE x == [renders[r] EXCEPT !.step = "head", !.idx = @ + 1]
    <2>1. IsRender(x) /\ x.token = renders[r].token /\ x.step = "head"
      <3>1. renders[r] = [token |-> renders[r].token, page |-> renders[r].page,
                          idx |-> renders[r].idx, count |-> renders[r].count,
                          step |-> renders[r].step, node |-> renders[r].node,
                          section |-> renders[r].section]
        BY DEF LoopInv, IsRender
      <3>. DEFINE y == [renders[r] EXCEPT !.step = "head"]
      <3>2. y = [token |-> renders[r].token, page |-> renders[r].page,
                 idx |-> renders[r].idx, count |-> renders[r].count,
                 step |-> "head", node |-> renders[r].node,
                 section |-> renders[r].section]
        BY <3>1
      <3>3. x = [y EXCEPT !.idx = renders[r].idx + 1]
        OBVIOUS
      <3>. HIDE DEF y, x
      <3>4. x = [token |-> renders[r].token, page |-> renders[r].page,
                 idx |-> renders[r].idx + 1, count |-> renders[r].count,
                 step |-> "head", node |-> renders[r].node,
                 section |-> renders[r].section]
        BY <3>2, <3>3
      <3>. QED BY <3>4 DEF IsRender
    <2>2. renders' = [renders EXCEPT ![r] = x] /\ running' = r
          /\ callbacks' = callbacks
      BY <1>2 DEF GoesToNextEntry
    <2>. HIDE DEF x
    <2>. QED BY <2>1, <2>2, LoopGoes DEF Adds
  <1>. QED BY <1>1, <1>2 DEF Goes, Leaves, AwaitsFrame

\* The loops after each step that changes more than where one is.
LEMMA FetchGoes == LoopInv /\ FetchEntries => LoopInv' /\ KeepsTokens
  <1>1. SUFFICES ASSUME LoopInv, FetchEntries PROVE LoopInv' /\ KeepsTokens
    OBVIOUS
  <1>. DEFINE r == running
              R == renders[r]
  <1>2. r \in DOMAIN renders /\ R.step = "head"
    BY <1>1 DEF FetchEntries, LoopInv
  <1>3. R = [token |-> R.token, page |-> R.page, idx |-> R.idx,
             count |-> R.count, step |-> R.step, node |-> R.node,
             section |-> R.section]
    BY <1>1, <1>2 DEF LoopInv, IsRender
  <1>4. PICK c : renders' = [renders EXCEPT ![r].step = "asking", ![r].count = c]
    BY <1>1 DEF FetchEntries
  <1>. DEFINE y == [R EXCEPT !.step = "asking"]
              x == [y EXCEPT !.count = c]
  <1>5. renders' = [renders EXCEPT ![r] = x]
    BY <1>2, <1>4
  <1>6. x = [token |-> R.token, page |-> R.page, idx |-> R.idx,
             count |-> c, step |-> "asking", node |-> R.node,
             section |-> R.section]
    <2>1. y = [token |-> R.token, page |-> R.page, idx |-> R.idx,
               count |-> R.count, step |-> "asking", node |-> R.node,
               section |-> R.section]
      BY <1>3
    <2>. HIDE DEF y
    <2>. QED BY <2>1
  <1>. HIDE DEF x
  <1>7. IsRender(x) /\ x.token = renders[r].token
    BY <1>6 DEF IsRender
  <1>8. /\ running' = 0 /\ callbacks' = callbacks /\ frame' = frame
        /\ inbox' = inbox /\ token' = token
    BY <1>1 DEF FetchEntries, Elsewhere
  <1>. QED BY <1>1, <1>2, <1>5, <1>7, <1>8, LoopGoes

LEMMA ShowTermGoes == LoopInv /\ ShowTerm => LoopInv' /\ KeepsTokens
  <1>1. SUFFICES ASSUME LoopInv, ShowTerm PROVE LoopInv' /\ KeepsTokens
    OBVIOUS
  <1>. DEFINE r == running
              R == renders[r]
  <1>2. r \in DOMAIN renders /\ Current(r)
    BY <1>1 DEF ShowTerm, AtEntry, LoopInv
  <1>3. R = [token |-> R.token, page |-> R.page, idx |-> R.idx,
             count |-> R.count, step |-> R.step, node |-> R.node,
             section |-> R.section]
    BY <1>1, <1>2 DEF LoopInv, IsRender
  <1>4. renders' = [renders EXCEPT ![r].step = "sections",
                                   ![r].node = Len(nodes'), ![r].section = 1]
    BY <1>1 DEF ShowTerm
  <1>. DEFINE y == [R EXCEPT !.step = "sections"]
              z == [y EXCEPT !.node = Len(nodes')]
              x == [z EXCEPT !.section = 1]
  <1>5. renders' = [renders EXCEPT ![r] = x]
    BY <1>2, <1>4
  <1>6. x = [token |-> R.token, page |-> R.page, idx |-> R.idx,
             count |-> R.count, step |-> "sections", node |-> Len(nodes'),
             section |-> 1]
    <2>1. y = [token |-> R.token, page |-> R.page, idx |-> R.idx,
               count |-> R.count, step |-> "sections", node |-> R.node,
               section |-> R.section]
      BY <1>3
    <2>. HIDE DEF y
    <2>2. z = [token |-> R.token, page |-> R.page, idx |-> R.idx,
               count |-> R.count, step |-> "sections", node |-> Len(nodes'),
               section |-> R.section]
      BY <2>1
    <2>. HIDE DEF z
    <2>. QED BY <2>2
  <1>. HIDE DEF x
  <1>7. IsRender(x) /\ x.token = renders[r].token
    BY <1>6 DEF IsRender
  <1>8. /\ running' = r /\ callbacks' = callbacks /\ frame' = frame
        /\ inbox' = inbox /\ token' = token
    BY <1>1 DEF ShowTerm, Elsewhere
  <1>. QED BY <1>1, <1>2, <1>5, <1>7, <1>8, LoopGoes

LEMMA AddSectionGoes == LoopInv /\ AddSection => LoopInv' /\ KeepsTokens
  <1>1. SUFFICES ASSUME LoopInv, AddSection PROVE LoopInv' /\ KeepsTokens
    OBVIOUS
  <1>. DEFINE r == running
              R == renders[r]
  <1>2. r \in DOMAIN renders /\ R.step = "sections" /\ Current(r)
    BY <1>1 DEF AddSection, LoopInv
  <1>3. R = [token |-> R.token, page |-> R.page, idx |-> R.idx,
             count |-> R.count, step |-> R.step, node |-> R.node,
             section |-> R.section]
    BY <1>1, <1>2 DEF LoopInv, IsRender
  <1>4. PICK k, s : renders' = [renders EXCEPT ![r].section = k, ![r].step = s]
    BY <1>1 DEF AddSection
  <1>. DEFINE y == [R EXCEPT !.section = k]
              x == [y EXCEPT !.step = s]
  <1>5. renders' = [renders EXCEPT ![r] = x]
    BY <1>2, <1>4
  <1>6. x = [token |-> R.token, page |-> R.page, idx |-> R.idx,
             count |-> R.count, step |-> s, node |-> R.node,
             section |-> k]
    <2>1. y = [token |-> R.token, page |-> R.page, idx |-> R.idx,
               count |-> R.count, step |-> R.step, node |-> R.node,
               section |-> k]
      BY <1>3
    <2>. HIDE DEF y
    <2>. QED BY <2>1
  <1>. HIDE DEF x
  <1>7. IsRender(x) /\ x.token = renders[r].token
    BY <1>6 DEF IsRender
  <1>8. /\ running' = 0 \/ running' = r
        /\ callbacks' = callbacks \/ callbacks' = Append(callbacks, r)
        /\ frame' = frame /\ inbox' = inbox /\ token' = token
    BY <1>1 DEF AddSection, Elsewhere
  <1>. QED BY <1>1, <1>2, <1>5, <1>7, <1>8, LoopGoes

LEMMA AnswerGoes == LoopInv /\ AnswerEntries => LoopInv' /\ KeepsTokens
  <1>1. SUFFICES ASSUME LoopInv, AnswerEntries PROVE LoopInv' /\ KeepsTokens
    OBVIOUS
  <1>2. PICK r \in DOMAIN renders :
           /\ inbox' = Append(inbox, [kind |-> "entries", render |-> r,
                  entries |-> Held(renders[r].idx, renders[r].count)])
           /\ renders' = [renders EXCEPT ![r].step = "awaiting"]
    BY <1>1 DEF AnswerEntries
  <1>3. /\ token' = token /\ running' = running
        /\ callbacks' = callbacks /\ frame' = frame
    BY <1>1 DEF AnswerEntries
  <1>. DEFINE x == [renders[r] EXCEPT !.step = "awaiting"]
  <1>4. /\ IsRender(x) /\ x.token = renders[r].token /\ x.step = "awaiting"
        /\ renders' = [renders EXCEPT ![r] = x]
    BY <1>1, <1>2, RenderUpdates
  <1>5. \E e : inbox' = Append(inbox, e) /\ e.render = r
    BY <1>2
  <1>. HIDE DEF x
  <1>. QED BY <1>1, <1>3, <1>4, <1>5, LoopGoes DEF Adds

LEMMA LoopStep == LoopInv /\ [Next]_vars => LoopInv' /\ KeepsTokens
  <1>1. SUFFICES ASSUME LoopInv, [Next]_vars PROVE LoopInv' /\ KeepsTokens
    OBVIOUS
  <1>2. CASE \/ LookUp \/ FollowLink \/ NavigateBack \/ NavigateForward
             \/ UNCHANGED vars
    <2>1. UNCHANGED << loops, token, inbox >>
      BY <1>2 DEF LookUp, FollowLink, NavigateBack, NavigateForward, vars
    <2>. QED BY <1>1, <2>1, LoopStays
  <1>3. CASE FindForReader \/ FindForLink
    <2>1. UNCHANGED << loops, token >>
      BY <1>3 DEF FindForReader, FindForLink
    <2>2. \/ inbox' = inbox
          \/ \E e : inbox' = Append(inbox, e) /\ e.kind # "entries"
      <3>1. CASE FindForReader
        <4>1. inbox' = Append(inbox, [kind |-> "replace", entries |-> held'])
          BY <3>1 DEF FindForReader
        <4>. QED BY <4>1
      <3>2. CASE FindForLink
        <4>1. \/ inbox' = inbox
              \/ inbox' = Append(inbox, [kind |-> "redirect", count |-> Len(held')])
          BY <3>2 DEF FindForLink
        <4>. QED BY <4>1
      <3>. QED BY <1>3, <3>1, <3>2
    <2>. QED BY <1>1, <2>1, <2>2, LoopStays
  <1>4. CASE AnswerEntries
    BY <1>1, <1>4, AnswerGoes
  <1>5. CASE Redirect
    BY <1>1, <1>5, LoopStarts DEF Redirect, Receives
  <1>6. CASE ReplaceRender
    <2>1. running = 0 /\ inbox # << >> /\ inbox' = Tail(inbox)
      BY <1>6 DEF ReplaceRender, Receives, Idle
    <2>2. RenderPopup \/ UNCHANGED loops
      BY <1>6 DEF ReplaceRender
    <2>. QED BY <1>1, <2>1, <2>2, LoopStarts, LoopStays
  <1>7. CASE RenderReturns
    BY <1>1, <1>7, LoopGoesOn DEF RenderReturns, Elsewhere, LoopInv
  <1>8. CASE FetchEntries
    BY <1>1, <1>8, FetchGoes
  <1>9. CASE ReceiveEntries
    <2>. DEFINE r == Head(inbox).render
    <2>1. /\ inbox # << >> /\ Head(inbox).kind = "entries"
          /\ inbox' = Tail(inbox) /\ token' = token /\ frame' = frame
      BY <1>9 DEF ReceiveEntries, Receives
    <2>2. r \in DOMAIN renders
      <3>1. Head(inbox) = inbox[1] /\ 1 \in DOMAIN inbox
        BY <1>1, <2>1, TailFacts DEF LoopInv, AnswersKnown
      <3>. QED BY <1>1, <2>1, <3>1 DEF LoopInv, AnswersKnown
    <2>3. \/ Leaves(r, "returned")
          \/ GoesToNextEntry(r)
          \/ Goes(r, "entry") /\ Current(r)
      BY <1>9 DEF ReceiveEntries
    <2>. QED BY <1>1, <2>1, <2>2, <2>3, LoopGoesOn
  <1>10. CASE ShowKanji \/ SectionsDone
    <2>1. /\ running \in DOMAIN renders
          /\ AwaitsFrame(running, "frame") \/ GoesToNextEntry(running)
          /\ token' = token /\ inbox' = inbox /\ frame' = frame
      BY <1>1, <1>10 DEF ShowKanji, SectionsDone, EntryDone, Elsewhere, LoopInv
    <2>. QED BY <1>1, <2>1, LoopGoesOn
  <1>11. CASE ShowTerm
    BY <1>1, <1>11, ShowTermGoes
  <1>12. CASE AddSection
    BY <1>1, <1>12, AddSectionGoes
  <1>13. CASE Frame
    <2>1. /\ UNCHANGED << renders, running, token, inbox >>
          /\ frame' = callbacks /\ callbacks' = << >>
      BY <1>13 DEF Frame, Elsewhere
    <2>2. KeepsTokens /\ AnswersKnown(inbox)'
      BY <1>1, <2>1, AnswerLists DEF KeepsTokens, LoopInv
    <2>3. Loops(callbacks)' /\ Loops(frame)'
      BY <1>1, <2>1 DEF LoopInv, Loops, IsSeq
    <2>. QED BY <1>1, <2>1, <2>2, <2>3 DEF LoopInv, Current
  <1>14. CASE Resume
    <2>. DEFINE r == Head(frame)
    <2>1. /\ frame # << >> /\ frame' = Tail(frame)
          /\ token' = token /\ inbox' = inbox
      BY <1>14 DEF Resume, Elsewhere
    <2>2. r \in DOMAIN renders
      BY <1>1, <2>1, LoopLists DEF LoopInv, Loops
    <2>3. \/ Leaves(r, "returned")
          \/ GoesToNextEntry(r)
          \/ Goes(r, "sections") /\ Current(r)
      BY <1>14 DEF Resume
    <2>. QED BY <1>1, <2>1, <2>2, <2>3, LoopGoesOn
  <1>. QED BY <1>1, <1>2, <1>3, <1>4, <1>5, <1>6, <1>7, <1>8, <1>9, <1>10,
              <1>11, <1>12, <1>13, <1>14 DEF Next, RenderStep

-----------------------------------------------------------------------------
(* What is on show, and what back and forward lead to *)

IsNode(x) ==
    x = [entry |-> x.entry, idx |-> x.idx, render |-> x.render,
         sections |-> x.sections]

\* An element made by a render of the page's token.
FromNow(id) ==
    /\ id \in DOMAIN nodes
    /\ nodes[id].render \in DOMAIN renders
    /\ renders[nodes[id].render].token = token

Fresh(shown) == IsSeq(shown) /\ \A k \in DOMAIN shown : FromNow(shown[k])

FreshStack(stack) ==
    IsSeq(stack) /\ \A k \in DOMAIN stack : Fresh(stack[k].nodes)

PageInv ==
    /\ IsSeq(nodes) /\ \A id \in DOMAIN nodes : IsNode(nodes[id])
    /\ Fresh(container) /\ FreshStack(backStack) /\ FreshStack(forwardStack)

LEMMA PageInvShows == PageInv => ReplacedIsGone
  <1>1. SUFFICES ASSUME PageInv, NEW id \in Reachable
                 PROVE  renders[nodes[id].render].token = token
    BY DEF ReplacedIsGone
  <1>2. CASE id \in RangeOf(container)
    BY <1>1, <1>2 DEF PageInv, Fresh, FromNow, RangeOf
  <1>3. ASSUME NEW snapshot \in RangeOf(backStack) \cup RangeOf(forwardStack),
               id \in RangeOf(snapshot.nodes)
        PROVE  renders[nodes[id].render].token = token
    <2>1. Fresh(snapshot.nodes)
      BY <1>1, <1>3 DEF PageInv, FreshStack, RangeOf
    <2>. QED BY <1>3, <2>1 DEF Fresh, FromNow, RangeOf
  <1>. QED BY <1>1, <1>2, <1>3 DEF Reachable

\* A step that leaves the elements' renders alone.
KeepsNodes ==
    /\ IsSeq(nodes)' /\ \A id \in DOMAIN nodes' : IsNode(nodes'[id])
    /\ \A id \in DOMAIN nodes :
           id \in DOMAIN nodes' /\ nodes'[id].render = nodes[id].render

LEMMA FreshStays ==
    ASSUME KeepsTokens, KeepsNodes, token' = token
    PROVE  /\ \A id : FromNow(id) => FromNow(id)'
           /\ Fresh(container) /\ container' = container => Fresh(container)'
           /\ FreshStack(backStack) /\ backStack' = backStack
                  => FreshStack(backStack)'
           /\ FreshStack(forwardStack) /\ forwardStack' = forwardStack
                  => FreshStack(forwardStack)'
  <1>1. ASSUME NEW id, FromNow(id) PROVE FromNow(id)'
    BY <1>1 DEF FromNow, KeepsTokens, KeepsNodes
  <1>. QED BY <1>1 DEF Fresh, FreshStack

LEMMA SamePageNodes ==
    ASSUME PageInv, KeepsTokens, KeepsNodes, token' = token,
           UNCHANGED << container, backStack, forwardStack >>
    PROVE  PageInv'
  BY FreshStays DEF PageInv, KeepsNodes

\* The element of an entry is made by the loop on the stack.
LEMMA NodeAdded ==
    ASSUME PageInv, LoopInv, KeepsTokens, token' = token,
           NEW r \in DOMAIN renders, Current(r), AddNode(r),
           UNCHANGED << backStack, forwardStack >>
    PROVE  PageInv'
  <1>1. /\ nodes' = Append(nodes, Shown(r))
        /\ container' = Append(container, Len(nodes'))
    BY DEF AddNode
  <1>2. IsNode(Shown(r)) /\ Shown(r).render = r
    BY DEF IsNode, Shown
  <1>3. /\ IsSeq(nodes') /\ Len(nodes') = Len(nodes) + 1
        /\ nodes'[Len(nodes')] = Shown(r)
        /\ \A id \in 1 .. Len(nodes) : nodes'[id] = nodes[id]
        /\ DOMAIN nodes = 1 .. Len(nodes) /\ Len(nodes) \in Nat
        /\ DOMAIN nodes' = 1 .. Len(nodes) + 1
    BY <1>1, AppendFacts, SeqFacts DEF PageInv
  <1>4. KeepsNodes
    BY <1>2, <1>3 DEF KeepsNodes, PageInv
  <1>5. FromNow(Len(nodes))'
    <2>1. Len(nodes') \in DOMAIN nodes' /\ nodes'[Len(nodes')].render = r
      BY <1>2, <1>3
    <2>. QED BY <2>1 DEF FromNow, KeepsTokens, Current
  <1>6. Fresh(container)'
    <2>1. /\ IsSeq(container') /\ DOMAIN container' = 1 .. Len(container) + 1
          /\ container'[Len(container) + 1] = Len(nodes')
          /\ \A k \in 1 .. Len(container) : container'[k] = container[k]
          /\ DOMAIN container = 1 .. Len(container) /\ Len(container) \in Nat
      BY <1>1, AppendFacts, SeqFacts DEF PageInv, Fresh
    <2>2. \A k \in 1 .. Len(container) : FromNow(container[k])'
      BY <1>4, <2>1, FreshStays DEF PageInv, Fresh
    <2>3. \A k \in DOMAIN container' : FromNow(container[k])'
      <3>1. \A k \in DOMAIN container' :
               k \in 1 .. Len(container) \/ k = Len(container) + 1
        BY <2>1
      <3>. QED BY <1>5, <2>1, <2>2, <3>1
    <2>. QED BY <2>1, <2>3 DEF Fresh
  <1>. QED BY <1>3, <1>4, <1>6, FreshStays DEF PageInv, KeepsNodes

LEMMA SectionAdded ==
    PageInv /\ LoopInv /\ AddSection /\ KeepsTokens => PageInv'
  <1>1. SUFFICES ASSUME PageInv, LoopInv, AddSection, KeepsTokens
                 PROVE  PageInv'
    OBVIOUS
  <1>. DEFINE node == renders[running].node
  <1>2. PICK e : nodes' = [nodes EXCEPT ![node].sections = e]
    BY <1>1 DEF AddSection
  <1>3. UNCHANGED << token, container, backStack, forwardStack >>
    BY <1>1 DEF AddSection, Elsewhere, history
  <1>4. KeepsNodes
    <2>1. CASE node \notin DOMAIN nodes
      <3>1. nodes' = nodes
        BY <1>1, <1>2, <2>1 DEF PageInv, IsSeq
      <3>. QED BY <1>1, <3>1 DEF KeepsNodes, PageInv
    <2>2. CASE node \in DOMAIN nodes
      <3>. DEFINE N == nodes[node]
                  x == [N EXCEPT !.sections = e]
      <3>1. nodes' = [nodes EXCEPT ![node] = x]
        BY <1>2, <2>2
      <3>2. N = [entry |-> N.entry, idx |-> N.idx, render |-> N.render,
                 sections |-> N.sections]
        BY <1>1, <2>2 DEF PageInv, IsNode
      <3>3. x = [entry |-> N.entry, idx |-> N.idx, render |-> N.render,
                 sections |-> e]
        BY <3>2
      <3>. HIDE DEF x
      <3>4. IsNode(x) /\ x.render = N.render
        BY <3>3 DEF IsNode
      <3>5. /\ IsSeq(nodes') /\ DOMAIN nodes' = DOMAIN nodes
            /\ nodes'[node] = x
            /\ \A id \in DOMAIN nodes : id # node => nodes'[id] = nodes[id]
        BY <1>1, <2>2, <3>1, ReplacedFacts DEF PageInv
      <3>. QED BY <1>1, <3>4, <3>5 DEF KeepsNodes, PageInv
    <2>. QED BY <2>1, <2>2
  <1>. QED BY <1>1, <1>3, <1>4, SamePageNodes

\* A snapshot of the page goes to a stack that was fresh.
LEMMA SnapshotAdded ==
    ASSUME NEW stack, FreshStack(stack), Fresh(container)
    PROVE  FreshStack(Append(stack, Snapshot))
  <1>1. /\ IsSeq(Append(stack, Snapshot))
        /\ DOMAIN Append(stack, Snapshot) = 1 .. Len(stack) + 1
        /\ Append(stack, Snapshot)[Len(stack) + 1] = Snapshot
        /\ \A k \in 1 .. Len(stack) : Append(stack, Snapshot)[k] = stack[k]
        /\ DOMAIN stack = 1 .. Len(stack) /\ Len(stack) \in Nat
    BY AppendFacts, SeqFacts DEF FreshStack
  <1>2. Fresh(Snapshot.nodes)
    BY DEF Snapshot
  <1>. QED BY <1>1, <1>2 DEF FreshStack

LEMMA LastTaken ==
    ASSUME NEW stack, FreshStack(stack), stack # << >>
    PROVE  FreshStack(AllButLast(stack)) /\ Fresh(stack[Len(stack)].nodes)
  <1>1. /\ IsSeq(AllButLast(stack))
        /\ DOMAIN AllButLast(stack) = 1 .. Len(stack) - 1
        /\ \A k \in 1 .. Len(stack) - 1 : AllButLast(stack)[k] = stack[k]
        /\ DOMAIN stack = 1 .. Len(stack) /\ Len(stack) \in Nat
        /\ Len(stack) \in DOMAIN stack
    BY AllButLastFacts, SeqFacts DEF FreshStack
  <1>. QED BY <1>1 DEF FreshStack

\* Pages move between the stacks and the screen: their elements stay.
LEMMA Turned ==
    ASSUME UNCHANGED << nodes, token >>, KeepsTokens, PageInv,
           NEW shown, NEW back, NEW forward,
           Fresh(shown), FreshStack(back), FreshStack(forward),
           container' = shown, backStack' = back, forwardStack' = forward
    PROVE  PageInv'
  <1>1. KeepsNodes
    BY DEF KeepsNodes, PageInv
  <1>2. \A id : FromNow(id) => FromNow(id)'
    BY <1>1, FreshStays
  <1>. QED BY <1>1, <1>2 DEF PageInv, Fresh, FreshStack, KeepsNodes

LEMMA EmptyFresh == Fresh(<< >>) /\ FreshStack(<< >>)
  BY DEF Fresh, FreshStack, IsSeq

LEMMA PageStep ==
    PageInv /\ LoopInv /\ [Next]_vars /\ KeepsTokens => PageInv'
  <1>1. SUFFICES ASSUME PageInv, LoopInv, [Next]_vars, KeepsTokens
                 PROVE  PageInv'
    OBVIOUS
  <1>2. CASE Redirect
    <2>1. /\ container' = << >> /\ backStack' = Append(backStack, Snapshot)
          /\ forwardStack' = << >> /\ UNCHANGED << nodes, token >>
      BY <1>2 DEF Redirect
    <2>. QED BY <1>1, <2>1, EmptyFresh, SnapshotAdded, Turned DEF PageInv
  <1>3. CASE NavigateBack
    <2>1. /\ backStack # << >>
          /\ container' = backStack[Len(backStack)].nodes
          /\ backStack' = AllButLast(backStack)
          /\ forwardStack' = Append(forwardStack, Snapshot)
          /\ UNCHANGED << nodes, token >>
      BY <1>3 DEF NavigateBack, Restore
    <2>. QED BY <1>1, <2>1, LastTaken, SnapshotAdded, Turned DEF PageInv
  <1>4. CASE NavigateForward
    <2>1. /\ forwardStack # << >>
          /\ container' = forwardStack[Len(forwardStack)].nodes
          /\ forwardStack' = AllButLast(forwardStack)
          /\ backStack' = Append(backStack, Snapshot)
          /\ UNCHANGED << nodes, token >>
      BY <1>4 DEF NavigateForward, Restore
    <2>. QED BY <1>1, <2>1, LastTaken, SnapshotAdded, Turned DEF PageInv
  <1>5. CASE ReplaceRender
    <2>1. /\ container' = << >> /\ backStack' = << >> /\ forwardStack' = << >>
          /\ nodes' = nodes
      BY <1>5 DEF ReplaceRender, ResetNavigation
    <2>. QED BY <1>1, <2>1 DEF PageInv, Fresh, FreshStack, IsSeq
  <1>6. CASE ShowKanji \/ ShowTerm
    <2>1. /\ running \in DOMAIN renders /\ Current(running) /\ AddNode(running)
          /\ UNCHANGED << token, backStack, forwardStack >>
      BY <1>1, <1>6 DEF ShowKanji, ShowTerm, AtEntry, Elsewhere, history, LoopInv
    <2>. QED BY <1>1, <2>1, NodeAdded
  <1>7. CASE AddSection
    BY <1>1, <1>7, SectionAdded
  <1>8. CASE \/ LookUp \/ FollowLink \/ FindForReader \/ FindForLink
             \/ AnswerEntries \/ RenderReturns \/ FetchEntries
             \/ ReceiveEntries \/ SectionsDone \/ Frame \/ Resume
             \/ UNCHANGED vars
    <2>1. UNCHANGED << nodes, token, container, backStack, forwardStack >>
      BY <1>8 DEF LookUp, FollowLink, FindForReader, FindForLink,
                  AnswerEntries, RenderReturns, FetchEntries, ReceiveEntries,
                  SectionsDone, Frame, Resume, Elsewhere, document, history,
                  vars
    <2>2. KeepsNodes
      BY <1>1, <2>1 DEF KeepsNodes, PageInv
    <2>. QED BY <1>1, <2>1, <2>2, SamePageNodes
  <1>. QED BY <1>1, <1>2, <1>3, <1>4, <1>5, <1>6, <1>7, <1>8
           DEF Next, RenderStep

LEMMA InitFresh == Init => LoopInv /\ PageInv
  <1>1. SUFFICES ASSUME Init PROVE LoopInv /\ PageInv
    OBVIOUS
  <1>2. IsSeq(<< >>)
    BY DEF IsSeq
  <1>. QED BY <1>1, <1>2
           DEF Init, LoopInv, Loops, AnswersKnown, PageInv, Fresh, FreshStack

\* A render whose token is no longer the page's adds nothing (the comparisons
\* of renderPopup after each await), and a lookup of the reader empties the
\* stacks (resetHoshiNavigation): nothing it replaced can be reached again.
THEOREM ReplacedStaysGone == Spec => []ReplacedIsGone
  <1>1. Init => LoopInv /\ PageInv
    BY InitFresh
  <1>2. LoopInv /\ PageInv /\ [Next]_vars => (LoopInv /\ PageInv)'
    BY LoopStep, PageStep
  <1>3. PageInv => ReplacedIsGone
    BY PageInvShows
  <1>. QED BY <1>1, <1>2, <1>3, PTL DEF Spec

-----------------------------------------------------------------------------
(* The scopes of the dictionary styles *)

Scope(id, k) == nodes[id].sections[k].scope

\* Elements are of renders there have been, and these of tokens there have been.
MadeInv ==
    /\ token \in Nat
    /\ \A r \in DOMAIN renders : renders[r].token \in Nat /\ renders[r].token <= token
    /\ \A id \in DOMAIN nodes : nodes[id].render \in DOMAIN renders
                                /\ IsSeq(nodes[id].sections)

\* Scopes are numbered since the reader's lookup, each style is where its scope
\* is, and no scope is given twice.
ScopedInv ==
    /\ nextScope \in Nat
    /\ \A id, k : FromNow(id) /\ k \in DOMAIN nodes[id].sections =>
           /\ Scope(id, k) \in Nat /\ Scope(id, k) <= nextScope
           /\ Scope(id, k) # 0 => Scope(id, k) \in styles
    /\ \A id, k, other, m :
           /\ FromNow(id) /\ k \in DOMAIN nodes[id].sections
           /\ FromNow(other) /\ m \in DOMAIN nodes[other].sections
           /\ Scope(id, k) # 0 /\ Scope(id, k) = Scope(other, m)
           => id = other /\ k = m

ScopeInv == MadeInv /\ ScopedInv

LEMMA ReachableIsFresh ==
    ASSUME PageInv, NEW id \in Reachable
    PROVE  FromNow(id)
  <1>1. CASE id \in RangeOf(container)
    BY <1>1 DEF PageInv, Fresh, RangeOf
  <1>2. ASSUME NEW snapshot \in RangeOf(backStack) \cup RangeOf(forwardStack),
               id \in RangeOf(snapshot.nodes)
        PROVE  FromNow(id)
    <2>1. Fresh(snapshot.nodes)
      BY <1>2 DEF PageInv, FreshStack, RangeOf
    <2>. QED BY <1>2, <2>1 DEF Fresh, RangeOf
  <1>. QED BY <1>1, <1>2 DEF Reachable

LEMMA ScopeInvShows == PageInv /\ ScopeInv => ScopesApart
  <1>. DEFINE scoped == UNION { ScopesOf(id) : id \in Reachable }
  <1>1. SUFFICES ASSUME PageInv, ScopeInv, NEW place \in scoped
                 PROVE  /\ ScopeAt(place) \in styles
                        /\ \A other \in scoped \ {place} :
                               ScopeAt(other) # ScopeAt(place)
    BY DEF ScopesApart
  <1>2. ASSUME NEW p \in scoped
        PROVE  \E id, k : /\ p = << id, k >> /\ FromNow(id)
                          /\ k \in DOMAIN nodes[id].sections
                          /\ ScopeAt(p) = Scope(id, k) /\ Scope(id, k) # 0
    <2>1. PICK id \in Reachable : p \in ScopesOf(id)
      BY <1>2
    <2>2. PICK k \in DOMAIN nodes[id].sections :
             p = << id, k >> /\ nodes[id].sections[k].scope # 0
      BY <2>1 DEF ScopesOf
    <2>3. p[1] = id /\ p[2] = k
      BY <2>2
    <2>. QED BY <1>1, <2>1, <2>2, <2>3, ReachableIsFresh DEF ScopeAt, Scope
  <1>. HIDE DEF scoped
  <1>3. PICK id, k : /\ place = << id, k >> /\ FromNow(id)
                     /\ k \in DOMAIN nodes[id].sections
                     /\ ScopeAt(place) = Scope(id, k) /\ Scope(id, k) # 0
    BY <1>2
  <1>4. ScopeAt(place) \in styles
    BY <1>1, <1>3 DEF ScopeInv, ScopedInv
  <1>5. ASSUME NEW other \in scoped \ {place}, ScopeAt(other) = ScopeAt(place)
        PROVE  FALSE
    <2>1. PICK jd, m : /\ other = << jd, m >> /\ FromNow(jd)
                       /\ m \in DOMAIN nodes[jd].sections
                       /\ ScopeAt(other) = Scope(jd, m) /\ Scope(jd, m) # 0
      BY <1>2, <1>5
    <2>2. id = jd /\ k = m
      BY <1>1, <1>3, <1>5, <2>1 DEF ScopeInv, ScopedInv
    <2>. QED BY <1>3, <1>5, <2>1, <2>2
  <1>. QED BY <1>4, <1>5

\* What is made of a render that goes on, or of one more.
LEMMA MadeStays ==
    ASSUME MadeInv, KeepsTokens, token' \in Nat, token <= token',
           \A r \in DOMAIN renders' :
               r \in DOMAIN renders \/ renders'[r].token = token',
           \A id \in DOMAIN nodes' :
               /\ IsSeq(nodes'[id].sections)
               /\ nodes'[id].render \in DOMAIN renders
    PROVE  MadeInv'
  BY DEF MadeInv, KeepsTokens

\* A step that keeps the elements and their sections, or adds one without.
LEMMA ScopesStay ==
    ASSUME MadeInv, ScopedInv, KeepsTokens, UNCHANGED << token, styles, nextScope >>,
           \A id \in DOMAIN nodes' :
               \/ nodes'[id].sections = << >>
               \/ /\ id \in DOMAIN nodes
                  /\ nodes'[id] = nodes[id]
    PROVE  ScopedInv'
  <1>1. ASSUME NEW id, FromNow(id)', NEW k \in DOMAIN nodes'[id].sections
        PROVE  /\ FromNow(id) /\ k \in DOMAIN nodes[id].sections
               /\ Scope(id, k)' = Scope(id, k)
    <2>1. nodes'[id].sections # << >>
      BY <1>1
    <2>2. id \in DOMAIN nodes /\ nodes'[id] = nodes[id]
      BY <1>1, <2>1 DEF FromNow
    <2>3. FromNow(id)
      BY <1>1, <2>2 DEF FromNow, MadeInv, KeepsTokens
    <2>. QED BY <1>1, <2>2, <2>3 DEF Scope
  <1>. QED BY <1>1 DEF ScopedInv

\* A render starts with the page's token.
LEMMA PopupStarts ==
    ASSUME IsSeq(renders), RenderPopup
    PROVE  \A r \in DOMAIN renders' :
               r \in DOMAIN renders \/ renders'[r].token = token'
  <1>. DEFINE x == [token |-> token', page |-> page'.id, idx |-> 0,
                    count |-> 0, step |-> "head", node |-> 0, section |-> 0]
  <1>1. renders' = Append(renders, x) /\ x.token = token'
    BY DEF RenderPopup
  <1>. HIDE DEF x
  <1>2. /\ DOMAIN renders' = 1 .. Len(renders) + 1 /\ Len(renders) \in Nat
        /\ DOMAIN renders = 1 .. Len(renders)
        /\ renders'[Len(renders) + 1] = x
    BY <1>1, AppendFacts, SeqFacts
  <1>. QED BY <1>1, <1>2

LEMMA SectionScoped ==
    LoopInv /\ PageInv /\ ScopeInv /\ AddSection /\ KeepsTokens => ScopeInv'
  <1>1. SUFFICES ASSUME LoopInv, PageInv, ScopeInv, AddSection, KeepsTokens
                 PROVE  ScopeInv'
    OBVIOUS
  <1>. DEFINE node == renders[running].node
              N == nodes[node]
              old == N.sections
  <1>2. PICK scope, dictionary :
           /\ nodes' = [nodes EXCEPT ![node].sections =
                  Append(@, [dictionary |-> dictionary, scope |-> scope])]
           /\ \/ /\ scope = nextScope + 1 /\ nextScope' = nextScope + 1
                 /\ styles' = styles \cup {nextScope + 1}
              \/ scope = 0 /\ nextScope' = nextScope /\ styles' = styles
    BY <1>1 DEF AddSection
  <1>3. /\ token' = token /\ DOMAIN renders' = DOMAIN renders
    BY <1>1 DEF AddSection, Elsewhere
  <1>4. /\ nextScope \in Nat /\ nextScope' \in Nat /\ nextScope <= nextScope'
        /\ styles \subseteq styles' /\ scope \in Nat /\ scope <= nextScope'
        /\ scope # 0 => scope \in styles' /\ scope > nextScope
    BY <1>1, <1>2 DEF ScopeInv, ScopedInv
  <1>5. CASE node \notin DOMAIN nodes
    <2>1. nodes' = nodes
      BY <1>1, <1>2, <1>5 DEF PageInv, IsSeq
    <2>2. MadeInv'
      BY <1>1, <1>3, <2>1 DEF MadeInv, ScopeInv, KeepsTokens
    <2>3. \A id : FromNow(id)' => FromNow(id)
      BY <1>1, <1>3, <2>1 DEF FromNow, KeepsTokens
    <2>4. ScopedInv'
      BY <1>1, <1>4, <2>1, <2>3, SMTT(30) DEF ScopeInv, ScopedInv, Scope
    <2>. QED BY <2>2, <2>4 DEF ScopeInv
  <1>6. CASE node \in DOMAIN nodes
    <2>. DEFINE e == [dictionary |-> dictionary, scope |-> scope]
                x == [N EXCEPT !.sections = Append(old, e)]
    <2>1. nodes' = [nodes EXCEPT ![node] = x]
      BY <1>2, <1>6
    <2>. HIDE DEF e
    <2>2. N = [entry |-> N.entry, idx |-> N.idx, render |-> N.render,
               sections |-> N.sections]
      BY <1>1, <1>6 DEF PageInv, IsNode
    <2>3. x = [entry |-> N.entry, idx |-> N.idx, render |-> N.render,
               sections |-> Append(old, e)]
      BY <2>2
    <2>4. x.sections = Append(old, e) /\ x.render = N.render /\ e.scope = scope
      BY <2>3 DEF e
    <2>5. IsSeq(old)
      BY <1>1, <1>6 DEF ScopeInv, MadeInv
    <2>. HIDE DEF x
    <2>6. /\ DOMAIN nodes' = DOMAIN nodes /\ nodes'[node] = x
          /\ \A id \in DOMAIN nodes : id # node => nodes'[id] = nodes[id]
      BY <1>1, <1>6, <2>1, ReplacedFacts DEF PageInv
    <2>7. /\ IsSeq(x.sections) /\ DOMAIN x.sections = 1 .. Len(old) + 1
          /\ x.sections[Len(old) + 1].scope = scope
          /\ \A k \in 1 .. Len(old) : x.sections[k] = old[k]
          /\ DOMAIN old = 1 .. Len(old) /\ Len(old) \in Nat
      BY <2>4, <2>5, AppendFacts, SeqFacts
    <2>8. MadeInv'
      <3>1. /\ token \in Nat /\ token <= token
            /\ \A id \in DOMAIN nodes : /\ nodes[id].render \in DOMAIN renders
                                        /\ IsSeq(nodes[id].sections)
        BY <1>1 DEF MadeInv, ScopeInv
      <3>2. \A id \in DOMAIN nodes' : /\ IsSeq(nodes'[id].sections)
                                      /\ nodes'[id].render \in DOMAIN renders
        BY <1>6, <2>4, <2>6, <2>7, <3>1
      <3>. QED BY <1>1, <1>3, <3>1, <3>2, MadeStays DEF ScopeInv
    <2>9. \A id : FromNow(id)' => FromNow(id)
      BY <1>1, <1>3, <2>4, <2>6 DEF FromNow, KeepsTokens, ScopeInv, MadeInv
    <2>. DEFINE New(id, k) == id = node /\ k = Len(old) + 1
    <2>10. ASSUME NEW id, FromNow(id)', NEW k \in DOMAIN nodes'[id].sections
           PROVE  \/ New(id, k) /\ Scope(id, k)' = scope
                  \/ /\ FromNow(id) /\ k \in DOMAIN nodes[id].sections
                     /\ Scope(id, k)' = Scope(id, k)
      <3>1. FromNow(id) /\ id \in DOMAIN nodes
        BY <2>9, <2>10 DEF FromNow
      <3>2. CASE id # node
        BY <2>6, <2>10, <3>1, <3>2 DEF Scope
      <3>3. CASE id = node
        <4>1. k \in 1 .. Len(old) \/ k = Len(old) + 1
          BY <2>6, <2>7, <2>10, <3>3, SMTT(30)
        <4>. QED BY <2>6, <2>7, <2>10, <3>1, <3>3, <4>1 DEF Scope
      <3>. QED BY <3>2, <3>3
    <2>11. \A id, k : FromNow(id) /\ k \in DOMAIN nodes[id].sections =>
              /\ Scope(id, k) \in Nat /\ Scope(id, k) <= nextScope
              /\ Scope(id, k) # 0 => Scope(id, k) \in styles
      BY <1>1 DEF ScopeInv, ScopedInv
    <2>12. \A id, k, other, m :
              /\ FromNow(id) /\ k \in DOMAIN nodes[id].sections
              /\ FromNow(other) /\ m \in DOMAIN nodes[other].sections
              /\ Scope(id, k) # 0 /\ Scope(id, k) = Scope(other, m)
              => id = other /\ k = m
      BY <1>1 DEF ScopeInv, ScopedInv
    <2>13. ASSUME NEW id, FromNow(id)', NEW k \in DOMAIN nodes'[id].sections
           PROVE  /\ Scope(id, k)' \in Nat /\ Scope(id, k)' <= nextScope'
                  /\ Scope(id, k)' # 0 => Scope(id, k)' \in styles'
      BY <1>4, <2>10, <2>11, <2>13
    <2>14. ASSUME NEW id, FromNow(id)', NEW k \in DOMAIN nodes'[id].sections,
                  NEW other, FromNow(other)',
                  NEW m \in DOMAIN nodes'[other].sections,
                  Scope(id, k)' # 0, Scope(id, k)' = Scope(other, m)'
           PROVE  id = other /\ k = m
      <3>1. CASE New(id, k) /\ Scope(id, k)' = scope
        BY <1>4, <2>10, <2>11, <2>14, <3>1
      <3>2. CASE /\ FromNow(id) /\ k \in DOMAIN nodes[id].sections
                 /\ Scope(id, k)' = Scope(id, k)
        <4>1. CASE New(other, m) /\ Scope(other, m)' = scope
          <5>1. Scope(id, k) \in Nat /\ Scope(id, k) <= nextScope
            BY <2>11, <3>2
          <5>2. Scope(id, k) = scope /\ Scope(id, k) # 0
            BY <2>14, <3>2, <4>1
          <5>3. scope > nextScope /\ scope \in Nat /\ nextScope \in Nat
            BY <1>4, <5>2
          <5>. QED BY <5>1, <5>2, <5>3
        <4>2. CASE /\ FromNow(other) /\ m \in DOMAIN nodes[other].sections
                   /\ Scope(other, m)' = Scope(other, m)
          BY <2>12, <2>14, <3>2, <4>2
        <4>. QED BY <2>10, <2>14, <4>1, <4>2
      <3>. QED BY <2>10, <2>14, <3>1, <3>2
    <2>15. ScopedInv'
      BY <1>4, <2>13, <2>14 DEF ScopedInv
    <2>. QED BY <2>8, <2>15 DEF ScopeInv
  <1>. QED BY <1>5, <1>6

\* The reader's lookup: nothing made so far is of the new token.
LEMMA ReplacedScopes ==
    LoopInv /\ ScopeInv /\ ReplaceRender /\ KeepsTokens => ScopeInv'
  <1>1. SUFFICES ASSUME LoopInv, ScopeInv, ReplaceRender, KeepsTokens
                 PROVE  ScopeInv'
    OBVIOUS
  <1>2. /\ token' = token + 1 /\ nodes' = nodes /\ nextScope' = 0
        /\ renders' = renders \/ RenderPopup
    BY <1>1 DEF ReplaceRender, ResetStyles, loops
  <1>3. token \in Nat
    BY <1>1 DEF ScopeInv, MadeInv
  <1>4. \A r \in DOMAIN renders' :
           r \in DOMAIN renders \/ renders'[r].token = token'
    BY <1>1, <1>2, PopupStarts DEF LoopInv
  <1>5. MadeInv'
    BY <1>1, <1>2, <1>3, <1>4, MadeStays DEF ScopeInv, MadeInv
  <1>6. \A id : ~FromNow(id)'
    BY <1>1, <1>2 DEF FromNow, KeepsTokens, ScopeInv, MadeInv
  <1>. QED BY <1>2, <1>5, <1>6 DEF ScopeInv, ScopedInv

LEMMA ScopeStep ==
    LoopInv /\ PageInv /\ ScopeInv /\ [Next]_vars /\ KeepsTokens => ScopeInv'
  <1>1. SUFFICES ASSUME LoopInv, PageInv, ScopeInv, [Next]_vars, KeepsTokens
                 PROVE  ScopeInv'
    OBVIOUS
  <1>2. CASE ReplaceRender
    BY <1>1, <1>2, ReplacedScopes
  <1>3. CASE AddSection
    BY <1>1, <1>3, SectionScoped
  <1>4. CASE ~ReplaceRender /\ ~AddSection
    <2>1. UNCHANGED << token, styles, nextScope >> /\ token \in Nat
      BY <1>1, <1>4
         DEF Next, RenderStep, LookUp, FollowLink, FindForReader, FindForLink,
             AnswerEntries, Redirect, NavigateBack, NavigateForward,
             RenderReturns, FetchEntries, ReceiveEntries, ShowKanji, ShowTerm,
             AddNode, SectionsDone, Frame, Resume, Elsewhere, document, vars,
             ScopeInv, MadeInv
    <2>2. \A r \in DOMAIN renders' :
             r \in DOMAIN renders \/ renders'[r].token = token'
      <3>1. CASE Redirect
        BY <1>1, <3>1, PopupStarts DEF Redirect, LoopInv
      <3>2. CASE ~Redirect
        BY <1>1, <1>4, <3>2
           DEF Next, RenderStep, LookUp, FollowLink, FindForReader,
               FindForLink, AnswerEntries, NavigateBack, NavigateForward,
               RenderReturns, FetchEntries, ReceiveEntries, ShowKanji,
               ShowTerm, EntryDone, AwaitsFrame, Goes, GoesToNextEntry, Leaves,
               SectionsDone, Frame, Resume, loops, vars
      <3>. QED BY <3>1, <3>2
    <2>3. /\ \A id \in DOMAIN nodes' :
                \/ nodes'[id].sections = << >>
                \/ id \in DOMAIN nodes /\ nodes'[id] = nodes[id]
          /\ \A id \in DOMAIN nodes' :
                /\ IsSeq(nodes'[id].sections)
                /\ nodes'[id].render \in DOMAIN renders
      <3>1. CASE ShowKanji \/ ShowTerm
        <4>1. running \in DOMAIN renders /\ nodes' = Append(nodes, Shown(running))
          BY <1>1, <3>1 DEF ShowKanji, ShowTerm, AddNode, LoopInv
        <4>2. Shown(running).sections = << >> /\ Shown(running).render = running
          BY DEF Shown
        <4>3. /\ nodes'[Len(nodes) + 1] = Shown(running)
              /\ \A id \in 1 .. Len(nodes) : nodes'[id] = nodes[id]
              /\ DOMAIN nodes = 1 .. Len(nodes) /\ Len(nodes) \in Nat
              /\ DOMAIN nodes' = 1 .. Len(nodes) + 1
          BY <1>1, <4>1, AppendFacts, SeqFacts DEF PageInv
        <4>4. \A id \in DOMAIN nodes' : id \in DOMAIN nodes \/ id = Len(nodes) + 1
          BY <4>3
        <4>5. IsSeq(<< >>)
          BY DEF IsSeq
        <4>. QED BY <1>1, <4>1, <4>2, <4>3, <4>4, <4>5 DEF ScopeInv, MadeInv
      <3>2. CASE ~ShowKanji /\ ~ShowTerm
        <4>1. nodes' = nodes
          BY <1>1, <1>4, <3>2
             DEF Next, RenderStep, LookUp, FollowLink, FindForReader,
                 FindForLink, AnswerEntries, Redirect, NavigateBack,
                 NavigateForward, RenderReturns, FetchEntries, ReceiveEntries,
                 SectionsDone, Frame, Resume, document, vars
        <4>. QED BY <1>1, <4>1 DEF ScopeInv, MadeInv
      <3>. QED BY <3>1, <3>2
    <2>4. MadeInv'
      BY <1>1, <2>1, <2>2, <2>3, MadeStays DEF ScopeInv
    <2>5. ScopedInv'
      BY <1>1, <2>1, <2>3, ScopesStay DEF ScopeInv
    <2>. QED BY <2>4, <2>5 DEF ScopeInv
  <1>. QED BY <1>2, <1>3, <1>4

LEMMA InitScopes == Init => ScopeInv
  BY DEF Init, ScopeInv, MadeInv, ScopedInv, FromNow

\* The style of a dictionary applies to its own sections and to no others
\* (installScopedDictionaryStyle numbers them, resetHoshiDictionaryStyles
\* starts again): also those of pages back and forward lead to, and of renders
\* whose frames come in between.
THEOREM ScopesStayApart == Spec => []ScopesApart
  <1>1. Init => LoopInv /\ PageInv /\ ScopeInv
    BY InitFresh, InitScopes
  <1>2. LoopInv /\ PageInv /\ ScopeInv /\ [Next]_vars
            => (LoopInv /\ PageInv /\ ScopeInv)'
    BY LoopStep, PageStep, ScopeStep
  <1>3. PageInv /\ ScopeInv => ScopesApart
    BY ScopeInvShows
  <1>. QED BY <1>1, <1>2, <1>3, PTL DEF Spec

=============================================================================
