--------------------------- MODULE DictionaryPopup ---------------------------
(***************************************************************************)
(* The dictionary popup of src/assets/hoshi_popup/popup.js: the entries of *)
(* a lookup are rendered one frame after the other into the page, links in *)
(* them lead to further lookups, and the user goes back and forward.       *)
(*                                                                         *)
(* The script is single-threaded.  "running" is the render loop whose code *)
(* is on the stack: from there to the next await nothing else of the       *)
(* script runs.  The other side is Flutter (hoshi_dictionary_popup.dart):  *)
(* it looks words up, and what it sends the page arrives in order.         *)
(*                                                                         *)
(* A page is the array window.lookupEntries with window.entryCount; "id"   *)
(* is the identity of the array.                                           *)
(***************************************************************************)
EXTENDS Integers, Sequences, FiniteSets

CONSTANTS
    ReaderLookups,  \* what the reader looks up,
    LinkLookups,    \* and what links in the popup do
    Results,        \* lookup -> its entries, a sequence
    StyledDictionaries,
    MaxFetch,       \* entries asked of Flutter at a time
    MaxAsks,        \* bound: lookups of the reader and of links
    MaxSteps        \* bound: back and forward

ASSUME ResultsAssumption ==
    /\ Results \in [ReaderLookups \cup LinkLookups ->
                       Seq([expression : STRING, isKanji : BOOLEAN,
                            dictionaries : Seq(STRING)])]
    /\ MaxFetch \in Nat \ {0}
    /\ MaxAsks \in Nat /\ MaxSteps \in Nat

VARIABLES
    (* Flutter *)
    held,           \* _entries: the entries getEntries answers with
    asked,          \* the lookup under way: an earlier one is superseded
                    \* (_lookupGeneration), and answers 0, which does nothing
    inbox,          \* what Flutter sent the page, in order
    (* the page *)
    token,          \* __mangayomiHoshiRenderToken
    page,           \* lookupEntries and entryCount
    nextPage,       \* the arrays made so far
    nodes,          \* the entry elements made so far
    container,      \* the ones on show, in order
    renders,        \* the render loops, in the order they were started
    running,        \* the one on the stack, 0: none
    callbacks,      \* the ones requestAnimationFrame resumes in the next frame
    frame,          \* and those left to resume in this one
    backStack,
    forwardStack,
    reported,       \* the last navigationChanged message
    styles,         \* dictionaryStyleElements, by their scope
    nextScope,      \* nextDictionaryStyleScope
    asks,           \* bound: lookups of the reader and of links so far
    steps           \* bound: moves back and forward so far

flutter == << held, asked, asks >>
history == << backStack, forwardStack, reported, steps >>
document == << nodes, container, styles, nextScope >>
loops == << renders, running, callbacks, frame >>
vars == << flutter, inbox, token, page, nextPage, document, loops, history >>

NoEntries == [k \in {} |-> {}]

Init ==
    /\ held = << >> /\ asked = {} /\ inbox = << >>
    /\ token = 0 /\ page = [id |-> 0, entries |-> NoEntries, count |-> 0]
    /\ nextPage = 1
    /\ nodes = << >> /\ container = << >>
    /\ renders = << >> /\ running = 0 /\ callbacks = << >> /\ frame = << >>
    /\ backStack = << >> /\ forwardStack = << >>
    /\ reported = [canGoBack |-> FALSE, canGoForward |-> FALSE]
    /\ styles = {} /\ nextScope = 0 /\ asks = 0 /\ steps = 0

-----------------------------------------------------------------------------
(* Flutter *)

Ask(kind, lookup) == asked' = {[kind |-> kind, lookup |-> lookup]}

\* _lookupAndRender: the reader looks a word up.
LookUp ==
    /\ asks < MaxAsks
    /\ asks' = asks + 1
    /\ \E lookup \in ReaderLookups : Ask("replace", lookup)
    /\ UNCHANGED << held, inbox, token, page, nextPage, document, loops, history >>

\* No code of the script is on the stack, nor any due in the same frame.
Idle == running = 0 /\ frame = << >>

\* A link, a kanji or a selection in the page: _lookupRedirect.
FollowLink ==
    /\ Idle /\ asks < MaxAsks
    /\ container # << >>
    /\ asks' = asks + 1
    /\ \E lookup \in LinkLookups : Ask("redirect", lookup)
    /\ UNCHANGED << held, inbox, token, page, nextPage, document, loops, history >>

\* The page gets the entries with the script that replaces what it shows; once
\* their images are loaded it gets them again.
FindForReader ==
    \E request \in asked :
        /\ request.kind \in {"replace", "media"}
        /\ held' = Results[request.lookup]
        /\ inbox' = Append(inbox, [kind |-> "replace", entries |-> held'])
        /\ asked' = IF request.kind = "replace" /\ held' # << >>
                    THEN {[request EXCEPT !.kind = "media"]} ELSE {}
        /\ UNCHANGED << asks, token, page, nextPage, document,
                        loops, history >>

\* Entries of a link are held for getEntries; the page gets their number.
FindForLink ==
    \E request \in asked :
        /\ request.kind = "redirect"
        /\ held' = Results[request.lookup]
        /\ inbox' = IF held' = << >> THEN inbox
                    ELSE Append(inbox, [kind |-> "redirect", count |-> Len(held')])
        /\ asked' = {}
        /\ UNCHANGED << asks, token, page, nextPage, document,
                        loops, history >>

\* getEntries answers from what is held at that time.
Held(start, count) ==
    SubSeq(held, start + 1,
           IF start + count < Len(held) THEN start + count ELSE Len(held))

AnswerEntries ==
    \E r \in DOMAIN renders :
        /\ renders[r].step = "asking"
        /\ inbox' = Append(inbox,
               [kind |-> "entries", render |-> r,
                entries |-> Held(renders[r].idx, renders[r].count)])
        /\ renders' = [renders EXCEPT ![r].step = "awaiting"]
        /\ UNCHANGED << flutter, token, page, nextPage, document, running, callbacks, frame,
                        history >>

-----------------------------------------------------------------------------
(* navigation *)

Snapshot == [nodes |-> container, page |-> page]

\* Mutant of Report: sent before the stacks change.
ReportEarly ==
    reported' = [canGoBack |-> backStack # << >>,
                 canGoForward |-> forwardStack # << >>]

Report ==
    reported' = [canGoBack |-> backStack' # << >>,
                 canGoForward |-> forwardStack' # << >>]

\* renderPopup, for the page on show: its code runs up to the first await.
RenderPopup ==
    /\ renders' = Append(renders,
           [token |-> token', page |-> page'.id, idx |-> 0, count |-> 0,
            step |-> "head", node |-> 0, section |-> 0])
    /\ running' = Len(renders')
    /\ UNCHANGED << callbacks, frame >>

Receives(kind) == Idle /\ inbox # << >> /\ Head(inbox).kind = kind

Redirect ==
    /\ Receives("redirect")
    /\ inbox' = Tail(inbox)
    /\ backStack' = Append(backStack, Snapshot)
    /\ forwardStack' = << >>
    /\ Report
    /\ page' = [id |-> nextPage, entries |-> NoEntries,
                count |-> Head(inbox).count]
    /\ nextPage' = nextPage + 1
    /\ container' = << >>
    /\ token' = token
    /\ RenderPopup
    /\ UNCHANGED << flutter, nodes, styles, nextScope, steps >>

Restore(snapshot) ==
    /\ container' = snapshot.nodes
    /\ page' = snapshot.page

AllButLast(stack) == SubSeq(stack, 1, Len(stack) - 1)

NavigateBack ==
    /\ Idle /\ steps < MaxSteps
    /\ backStack # << >>
    /\ forwardStack' = Append(forwardStack, Snapshot)
    /\ Restore(backStack[Len(backStack)])
    /\ backStack' = AllButLast(backStack)
    /\ Report
    /\ steps' = steps + 1
    /\ UNCHANGED << flutter, inbox, token, nextPage, nodes, styles, nextScope, loops >>

NavigateForward ==
    /\ Idle /\ steps < MaxSteps
    /\ forwardStack # << >>
    /\ backStack' = Append(backStack, Snapshot)
    /\ Restore(forwardStack[Len(forwardStack)])
    /\ forwardStack' = AllButLast(forwardStack)
    /\ Report
    /\ steps' = steps + 1
    /\ UNCHANGED << flutter, inbox, token, nextPage, nodes, styles, nextScope, loops >>

\* Mutant of ResetNavigation: the forward stack is kept.
ResetBackOnly ==
    /\ backStack' = << >>
    /\ UNCHANGED forwardStack
    /\ Report

\* hoshiReplaceRenderScriptForEntries, with resetHoshiNavigation and
\* resetHoshiDictionaryStyles.
ResetNavigation ==
    /\ backStack' = << >> /\ forwardStack' = << >>
    /\ Report

ResetStyles == styles' = {} /\ nextScope' = 0

ReplaceRender ==
    /\ Receives("replace")
    /\ inbox' = Tail(inbox)
    /\ token' = token + 1
    /\ ResetNavigation
    /\ ResetStyles
    /\ LET entries == Head(inbox).entries IN
           /\ page' = [id |-> nextPage,
                       entries |-> [k \in 0 .. Len(entries) - 1 |-> entries[k + 1]],
                       count |-> Len(entries)]
           /\ IF entries = << >> THEN UNCHANGED loops ELSE RenderPopup
    /\ nextPage' = nextPage + 1
    /\ container' = << >>
    /\ UNCHANGED << flutter, nodes, steps >>

-----------------------------------------------------------------------------
(* renderPopup's loop *)

Current(r) == renders[r].token = token

\* The loop goes on to another step, with its code still on the stack.
Goes(r, step) ==
    /\ renders' = [renders EXCEPT ![r].step = step]
    /\ running' = r
    /\ UNCHANGED callbacks

GoesToNextEntry(r) ==
    /\ renders' = [renders EXCEPT ![r].step = "head", ![r].idx = @ + 1]
    /\ running' = r
    /\ UNCHANGED callbacks

\* It awaits an answer, or returns.
Leaves(r, step) ==
    /\ renders' = [renders EXCEPT ![r].step = step]
    /\ running' = 0
    /\ UNCHANGED callbacks

\* Mutant of AwaitsFrame: one callback is kept, that of the latest loop.
AwaitsOnlyFrame(r, step) ==
    /\ renders' = [renders EXCEPT ![r].step = step]
    /\ running' = 0
    /\ callbacks' = << r >>

AwaitsFrame(r, step) ==
    /\ renders' = [renders EXCEPT ![r].step = step]
    /\ running' = 0
    /\ callbacks' = Append(callbacks, r)

\* After the element of an entry: all but the first let a frame pass.
EntryDone(r) ==
    IF renders[r].idx > 0 THEN AwaitsFrame(r, "frame") ELSE GoesToNextEntry(r)

Elsewhere == << flutter, inbox, token, nextPage, history >>

RenderReturns ==
    /\ running # 0 /\ renders[running].step = "head"
    /\ renders[running].idx >= page.count \/ ~Current(running)
    /\ Leaves(running, "returned")
    /\ UNCHANGED << Elsewhere, page, document, frame >>

HasEntry(idx) == idx \in DOMAIN page.entries

FetchEntries ==
    /\ running # 0 /\ renders[running].step = "head"
    /\ LET idx == renders[running].idx IN
           /\ idx < page.count /\ Current(running) /\ ~HasEntry(idx)
           /\ renders' = [renders EXCEPT
                  ![running].step = "asking",
                  ![running].count = IF page.count - idx < MaxFetch
                                     THEN page.count - idx ELSE MaxFetch]
           /\ running' = 0
    /\ UNCHANGED callbacks
    /\ UNCHANGED << Elsewhere, page, document, frame >>

\* Mutant of ReceiveEntries: the token is not compared after the answer.
ReceiveAnyEntries ==
    /\ Receives("entries")
    /\ inbox' = Tail(inbox)
    /\ LET r == Head(inbox).render
           idx == renders[r].idx
           entries == Head(inbox).entries
           put == idx .. idx + Len(entries) - 1
       IN  /\ page' = [page EXCEPT !.entries =
                  [k \in DOMAIN @ \cup put |->
                      IF k \in put THEN entries[k - idx + 1] ELSE @[k]]]
           /\ IF entries = << >> THEN GoesToNextEntry(r) ELSE Goes(r, "entry")
    /\ UNCHANGED << flutter, token, nextPage, document, history, frame >>

\* The entries go where lookupEntries is by now.
ReceiveEntries ==
    /\ Receives("entries")
    /\ inbox' = Tail(inbox)
    /\ LET r == Head(inbox).render
           idx == renders[r].idx
           entries == Head(inbox).entries
           put == idx .. idx + Len(entries) - 1
       IN  IF ~Current(r) THEN Leaves(r, "returned") /\ UNCHANGED page
           ELSE /\ page' = [page EXCEPT !.entries =
                       [k \in DOMAIN @ \cup put |->
                           IF k \in put THEN entries[k - idx + 1] ELSE @[k]]]
                /\ IF entries = << >> THEN GoesToNextEntry(r)
                   ELSE Goes(r, "entry")
    /\ UNCHANGED << flutter, token, nextPage, document, history, frame >>

\* The loop has the entry it is to show.
AtEntry(r) ==
    \/ renders[r].step = "entry"
    \/ /\ renders[r].step = "head"
       /\ renders[r].idx < page.count /\ Current(r) /\ HasEntry(renders[r].idx)

Shown(r) ==
    [entry |-> page.entries[renders[r].idx], idx |-> renders[r].idx,
     render |-> r, sections |-> << >>]

AddNode(r) ==
    /\ nodes' = Append(nodes, Shown(r))
    /\ container' = Append(container, Len(nodes'))
    /\ UNCHANGED << styles, nextScope >>

ShowKanji ==
    /\ running # 0 /\ AtEntry(running)
    /\ Shown(running).entry.isKanji
    /\ AddNode(running)
    /\ EntryDone(running)
    /\ UNCHANGED << Elsewhere, page, frame >>

ShowTerm ==
    /\ running # 0 /\ AtEntry(running)
    /\ ~Shown(running).entry.isKanji
    /\ AddNode(running)
    /\ renders' = [renders EXCEPT ![running].step = "sections",
                                  ![running].node = Len(nodes'),
                                  ![running].section = 1]
    /\ UNCHANGED << Elsewhere, page, running, callbacks, frame >>

\* createGlossarySection, with installScopedDictionaryStyle.  A section of the
\* first entry is shown before the next one is made.
AddSection ==
    /\ running # 0 /\ renders[running].step = "sections"
    /\ LET node == renders[running].node
           dictionaries == nodes[node].entry.dictionaries
           section == renders[running].section
           styled == dictionaries[section] \in StyledDictionaries
       IN  /\ section <= Len(dictionaries)
           /\ nextScope' = IF styled THEN nextScope + 1 ELSE nextScope
           /\ styles' = IF styled THEN styles \cup {nextScope'} ELSE styles
           /\ nodes' = [nodes EXCEPT ![node].sections =
                  Append(@, [dictionary |-> dictionaries[section],
                             scope |-> IF styled THEN nextScope' ELSE 0])]
           /\ renders' = [renders EXCEPT ![running].section = @ + 1,
                  ![running].step = IF renders[running].idx = 0
                                    THEN "section frame" ELSE @]
           /\ IF renders[running].idx = 0
              THEN running' = 0 /\ callbacks' = Append(callbacks, running)
              ELSE UNCHANGED << running, callbacks >>
    /\ UNCHANGED << Elsewhere, page, container, frame >>

SectionsDone ==
    /\ running # 0 /\ renders[running].step = "sections"
    /\ renders[running].section >
           Len(nodes[renders[running].node].entry.dictionaries)
    /\ EntryDone(running)
    /\ UNCHANGED << Elsewhere, page, document, frame >>

\* A frame resumes the loops that wait for it, one after the other.
Frame ==
    /\ Idle /\ callbacks # << >>
    /\ frame' = callbacks
    /\ callbacks' = << >>
    /\ UNCHANGED << Elsewhere, page, document, renders, running >>

Resume ==
    /\ running = 0 /\ frame # << >>
    /\ frame' = Tail(frame)
    /\ LET r == Head(frame) IN
           IF ~Current(r) THEN Leaves(r, "returned")
           ELSE IF renders[r].step = "frame" THEN GoesToNextEntry(r)
           ELSE Goes(r, "sections")
    /\ UNCHANGED << Elsewhere, page, document >>

RenderStep ==
    \/ RenderReturns \/ FetchEntries \/ ReceiveEntries
    \/ ShowKanji \/ ShowTerm \/ AddSection \/ SectionsDone \/ Frame \/ Resume

Next ==
    \/ LookUp \/ FollowLink
    \/ FindForReader \/ FindForLink \/ AnswerEntries
    \/ Redirect \/ NavigateBack \/ NavigateForward \/ ReplaceRender
    \/ RenderStep

Spec == Init /\ [][Next]_vars

\* Flutter answers, the messages arrive, and frames come.
FairRendering ==
    /\ WF_vars(FindForReader \/ FindForLink)
    /\ WF_vars(AnswerEntries)
    /\ WF_vars(Redirect \/ ReplaceRender \/ RenderStep)

FairSpec == Spec /\ FairRendering

-----------------------------------------------------------------------------

RangeOf(seq) == {seq[k] : k \in DOMAIN seq}

\* The entries on show, and those back and forward lead to.
Reachable ==
    RangeOf(container)
    \cup UNION { RangeOf(snapshot.nodes) :
                   snapshot \in RangeOf(backStack) \cup RangeOf(forwardStack) }

\* Once the reader's lookup has replaced what the popup shows, a render of
\* before adds nothing to it, and no button leads back to it.
ReplacedIsGone ==
    \A id \in Reachable : renders[nodes[id].render].token = token

ScopesOf(id) ==
    { << id, k >> : k \in { j \in DOMAIN nodes[id].sections :
                              nodes[id].sections[j].scope # 0 } }

ScopeAt(place) == nodes[place[1]].sections[place[2]].scope

\* The style of a dictionary applies to its own sections and to no others: the
\* scopes of the sections a user can come to differ, and their style is there.
ScopesApart ==
    LET scoped == UNION { ScopesOf(id) : id \in Reachable } IN
    \A place \in scoped :
        /\ ScopeAt(place) \in styles
        /\ \A other \in scoped \ {place} : ScopeAt(other) # ScopeAt(place)

\* Back and forward move along the pages visited, and are offered just when
\* there is one to go to.
VisitedPages ==
    LET back == [k \in DOMAIN backStack |-> backStack[k].page.id]
        forward == [k \in DOMAIN forwardStack |->
                       forwardStack[Len(forwardStack) + 1 - k].page.id]
    IN  back \o << page.id >> \o forward

History == INSTANCE BrowsingHistory
    WITH Page <- Nat, pages <- VisitedPages, at <- Len(backStack) + 1,
         buttons <- reported

ImplementsHistory == History!Spec

\* Every render comes to its end, whatever the user and Flutter do meanwhile.
RendersEnd ==
    []<>(\A r \in DOMAIN renders : renders[r].step = "returned")

\* A page shows the entries of the render that was started for it.
StaleRendersAppendNothing ==
    \A k \in DOMAIN container :
        renders[nodes[container[k]].render].page = page.id

=============================================================================
