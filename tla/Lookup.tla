------------------------------- MODULE Lookup -------------------------------
(***************************************************************************)
(* Looking a scanned text up in a language other than Japanese:            *)
(* candidates() of src/assets/yomitan_language_bundle.js.  The text is cut *)
(* into raw sources, the longest first; every variant of a raw source that *)
(* the text processors of the language make is deinflected; and every      *)
(* variant of what comes of it is a candidate for the dictionaries.        *)
(*                                                                         *)
(* A text is a sequence of characters.  A step is one turn of the loop of  *)
(* candidates() or of transform(), so that what outlives a turn is state:  *)
(* the results and, across lookups, the lastIndex of the regular           *)
(* expressions with the flag "g".                                          *)
(***************************************************************************)
EXTENDS Integers, FiniteSets, TextProcessors

CONSTANTS
    Descriptors,    \* language -> its text processors and rules, in order,
                    \* and the texts looked up (bound)
    ScanLength,
    MaxCandidates,
    MaxVariants,    \* of getVariants
    MaxLookups,     \* bound: the lookups of a behaviour
    MaxDerivation,  \* bound: the rules that lead to a form, in Forms
    WordCharacters, \* letters, numbers, marks and apostrophes
    Blanks

ASSUME LookupAssumption ==
    /\ ScanLength \in Nat /\ MaxVariants \in Nat \ {0} /\ MaxLookups \in Nat

\* The rules: an expression that is not anchored has the flag "g", and none of
\* these matches the empty text.
TextRules ==
    [transform : STRING, kind : {"suffix", "prefix", "orthography", "pronominal"},
     from : Seq(STRING), to : Seq(STRING),
     conditionsIn : SUBSET STRING, conditionsOut : SUBSET STRING,
     global : BOOLEAN, shared : BOOLEAN]

ASSUME DescriptorsAssumption ==
    \A language \in DOMAIN Descriptors :
        LET entry == Descriptors[language] IN
        /\ entry.textPreprocessors \in Seq(Processors)
        /\ entry.textPostprocessors \in Seq(Processors)
        /\ entry.scannedTexts \subseteq Seq(STRING)
        /\ entry.rules \in Seq(TextRules)
        /\ \A k \in DOMAIN entry.rules :
               /\ entry.rules[k].global <=> entry.rules[k].kind \notin {"suffix", "prefix"}
               /\ entry.rules[k].global => entry.rules[k].from # << >>

VARIABLES
    descriptor,     \* of the language
    step,           \* "idle", "sources", "transform" or "answered"
    lookups,
    scannedText,
    sources,        \* the raw sources left
    rawSource,
    sourcePriority,
    variants,       \* preprocessed: the variants of rawSource left
    forms,          \* results of transform(), in order
    next,           \* the one its loop comes to
    lastIndex,      \* rule -> lastIndex of its regular expression
    results,        \* the candidates, in the order of their Map
    answer

lookupVars == << descriptor, step, lookups, scannedText, sources, rawSource,
                 sourcePriority, variants, forms, next, lastIndex, results,
                 answer >>

Rules == descriptor.rules
PreProcessors == descriptor.textPreprocessors
PostProcessors == descriptor.textPostprocessors

-----------------------------------------------------------------------------
(* rawSources *)

TrimEnd(chars) ==
    LET kept == {n \in 0 .. Len(chars) :
                    \A k \in n + 1 .. Len(chars) : chars[k] \in Blanks}
    IN  SubSeq(chars, 1, CHOOSE n \in kept : \A m \in kept : n <= m)

Scanned(chars) ==
    SubSeq(chars, 1, IF Len(chars) < ScanLength THEN Len(chars) ELSE ScanLength)

AddSource(scanned, found, length) ==
    LET source == TrimEnd(SubSeq(scanned, 1, length))
        atBoundary ==
            length = Len(scanned) \/ scanned[length + 1] \notin WordCharacters
    IN  IF atBoundary /\ source # << >> /\ ~Contains(found, source)
        THEN Append(found, source) ELSE found

RawSources(chars) ==
    LET scanned == Scanned(chars) IN
    FoldLeft(LAMBDA found, length : AddSource(scanned, found, length),
             << >>, [n \in DOMAIN scanned |-> Len(scanned) + 1 - n])

-----------------------------------------------------------------------------
(* getVariants: a variant and the chains of processors that lead to it *)

Variant(chars, chains) == [text |-> chars, chains |-> chains]

Limited(seq) == SubSeq(seq, 1, IF Len(seq) < MaxVariants
                               THEN Len(seq) ELSE MaxVariants)

\* next.set(processed, ...)
SetVariant(found, chars, chains) ==
    IF \E k \in DOMAIN found : found[k].text = chars
    THEN [k \in DOMAIN found |->
             IF found[k].text = chars
             THEN Variant(chars, Limited(found[k].chains \o chains))
             ELSE found[k]]
    ELSE Append(found, Variant(chars, Limited(chains)))

\* Mutant of Processed: the chains are those of the text before.
ProcessedUntraced(processor, variant) ==
    LET values == Limited(Process(processor, variant.text)) IN
    [k \in DOMAIN values |-> Variant(values[k], variant.chains)]

\* A processor that leaves the text alone is not in its chains.
Processed(processor, variant) ==
    LET values == Limited(Process(processor, variant.text)) IN
    [k \in DOMAIN values |->
        Variant(values[k],
                IF values[k] = variant.text THEN variant.chains
                ELSE [c \in DOMAIN variant.chains |->
                         Append(variant.chains[c], processor)])]

AddVariant(found, variant) ==
    IF Len(found) >= MaxVariants THEN found
    ELSE SetVariant(found, variant.text, variant.chains)

ProcessAll(found, processor) ==
    FoldLeft(AddVariant, << >>,
             FlattenSeq([k \in DOMAIN found |-> Processed(processor, found[k])]))

GetVariants(chars, processors) ==
    FoldLeft(ProcessAll, << Variant(chars, << << >> >>) >>, processors)

-----------------------------------------------------------------------------
(* The rules of the tables the lookups need.  "global": isInflected has the *)
(* flag "g", "shared": deinflect replaces with isInflected itself.          *)

TextRule(transform, kind, from, to, in, out) ==
    [transform |-> transform, kind |-> kind, from |-> from, to |-> to,
     conditionsIn |-> in, conditionsOut |-> out,
     global |-> kind \in {"orthography", "pronominal"},
     shared |-> kind = "orthography"]

SuffixInflection(transform, from, to, in, out) ==
    TextRule(transform, "suffix", from, to, in, out)

PrefixInflection(transform, from, to, in, out) ==
    TextRule(transform, "prefix", from, to, in, out)

\* Mutant of TryAlternateOrthography: deinflect has an expression of its own.
TryWithOwnExpression(transform, from, to) ==
    [TextRule(transform, "orthography", from, to, {}, {}) EXCEPT !.shared = FALSE]

TryAlternateOrthography(transform, from, to) ==
    TextRule(transform, "orthography", from, to, {}, {})

\* "me despertar" -> "despertarse", with one letter for the infinitive.
Pronominal ==
    TextRule("pronominal", "pronominal", << "me", " ", "I" >>, << "I", "se" >>,
         {"v"}, {"v"})

\* Where the first match after an index ends; 0: there is none.
MatchEnd(rule, chars, index) ==
    LET found ==
            CASE rule.kind = "suffix" ->
                     IF IsSuffix(rule.from, chars)
                     THEN {Len(chars) - Len(rule.from) + 1} ELSE {}
              [] rule.kind = "prefix" ->
                     IF IsPrefix(rule.from, chars) THEN {1} ELSE {}
              [] rule.global ->
                     {k \in index + 1 .. Len(chars) :
                         OccursAt(rule.from, chars, k)}
    IN  IF found = {} THEN 0
        ELSE (CHOOSE k \in found : \A j \in found : k <= j)
             + Len(rule.from) - 1

Deinflect(rule, chars) ==
    CASE rule.kind = "suffix" ->
             SubSeq(chars, 1, Len(chars) - Len(rule.from)) \o rule.to
      [] rule.kind = "prefix" ->
             rule.to \o SubSeq(chars, Len(rule.from) + 1, Len(chars))
      [] rule.global -> Replaced(rule.from, rule.to, chars)

MayFollow(current, in) == current = {} \/ current \cap in # {}

(* transform *)

Form(chars, conditions, trace) ==
    [text |-> chars, conditions |-> conditions, trace |-> trace]

\* The heuristic of a transform is its own regular expression: it is global
\* for no transform.
Heuristic(transform, chars) ==
    \E k \in DOMAIN Rules :
        Rules[k].transform = transform /\ MatchEnd(Rules[k], chars, 0) # 0

\* isInflected.test(text): a global one goes on where its last match ended.
TestEnd(k, chars, from) ==
    MatchEnd(Rules[k], chars, IF Rules[k].global THEN from[k] ELSE 0)

IsCycle(form, k) ==
    \E n \in DOMAIN form.trace :
        form.trace[n].rule = k /\ form.trace[n].text = form.text

\* Replacing with the expression of the test sets its lastIndex back to 0.
ApplyNth(form, made, k) ==
    LET rule == Rules[k]
        end == TestEnd(k, form.text, made.lastIndex)
        applies == end # 0 /\ ~IsCycle(form, k)
    IN  IF ~Heuristic(rule.transform, form.text)
           \/ ~MayFollow(form.conditions, rule.conditionsIn)
        THEN made
        ELSE [lastIndex |->
                  [made.lastIndex EXCEPT ![k] =
                      IF ~rule.global \/ (applies /\ rule.shared) THEN 0
                      ELSE end],
              forms |->
                  IF applies
                  THEN Append(made.forms,
                           Form(Deinflect(rule, form.text),
                                rule.conditionsOut,
                                << [rule |-> k, text |-> form.text] >>
                                    \o form.trace))
                  ELSE made.forms]

ApplyAll(form) ==
    FoldLeft(LAMBDA made, k : ApplyNth(form, made, k),
             [forms |-> forms, lastIndex |-> lastIndex],
             [k \in DOMAIN Rules |-> k])

-----------------------------------------------------------------------------
(* candidates *)

Candidate(surface, lemma, processors, trace, priority) ==
    [surface |-> surface, lemma |-> lemma, processors |-> processors,
     trace |-> trace, priority |-> priority]

\* Mutant of AddCandidate: the last candidate of a lemma is kept.
AddLatest(found, candidate) ==
    LET same == {k \in DOMAIN found : found[k].lemma = candidate.lemma} IN
    IF candidate.lemma \in {<< >>, candidate.surface} THEN found
    ELSE IF same = {} THEN Append(found, candidate)
    ELSE [k \in DOMAIN found |-> IF k \in same THEN candidate ELSE found[k]]

AddCandidate(found, candidate) ==
    LET same == {k \in DOMAIN found : found[k].lemma = candidate.lemma} IN
    IF candidate.lemma \in {<< >>, candidate.surface} THEN found
    ELSE IF same = {} THEN Append(found, candidate)
    ELSE [k \in DOMAIN found |->
             IF k \in same /\ candidate.priority < found[k].priority
             THEN candidate ELSE found[k]]

Shorter(source, lemma) ==
    IF Len(source) > Len(lemma) THEN Len(source) - Len(lemma) ELSE 0

\* What one form yields: every variant of it, by every chain.
FormCandidates(form) ==
    LET source == Head(variants)
        post == GetVariants(form.text, PostProcessors)
        Of(variant, before, after) ==
            Candidate(rawSource, variant.text, before \o after, form.trace,
                      sourcePriority * 100
                      + (Len(before \o after) + Len(form.trace)) * 5
                      + Shorter(source.text, variant.text))
    IN  FlattenSeq([v \in DOMAIN post |->
            FlattenSeq([b \in DOMAIN source.chains |->
                [a \in DOMAIN post[v].chains |->
                    Of(post[v], source.chains[b], post[v].chains[a])]])])

\* The candidates by priority, among equals the longer lemma first.
Sorted(found) ==
    LET Before(j, k) ==
            \/ found[j].priority < found[k].priority
            \/ /\ found[j].priority = found[k].priority
               /\ \/ Len(found[j].lemma) > Len(found[k].lemma)
                  \/ Len(found[j].lemma) = Len(found[k].lemma) /\ j < k
        At(n) == CHOOSE k \in DOMAIN found :
                     Cardinality({j \in DOMAIN found : Before(j, k)}) = n - 1
    IN  [n \in DOMAIN found |-> found[At(n)]]

LookupInit ==
    /\ \E language \in DOMAIN Descriptors :
           descriptor = Descriptors[language]
    /\ step = "idle" /\ lookups = 0 /\ scannedText = << >>
    /\ sources = << >> /\ rawSource = << >> /\ sourcePriority = -1
    /\ variants = << >> /\ forms = << >> /\ next = 1
    /\ lastIndex = [k \in DOMAIN Rules |-> 0]
    /\ results = << >> /\ answer = << >>

BeginLookup ==
    /\ step \in {"idle", "answered"}
    /\ lookups < MaxLookups
    /\ lookups' = lookups + 1
    /\ scannedText' \in descriptor.scannedTexts
    /\ sources' = RawSources(scannedText')
    /\ step' = "sources"
    /\ sourcePriority' = -1
    /\ results' = << >>
    /\ answer' = << >>
    /\ UNCHANGED << descriptor, rawSource, variants, forms, next, lastIndex >>

NextSource ==
    /\ step = "sources" /\ sources # << >>
    /\ rawSource' = Head(sources)
    /\ sources' = Tail(sources)
    /\ sourcePriority' = sourcePriority + 1
    /\ variants' = GetVariants(rawSource', PreProcessors)
    /\ forms' = << Form(variants'[1].text, {}, << >>) >>
    /\ next' = 1
    /\ step' = "transform"
    /\ UNCHANGED << descriptor, lookups, scannedText, lastIndex, results, answer >>

TransformNext ==
    /\ step = "transform" /\ next <= Len(forms)
    /\ LET made == ApplyAll(forms[next]) IN
           forms' = made.forms /\ lastIndex' = made.lastIndex
    /\ next' = next + 1
    /\ UNCHANGED << descriptor, step, lookups, scannedText, sources, rawSource,
                    sourcePriority, variants, results, answer >>

\* The candidates of the forms of a variant; the next variant is transformed.
Collect ==
    /\ step = "transform" /\ next > Len(forms)
    /\ results' = FoldLeft(AddCandidate, results,
                      FlattenSeq([k \in DOMAIN forms |->
                                     FormCandidates(forms[k])]))
    /\ variants' = Tail(variants)
    /\ next' = 1
    /\ IF variants' = << >>
       THEN step' = "sources" /\ forms' = << >>
       ELSE step' = "transform"
            /\ forms' = << Form(variants'[1].text, {}, << >>) >>
    /\ UNCHANGED << descriptor, lookups, scannedText, sources, rawSource,
                    sourcePriority, lastIndex, answer >>

Answer ==
    /\ step = "sources" /\ sources = << >>
    /\ LET sorted == Sorted(results) IN
           answer' = SubSeq(sorted, 1, IF Len(sorted) < MaxCandidates
                                       THEN Len(sorted) ELSE MaxCandidates)
    /\ step' = "answered"
    /\ UNCHANGED << descriptor, lookups, scannedText, sources, rawSource,
                    sourcePriority, variants, forms, next, lastIndex, results >>

LookupNext == BeginLookup \/ NextSource \/ TransformNext \/ Collect \/ Answer

LookupSpec == LookupInit /\ [][LookupNext]_lookupVars

-----------------------------------------------------------------------------
(* What a lookup should find, with no state between the tests: the forms    *)
(* the rules lead to, and the lemmas of a raw source.                       *)

RangeOf(seq) == {seq[k] : k \in DOMAIN seq}

Forms(chars) ==
    LET after[n \in 0 .. MaxDerivation] ==
            IF n = 0 THEN { << chars, {} >> }
            ELSE after[n - 1] \cup
                 { << Deinflect(fr[2], fr[1][1]), fr[2].conditionsOut >> :
                     fr \in { p \in after[n - 1] \X RangeOf(Rules) :
                         /\ MayFollow(p[1][2], p[2].conditionsIn)
                         /\ MatchEnd(p[2], p[1][1], 0) # 0 } }
    IN  { form[1] : form \in after[MaxDerivation] }

Texts(found) == {found[k].text : k \in DOMAIN found}

Lemmas(source) ==
    (UNION { UNION { Texts(GetVariants(chars, PostProcessors)) :
                       chars \in Forms(variant) } :
               variant \in Texts(GetVariants(source, PreProcessors)) })
    \ { << >>, source }

\* A lookup finds every form of every raw source, whatever was tested before.
FindsEveryForm ==
    step = "answered" =>
        { results[k].lemma : k \in DOMAIN results }
        = UNION { Lemmas(source) : source \in RangeOf(RawSources(scannedText)) }

\* A candidate is that of the longest raw source it can come from, and the
\* candidates of longer raw sources come first.
LongestSourceWins ==
    step = "answered" =>
        /\ \A k \in DOMAIN answer :
               \A source \in RangeOf(RawSources(scannedText)) :
                   Len(source) > Len(answer[k].surface)
                       => answer[k].lemma \notin Lemmas(source)
        /\ \A j, k \in DOMAIN answer :
               j < k => Len(answer[j].surface) >= Len(answer[k].surface)

\* What a processor, or a rule that is said to have applied to a text, makes of
\* any of some texts.
ReplayProcessor(texts, processor) ==
    UNION { RangeOf(Process(processor, chars)) : chars \in texts }

ReplayRule(texts, frame) ==
    IF frame.text \in texts /\ MatchEnd(Rules[frame.rule], frame.text, 0) # 0
    THEN {Deinflect(Rules[frame.rule], frame.text)} ELSE {}

\* What the popup says led to a candidate does lead from the scanned text to
\* it: its text preprocessors, the rules of its trace and its postprocessors, one
\* after the other.
TraceReplays ==
    \A k \in DOMAIN results :
        LET candidate == results[k]
            processors == candidate.processors
            Leads(before, after) ==
                /\ RangeOf(before) \subseteq RangeOf(PreProcessors)
                /\ RangeOf(after) \subseteq RangeOf(PostProcessors)
                /\ candidate.lemma \in
                       FoldLeft(ReplayProcessor,
                           FoldLeft(ReplayRule,
                               FoldLeft(ReplayProcessor, {candidate.surface}, before),
                               Reverse(candidate.trace)),
                           after)
        IN  \E n \in 0 .. Len(processors) :
                Leads(SubSeq(processors, 1, n),
                      SubSeq(processors, n + 1, Len(processors)))

=============================================================================
