-------------------------- MODULE YomitanLanguages --------------------------
(***************************************************************************)
(* The language bundle as a whole: getTransformer registers the table of a *)
(* language with its LanguageTransformer, and texts are looked up after    *)
(* that.  A behaviour either follows the deinflection of a text known by   *)
(* its length and end (LanguageTransformer, for every table), or looks up  *)
(* texts letter by letter (Lookup, for the languages that have a           *)
(* descriptor), or puts a Korean text together again (Hangul).             *)
(***************************************************************************)
EXTENDS LanguageTransformer, Lookup, Hangul

allVars == << vars, lookupVars, hangulVars >>

\* The languages looked up letter by letter; the others have any descriptor.
Spelled == language \in DOMAIN Descriptors

BundleInit ==
    /\ Init
    /\ LookupInit
    /\ HangulInit
    /\ descriptor = Descriptors[IF Spelled THEN language
                                ELSE CHOOSE l \in DOMAIN Descriptors : TRUE]

Unused == lookups = 0 /\ hangul = << >>

BundleNext ==
    \/ Unused /\ Next /\ UNCHANGED << lookupVars, hangulVars >>
    \/ /\ phase = "ready" /\ Spelled /\ hangul = << >>
       /\ LookupNext
       /\ UNCHANGED << vars, hangulVars >>
    \/ /\ phase = "ready" /\ language = "ko" /\ lookups = 0
       /\ HangulNext
       /\ UNCHANGED << vars, lookupVars >>

\* The code runs to completion once it is called.
BundleSpec == BundleInit /\ [][BundleNext]_allVars /\ WF_vars(Unused /\ Next)

=============================================================================
