SPECIFICATION BundleSpec
CONSTANTS
  Tables <- MCTables
  MaxLength = 8
  Descriptors <- MCDescriptors
  ScanLength = 7
  MaxCandidates = 64
  MaxVariants = 128
  MaxLookups = 2
  MaxDerivation = 4
  WordCharacters <- MCWordCharacters
  Blanks = {" "}
  HangulTexts <- MCHangulTexts
INVARIANTS
  FlagsTellConditionsApart
  AcceptsExactly
  
  
  LongestSourceWins
  TraceReplays
  NoLetterLost
  SyllablesComeBack
 
\* Lookups and derivations end, and nothing is left to do.
CHECK_DEADLOCK FALSE
