SPECIFICATION PopupSpec
CONSTANTS
  ReaderLookups = {"word"}
  LinkLookups = {"word", "kanji"}
  Results <- MCResults
  StyledDictionaries = {"A"}
  MaxFetch = 4
  MaxAsks = 3
  MaxSteps = 2
  Contents <- MCContents
  AudioSources <- MCAudioSources
  MaxPages = 2
  MaxReturns = 1
  MaxPresses = 2
  Headwords <- MCHeadwords
  Kanji = {"K"}
  Katakana <- MCKatakana
  Paragraphs <- MCParagraphs
  ScanDelimiters = {".", "(", ")", " "}
  SentenceDelimiters = {".", "!"}
  TrailingSentenceChars = {".", "!", ")"}
  SpaceChars = {" "}
  Brackets <- MCBrackets
  ScanMax = 3
  MaxTaps = 2
INVARIANTS
  ReplacedIsGone
  ScopesApart
  FuriganaSpellsBoth
  SentenceHoldsWord
  HighlightBeginsSelection
PROPERTIES
  ImplementsHistory
  RendersEnd
  
  
\* The popup rests when nothing is asked of it.
CHECK_DEADLOCK FALSE
