SPECIFICATION Spec
CHECK_DEADLOCK FALSE
CONSTANTS
  manga1 = manga1
  manga2 = manga2
  novel = novel
  src1 = src1
  src2 = src2
  Chapters <- Three
  Novels <- MCNovels
  SourceOf <- MCSourceOf
  Limit = 2
  SlowWrites = FALSE
  MaxRequests = 4
INVARIANTS
  SlotsMatchAttempts
  NoForgottenDownload
PROPERTIES
  CancelledStaysGone
  AttemptsEnd
