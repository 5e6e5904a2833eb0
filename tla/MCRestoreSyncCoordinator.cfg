SPECIFICATION CallsSpec
CHECK_DEADLOCK FALSE
CONSTANTS
  MaxCalls = 3
  Settings <- MCSettings
  Enabled <- MCEnabled
  Automatic <- MCAutomatic
INVARIANTS
  InOrder
PROPERTIES
  
  CallsEnd
