SPECIFICATION LiveSpec
CONSTANTS
  d1 = d1
  d2 = d2
  d3 = d3
  d4 = d4
  Downloads <- MCDownloads
  SourceOf <- MCSourceOf
  Settings <- MCSettings
  Orders <- MCOrders
  MaxRequests = 6
INVARIANTS
  NoIdleSlot
PROPERTIES
  GrantsBelowLimit
  ImplementsSlots
  WaiterStarts
