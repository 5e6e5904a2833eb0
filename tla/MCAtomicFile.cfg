SPECIFICATION FileSpec
CONSTANTS
  a = a
  b = b
  c = c
  Absent = Absent
  Values <- MCValues
  Windows = TRUE
PROPERTIES
  ImplementsDurableValue
