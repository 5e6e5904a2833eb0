SPECIFICATION Spec
CONSTANTS
  Missing = Missing
  Gap = Gap
  Absent = Absent
  Server = Server
  Devices = {device1, device2}
  MaxEdits = 3
  MaxNoise = 1
  MaxFailures = 0
  MaxConflictRetries = 2
  Removable = TRUE
  EditPhases <- MCCoveredPhases
SYMMETRY Symmetry
PROPERTIES
  NoUndo
  NoResurrection
  NoBlindOverwrite
