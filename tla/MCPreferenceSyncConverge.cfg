SPECIFICATION FairSpec
CONSTANTS
  Missing = Missing
  Gap = Gap
  Absent = Absent
  Server = Server
  Devices = {device1, device2}
  MaxEdits = 2
  MaxNoise = 0
  MaxFailures = 1
  MaxConflictRetries = 1
  Removable = FALSE
  EditPhases <- MCCoveredPhases
PROPERTIES
  Converges
  GapsKeepRemote
  EditsArePublished
