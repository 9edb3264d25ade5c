SPECIFICATION Spec
CONSTANTS
  AutomaticText <- MCNoText
  MaxPayload = 3
  MaxFaults = 1
  KbCapacity = 2
  HelloAttempts = 2
  Texts <- MCTexts
  UserWord = 120
  MaxRuns = 2
  MaxPresses = 2
INVARIANTS
  ClientTypeOK
  ReportsTrue
  SessionGivenBack
  CapacityRespected
PROPERTY
  ClientEnds
