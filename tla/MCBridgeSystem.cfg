SPECIFICATION FairSystem
CONSTANTS
  Packets <- MCPackets
  UserWords <- MCLetter
  KbCapacity = 1
  Batch = 1
  PollBudget = 1
  WaitLimit = 2
  SeqMod = 12
  InitialMasks <- MCInitialMasks
  TxOutcomes <- MCFaultyTx
  OneOutstanding = FALSE
  AutomaticText <- MCNoText
  MaxPayload = 3
  UserInputs <- TextThenKey
  MaxPresses = 3
  MaxFaults = 1
PROPERTIES
  TsrAsAssumed
  DeliversAtMostOnce
  MatchingAckIsHonest
  ReadyMeansOpen
  ForgottenSessionEnds
  OpenReachesBridge
