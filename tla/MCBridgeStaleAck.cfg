SPECIFICATION SystemSpec
CONSTANTS
  Packets <- MCPackets
  UserWords <- MCNoLetter
  KbCapacity = 1
  Batch = 1
  PollBudget = 1
  WaitLimit = 3
  SeqMod = 12
  InitialMasks <- MCInitialMasks
  TxOutcomes <- MCNoFaultyTx
  OneOutstanding = FALSE
  AutomaticText <- MCNoText
  MaxPayload = 3
  UserInputs <- TextThenKey
  MaxPresses = 3
  MaxFaults = 0
PROPERTY
  AckIsHonest
