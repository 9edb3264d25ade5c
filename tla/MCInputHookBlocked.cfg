SPECIFICATION FairHook
CONSTANTS
  Packets <- MCPackets
  UserWords <- MCUserWords
  KbCapacity = 2
  Batch = 2
  PollBudget = 1
  WaitLimit = 2
  SeqMod = 2
  InitialMasks <- MCInitialMasks
  TxOutcomes <- MCTxOutcomes
  OneOutstanding = TRUE
  AppCalls <- MCBlockingCalls
PROPERTY
  OnOpensLink
