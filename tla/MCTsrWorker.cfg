SPECIFICATION FairSpec
CONSTANTS
  Packets <- MCPackets
  UserWords <- MCUserWords
  KbCapacity = 2
  Batch = 2
  PollBudget = 2
  WaitLimit = 3
  SeqMod = 3
  InitialMasks <- MCInitialMasks
  TxOutcomes <- MCTxOutcomes
  OneOutstanding = TRUE
INVARIANTS
  TypeOK
  SessionFlags
  PortOwnership
  StagedInSession
  InjectedInOrder
PROPERTIES
  AckComplete
  AckInSession
  OpenAfterAnswer
  StagedEnds
  HandshakeEnds
  SilentSessionEnds
