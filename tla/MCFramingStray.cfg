SPECIFICATION FramingSpec
CONSTANTS
  Streams <- MCStreams
  Inputs <- MCInputs
  HeaderSize = 6
  MaxPayload = 10
  Crc <- Checksum
  RingSize = 2
  ByteBudget = 2
  MaxWaiting = 1
INVARIANT
  ReadersResynchronize
