SPECIFICATION FairSpec
CONSTANTS
  MaxFrames = 5
  MaxEvents = 2
  HighWater = 1
  MaxConnections = 4
INVARIANTS
  EveryFrameOnce
  ReaderPacesTheProducer
PROPERTIES
  NoReaderNoStream
  ReadersAreServed
CHECK_DEADLOCK FALSE
