SPECIFICATION FairSpec
CONSTANTS
  MDXX1 = MDXX1
  MDXX10 = MDXX10
  SCHEMA = SCHEMA
  NoName = NoName
  Names <- MCNames
  Begins <- MCBegins
  NFILES = 2
  DataBytes <- MCDataBytes
  DataAt <- MCDataAt
  SentKinds <- MCSentKinds
  NoiseUnits <- MCNoiseUnits
  MaxData = 2
  MaxPackets = 3
CHECK_DEADLOCK FALSE
INVARIANTS
  TypeOK
  FileIsText
  WholeAtTrailer
  RecordsAreThePackets
  NoDescriptorLost
  NoFileTwice
PROPERTIES
  ProductEnds
  ClosedEnds
  OldestIsClosed
