SPECIFICATION FairSpec
CONSTANTS
  MDXX1 = MDXX1
  MDXX10 = MDXX10
  SCHEMA = SCHEMA
  NoName = NoName
  Names <- MCNames
  Begins <- MCBegins
  NFILES = 2
  DataBytes <- MCDataBytes
  DataAt <- MCDataAt
  SentKinds <- MCSentKinds
  NoiseUnits <- MCNoiseUnits
  MaxData = 1
  MaxPackets = 2
CHECK_DEADLOCK FALSE
PROPERTIES
  SilentFeedEnds
