SPECIFICATION FairSpec
CONSTANTS
  d1 = d1
  d2 = d2
  A = A
  B = B
  NONE = NONE
  GARBAGE = GARBAGE
  Decoders <- MCDecoders
  Images <- MCImages
  Paths <- MCPaths
  Standing <- MCStanding
  FileOf <- MCFileOf
  ProgOf <- MCProgOf
  Last = 2
  Buffered = 2
  Failing <- MCFailing
CHECK_DEADLOCK FALSE
INVARIANTS
  TypeOK
  FailsOnlyByRace
  NotAllFail
  FileOfOneImage
  FiledIsWhole
PROPERTIES
  EveryDecoderEnds
  EveryCallCounts
