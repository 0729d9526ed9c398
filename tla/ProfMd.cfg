\* Two decoders, two days of one MD file, three times of which the last has no row,
\* up to three stations for two columns.
SPECIFICATION Spec
CONSTANTS
  Decoders = {d1, d2}
  NRows = 6
  NCols = 2
  Decade = 1
  Days = {1, 2}
  Times <- MCTimes
  Hour = 2
  Step = 1
  Interval = 1
  MaxStations = 3
  MaxProd = 3
  NONE = NONE
CHECK_DEADLOCK FALSE
SYMMETRY Symmetry
INVARIANTS
  TypeOK
  NoHoles
  FiledIsWhole
PROPERTIES
  WholeRowStays
  HalfMadeStays
