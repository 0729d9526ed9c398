\* Two MD files of 2 x 2 slots in rotation, three days (day 3 returns to the file of
\* day 1), six flashes; the process may be killed and a file may fail to be made.
SPECIFICATION Spec
CONSTANTS
  NRows = 2
  NCols = 2
  NRKeys = 3
  NDKeys = 5
  Decade = 2
  Days = {1, 2, 3}
  MaxFlash = 6
  NONE = NONE
  JUNK = JUNK
  CrashMayHappen = TRUE
  CreateMayFail = TRUE
  WriteMayFail = FALSE
INVARIANTS
  TypeOK
  RowsFillInOrder
  NoHoles
  CleanExitPublishes
  CountIsSlotsInUse
PROPERTIES
  CoveredSlotsStay
  ImplementsLog
