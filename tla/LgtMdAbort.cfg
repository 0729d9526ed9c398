\* One file of 2 x 2 slots, no kills: what happens after the file is full.
SPECIFICATION Spec
CONSTANTS
  NRows = 2
  NCols = 2
  NRKeys = 3
  NDKeys = 5
  Decade = 1
  Days = {1}
  MaxFlash = 6
  NONE = NONE
  JUNK = JUNK
  CrashMayHappen = FALSE
  CreateMayFail = FALSE
  WriteMayFail = FALSE
PROPERTIES
  AbortedFileUntouched
