\* The same files, no kills: everything filed must become visible.
SPECIFICATION FairSpec
CONSTANTS
  NRows = 2
  NCols = 2
  NRKeys = 3
  NDKeys = 5
  Decade = 2
  Days = {1, 2, 3}
  MaxFlash = 5
  NONE = NONE
  JUNK = JUNK
  CrashMayHappen = FALSE
  CreateMayFail = TRUE
  WriteMayFail = TRUE
PROPERTIES
  FiledIsPublished
