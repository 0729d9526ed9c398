\* One decoder, two images: what a decoder does with a suspended entry.
SPECIFICATION Spec
CONSTANTS
  Decoders = {d1}
  Beg = 1
  End = 3
  HasCylinder = TRUE
  Inum = 9
  Conds = {1}
  Xcuts = {0}
  HasSys = FALSE
  MaxProd = 2
PROPERTIES
  SuspendedNotFiled
