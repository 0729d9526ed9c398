\* Two decoders of one product, a cylinder of two files, three images.
SPECIFICATION Spec
CONSTANTS
  Decoders = {d1, d2}
  Beg = 1
  End = 2
  HasCylinder = TRUE
  Inum = 9
  Conds = {1, 4}
  Xcuts = {0, 1}
  HasSys = TRUE
  MaxProd = 3
SYMMETRY Symmetry
INVARIANTS
  TypeOK
  CylinderKeepsImages
  PostFindsImage
  LastWasFiled
PROPERTIES
  NoGaps
  OnlyOperatorSuspends
