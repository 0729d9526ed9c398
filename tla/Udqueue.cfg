\* Two producers and a consumer share a queue of two elements, and the modes
\* change.
SPECIFICATION QSpec
CONSTANTS
  MaxElts = 2
  Elts = {a, b}
  Producers = {p1, p2}
  Consumers = {c1}
  GetModes = {"WAIT", "NOWAIT"}
  PutModes = {"WAIT", "NOWAIT", "FORCE"}
SYMMETRY Symmetry
INVARIANTS
  QTypeOK
  NotAllWaiting
  NoLostWakeup
  WaitedPutSucceeds
PROPERTIES
  ImplementsFifo
