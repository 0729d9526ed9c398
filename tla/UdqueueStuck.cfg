\* Two producers and a consumer share a queue of one element in WAIT mode.
SPECIFICATION QSpec
CONSTANTS
  MaxElts = 1
  Elts = {a, b}
  Producers = {p1, p2}
  Consumers = {c1}
  GetModes = {}
  PutModes = {}
INVARIANT
  NotAllWaiting
