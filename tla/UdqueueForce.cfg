\* One producer and one consumer; the put mode changes while a put runs.
SPECIFICATION QSpec
CONSTANTS
  MaxElts = 2
  Elts = {a, b}
  Producers = {p1}
  Consumers = {c1}
  GetModes = {"WAIT", "NOWAIT"}
  PutModes = {"WAIT", "NOWAIT", "FORCE"}
INVARIANT
  ForcedPutSucceeds
