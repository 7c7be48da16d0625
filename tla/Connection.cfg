SPECIFICATION Spec
CONSTANTS
  None = None
  Unprotected = Unprotected
  Ports = {p1, p2, p3}
  Generated = {t1, t2}
  MaxRevision = 3
  MaxExits = 1
  MaxFaults = 2
  MaxBusy = 2
SYMMETRY Symmetric
INVARIANT TypeOK
INVARIANT ListenerIsEffective
INVARIANT DialledIsServed
PROPERTY StaysReadable
PROPERTY OneGenerationBack
