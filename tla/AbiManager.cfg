SPECIFICATION Spec
CONSTANTS
  i1 = i1
  i2 = i2
  t1 = t1
  t2 = t2
  Instances = {i1, i2}
  Threads = {t1, t2}
  MaxSessions = 2
  Modulus = 3
  MaxStates = 2
  MaxOpens = 2
  MaxTraffic = 1
SYMMETRY Symmetry
INVARIANTS
  AbiInv
  Released
  HandlesOpen
