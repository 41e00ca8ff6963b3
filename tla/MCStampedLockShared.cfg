SPECIFICATION Spec
CONSTANTS
  t1 = t1  t2 = t2  t3 = t3
  Threads = {t1, t2, t3}
  Versions = 4
  SharedMask = 7
  InitVersion = 2
  Ops <- SharedOnly
  WeakCas = TRUE
  MaxWrites = 2
  Fuel <- Mixed
INVARIANTS ReleaseAccepted
