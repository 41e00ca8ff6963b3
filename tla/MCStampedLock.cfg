SPECIFICATION FairSpec
CONSTANTS
  t1 = t1  t2 = t2  t3 = t3
  Threads = {t1, t2, t3}
  Versions = 4
  SharedMask = 3
  InitVersion = 2
  Ops <- Sound
  WeakCas = FALSE
  MaxWrites = 2
  Fuel <- Mixed
INVARIANTS Exclusion SharedCount StampsFresh
PROPERTIES OperationsEnd
