SPECIFICATION Spec
CONSTANTS
  t1 = t1  t2 = t2  t3 = t3  root = root  mid = mid  leaf = leaf
  Phasers = {root, mid, leaf}
  Root = root
  NoPhaser = NoPhaser
  Parent <- ChainParent
  Threads = {t1, t2}
  NoThread = NoThread
  Home <- ChainHome
  Weight <- Ones
  Members = {}
  PhaseSize = 8
  CountSize = 8
  InitPhase = 7
  NeverTerminate = TRUE
  WeakCas = FALSE
  Terminators = {}
  Watchers = {t2}
  Fuel <- Thrice
INVARIANT Accounting
PROPERTIES ImplementsBarrier
