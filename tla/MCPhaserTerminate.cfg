SPECIFICATION Spec
CONSTANTS
  t1 = t1  t2 = t2  t3 = t3  root = root  mid = mid  leaf = leaf
  Phasers = {root, leaf}
  Root = root
  NoPhaser = NoPhaser
  Parent <- PairParent
  Threads = {t1, t2, t3}
  NoThread = NoThread
  Home <- PairHome
  Weight <- TwosBelow
  Members = {t1, t2}
  PhaseSize = 8
  CountSize = 4
  InitPhase = 0
  NeverTerminate = FALSE
  WeakCas = TRUE
  Terminators = {t1}
  Watchers = {}
  Fuel <- TwiceAbove
INVARIANT WordShape
PROPERTIES TerminatedFrozen ImplementsBarrier
