SPECIFICATION Spec
CONSTANTS
  t1 = t1  t2 = t2  t3 = t3  root = root  mid = mid  leaf = leaf
  Phasers = {root, leaf}
  Root = root
  NoPhaser = NoPhaser
  Parent <- PairParent
  Threads = {t1, t2, t3}
  NoThread = NoThread
  Home <- PairHome
  Weight <- Ones
  Members = {t1}
  PhaseSize = 8
  CountSize = 8
  InitPhase = 7
  NeverTerminate = TRUE
  WeakCas = FALSE
  Terminators = {}
  Watchers = {t1}
  Fuel <- TwiceBelow
INVARIANTS TypeOK WordShape Accounting ChildLag PartyPinsPhase ReturnedPhases AdvanceOwned
PROPERTIES PhaseSteps ImplementsBarrier
