SPECIFICATION Spec
CONSTANTS
  Waiters = {w1, w2}
  Advancer = adv
  Kinds = {"for"}
  Nodes = {n1, n2}
  MaxPhase = 1
  Waits = 2
  Interrupts = 1
  Handles = {h1, h2, h3}
  Gets = 2
  Producers = {w1, w2}
  Consumers = {c1}
  Order = 2
  Heads = {2}
  Adds = 3
  Polls = 1
  Lockers = {t1, t2, t3}
  Calls = 2
  Updates = 1
  Turns = 2
SYMMETRY Symmetry
INVARIANTS NodesOwned NobodyStranded  RingSound FutexSound
CHECK_DEADLOCK FALSE
