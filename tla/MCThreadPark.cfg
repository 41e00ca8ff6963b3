SPECIFICATION FairSpec
CONSTANTS
  Others = {u1, u2}
  Owner = Owner
  NoThread = NoThread
  Calls = 3
INVARIANTS TypeOK NoLostWakeup
PROPERTIES GoalServed InterruptServed
