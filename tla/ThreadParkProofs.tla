-------------------------- MODULE ThreadParkProofs --------------------------
(***************************************************************************)
(* No unpark, interrupt or established condition is lost by park, for any  *)
(* number of threads and calls.                                            *)
(***************************************************************************)
EXTENDS ThreadPark, TLAPS

\* The owner has decided to block, or has blocked.
Committed == pc \in {"try", "again", "cb", "poll", "wait"} \/ waiting

SomeComing == \E u \in Others : Coming(u)

\* What makes NoLostWakeup inductive: the promise of a wake-up holds from the
\* look at the flags on, and the flag stays clear from the second look, under
\* park_lock, until the owner is in park_cv's wait set.
Promise ==
  /\ waiting => pc = "blocked"
  /\ waiting /\ released => \E u \in Others : upc[u] = "notify"
  /\ goal /\ (pc = "clear" \/ Committed) => released \/ SomeComing
  /\ interrupted /\ Committed => released \/ SomeComing
  /\ pc \in {"cb", "poll", "wait"} => ~released

PInv == TypeOK /\ Promise

\* A new thread_data satisfies the invariant.
LEMMA InitPInv == Init => PInv
<1> SUFFICES ASSUME Init PROVE PInv
  OBVIOUS
<1>1. TypeOK
  BY ThreadsAssumption DEF Init, TypeOK, OwnerLabels
<1>2. Promise
  BY DEF Init, Promise, Committed
<1>3. QED BY <1>1, <1>2 DEF PInv

\* The owner's own steps.
LEMMA OwnerPInv == PInv /\ OwnerStep => PInv'
<1> SUFFICES ASSUME PInv, OwnerStep PROVE PInv'
  OBVIOUS
<1> USE ThreadsAssumption DEF PInv, TypeOK, Promise, Committed, SomeComing,
                              Coming, OwnerLabels, flags, owner
<1>1. CASE Leave
  BY <1>1 DEF Leave
<1>2. CASE Clear
  BY <1>2 DEF Clear
<1>3. CASE TryLock
  BY <1>3 DEF TryLock
<1>4. CASE ClearAgain
  BY <1>4 DEF ClearAgain
<1>5. CASE Callback
  BY <1>5 DEF Callback
<1>6. CASE Poll
  BY <1>6 DEF Poll
<1>7. CASE Wait
  BY <1>7 DEF Wait
<1>8. CASE Wake
  BY <1>8 DEF Wake
<1>9. CASE Finish
  BY <1>9 DEF Finish
<1>10. ASSUME NEW tm \in BOOLEAN, NEW cb \in BOOLEAN, park(tm, cb) PROVE PInv'
  <2>1. /\ pc = "idle" /\ ~goal /\ pc' = "clear"
        /\ timed' \in BOOLEAN /\ recheck' \in BOOLEAN /\ ~expired'
        /\ UNCHANGED <<released, interrupted, lock, waiting, goal, upc, calls>>
    BY <1>10 DEF park
  <2>2. TypeOK'
    BY <1>10, <2>1 DEF park
  <2>3. Promise'
    BY <2>1
  <2>4. QED BY <2>2, <2>3
<1>11. QED
  BY <1>1, <1>2, <1>3, <1>4, <1>5, <1>6, <1>7, <1>8, <1>9, <1>10 DEF OwnerStep

\* A call that begins is coming.
LEMMA BeginComing ==
  ASSUME PInv, NEW u \in Others, Begin(u),
         UNCHANGED <<released, lock, waiting, owner>>,
         goal' \in BOOLEAN, interrupted' \in BOOLEAN
  PROVE  PInv'
<1>1. /\ upc[u] = "idle" /\ upc'[u] = "lock"
      /\ \A v \in Others : v # u => upc'[v] = upc[v]
      /\ upc' \in [Others -> {"idle", "lock", "or", "notify"}]
      /\ calls' \in [Others -> Nat]
  BY DEF Begin, PInv, TypeOK
<1>2. TypeOK'
  BY <1>1 DEF PInv, TypeOK, owner
<1>3. SomeComing'
  BY <1>1 DEF SomeComing, Coming
<1>4. Promise'
  BY <1>1, <1>3 DEF PInv, Promise, Committed, owner
<1>5. QED BY <1>2, <1>4 DEF PInv

\* Calls of others, timeouts and spurious wake-ups preserve the invariant.
LEMMA EnvironmentPInv == PInv /\ Environment => PInv'
<1> SUFFICES ASSUME PInv, Environment PROVE PInv'
  OBVIOUS
<1>1. CASE is_interrupted
  BY <1>1 DEF is_interrupted, PInv, TypeOK, Promise, Committed, SomeComing,
              Coming, owner
<1>2. CASE TimeOut
  BY <1>2 DEF TimeOut, PInv, TypeOK, Promise, Committed, SomeComing, Coming,
              flags
<1>3. CASE Spurious
  BY <1>3 DEF Spurious, PInv, TypeOK, Promise, Committed, SomeComing, Coming,
              flags, owner
<1>4. ASSUME NEW u \in Others, unpark(u) PROVE PInv'
  <2>1. goal' \in BOOLEAN /\ interrupted' \in BOOLEAN
    BY <1>4 DEF unpark, PInv, TypeOK, flags
  <2>2. QED BY <1>4, <2>1, BeginComing DEF unpark, flags
<1>5. ASSUME NEW u \in Others, interrupt(u) PROVE PInv'
  <2>1. CASE interrupted
    BY <1>5, <2>1 DEF interrupt, PInv, TypeOK, Promise, Committed, SomeComing,
                      Coming, owner
  <2>2. CASE ~interrupted
    <3>1. goal' \in BOOLEAN /\ interrupted' \in BOOLEAN
      BY <1>5 DEF interrupt, PInv, TypeOK
    <3>2. QED BY <1>5, <2>2, <3>1, BeginComing DEF interrupt
  <2>3. QED BY <2>1, <2>2
<1>6. QED BY <1>1, <1>2, <1>3, <1>4, <1>5 DEF Environment

\* The steps of unpark after it has begun.
LEMMA OtherPInv ==
  ASSUME PInv, NEW u \in Others, OtherStep(u) PROVE PInv'
<1> USE ThreadsAssumption
<1>1. CASE Lock(u)
  <2>1. /\ lock = NoThread /\ lock' = u /\ upc[u] = "lock" /\ upc'[u] = "or"
        /\ \A v \in Others : v # u => upc'[v] = upc[v]
        /\ UNCHANGED <<released, interrupted, waiting, goal, pc, calls>>
        /\ UNCHANGED <<timed, recheck, expired>>
    BY <1>1 DEF Lock, PInv, TypeOK, flags, owner
  <2>2. TypeOK'
    BY <1>1, <2>1 DEF Lock, PInv, TypeOK
  <2>3. SomeComing'
    BY <2>1 DEF SomeComing, Coming
  <2>4. Promise'
    BY <2>1, <2>3 DEF PInv, Promise, Committed
  <2>5. QED BY <2>2, <2>4 DEF PInv
<1>2. CASE SetRelease(u)
  <2>1. /\ upc[u] = "or" /\ lock = u /\ lock' = NoThread /\ released'
        /\ upc'[u] = IF released THEN "idle" ELSE "notify"
        /\ \A v \in Others : v # u => upc'[v] = upc[v]
        /\ UNCHANGED <<interrupted, waiting, goal, pc, calls>>
        /\ UNCHANGED <<timed, recheck, expired>>
    BY <1>2 DEF SetRelease, PInv, TypeOK, owner
  <2>2. TypeOK'
    BY <1>2, <2>1 DEF SetRelease, PInv, TypeOK
  <2>3. pc \notin {"cb", "poll", "wait"}
    BY <2>1 DEF PInv, TypeOK
  <2>4. waiting => \E v \in Others : upc'[v] = "notify"
    BY <2>1 DEF PInv, Promise
  <2>5. Promise'
    BY <2>1, <2>3, <2>4 DEF PInv, Promise
  <2>6. QED BY <2>2, <2>5 DEF PInv
<1>3. CASE Notify(u)
  <2>1. /\ upc[u] = "notify" /\ upc'[u] = "idle" /\ ~waiting'
        /\ \A v \in Others : v # u => upc'[v] = upc[v]
        /\ UNCHANGED <<released, interrupted, lock, goal, pc, calls>>
        /\ UNCHANGED <<timed, recheck, expired>>
    BY <1>3 DEF Notify, PInv, TypeOK, flags, owner
  <2>2. TypeOK'
    BY <1>3, <2>1 DEF Notify, PInv, TypeOK
  <2>3. SomeComing => SomeComing'
    BY <2>1 DEF SomeComing, Coming
  <2>4. Promise'
    BY <2>1, <2>3 DEF PInv, Promise, Committed
  <2>5. QED BY <2>2, <2>4 DEF PInv
<1>4. QED BY <1>1, <1>2, <1>3 DEF OtherStep

\* Every step preserves the invariant.
LEMMA NextPInv == PInv /\ [Next]_vars => PInv'
<1> SUFFICES ASSUME PInv, [Next]_vars PROVE PInv'
  OBVIOUS
<1>1. CASE UNCHANGED vars
  BY <1>1 DEF vars, flags, owner, PInv, TypeOK, Promise, Committed,
              SomeComing, Coming
<1>2. QED BY <1>1, OwnerPInv, EnvironmentPInv, OtherPInv DEF Next

\* The invariant holds in every reachable state.
LEMMA ParkInvariance == Spec => []PInv
  BY InitPInv, NextPInv, PTL DEF Spec

\* The fields of thread_data keep their types, and park_lock is held exactly
\* inside the critical sections of park and unpark.
THEOREM ParkTypeCorrect == Spec => []TypeOK
<1>1. PInv => TypeOK
  BY DEF PInv
<1>2. QED BY <1>1, ParkInvariance, PTL

\* Whatever the interleaving of park, unpark and interrupt, a blocked thread
\* that has been released, interrupted or satisfied has a wake-up coming.
THEOREM ParkLosesNoWakeup == Spec => []NoLostWakeup
<1>1. PInv => NoLostWakeup
  BY DEF PInv, Promise, NoLostWakeup, Committed, SomeComing
<1>2. QED BY <1>1, ParkInvariance, PTL
=============================================================================
