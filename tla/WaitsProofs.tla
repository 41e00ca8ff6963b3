---------------------------- MODULE WaitsProofs ----------------------------
(***************************************************************************)
(* Proofs about the parts of MCWaits whose components have proofs of their *)
(* own: the wait queues of the phaser, the lifetime of thread_data, the    *)
(* futex mutexes and rcu.  MCWaits gives its shared variables c1, c2, ...  *)
(* to each part in turn; the proof modules are instantiated over the same  *)
(* variables, and what they prove of a component's specification is        *)
(* carried over to a run of its part.                                      *)
(***************************************************************************)
EXTENDS MCWaits, FiniteSets, TLAPS

QueueProofs == INSTANCE PhaserWaitProofs
           WITH policy <- c1, phase <- c2, terminated <- c3, qhead <- c4, node <- c5,
                released <- c6, interrupted <- c7, held <- c8, asleep <- c9, v <- c10,
                waits <- c11, interrupts <- c12, broken <- c13, late <- c14,
                Interrupts <- 0

WokenProofs == INSTANCE PhaserWaitProofs
           WITH policy <- c1, phase <- c2, terminated <- c3, qhead <- c4, node <- c5,
                released <- c6, interrupted <- c7, held <- c8, asleep <- c9, v <- c10,
                waits <- c11, interrupts <- c12, broken <- c13, late <- c14,
                Kinds <- {"interruptibly"}

LifeProofs == INSTANCE ThreadLifeProofs
           WITH tdata <- c1, transient <- c2, use_count <- c3, data <- c4, child <- c5,
                native <- c6, terminated <- c7, gets <- c8

MutexProofs == INSTANCE FutexMutexProofs
           WITH locked <- c1, busy <- c2, sleeping <- c3, reader_count <- c4, pc <- c5,
                todo <- c6, mode <- c7, calls <- c8,
                Threads <- Lockers

QsbrProofs == INSTANCE RcuProofs
           WITH count <- c1, lock <- c2, r_list <- c3, w_stack <- c4, rc <- c5, waiting <- c6,
                pc <- c7, seen <- c8, online <- c9, group <- c10, left <- c11, version <- c12,
                freed <- c13, ref <- c14, old <- c15, turns <- c16, updates <- c17,
                Actors <- Lockers
(***************************************************************************)
(* An instance of a component and the instance of its proofs define the    *)
(* same steps: both substitute the same variables and constants.           *)
(***************************************************************************)

\* The steps of PhaserWait, as MCWaits and as PhaserWaitProofs see them:
\* timed waits that nobody interrupts.
LEMMA SameQueue ==
  /\ Queue!Init <=> QueueProofs!Init
  /\ [Queue!Next]_(Queue!vars) <=> [QueueProofs!Next]_(QueueProofs!vars)
<1> USE
      DEF Queue!Threads, QueueProofs!Threads, Queue!Null, QueueProofs!Null, Queue!Lock,
          QueueProofs!Lock, Queue!park, QueueProofs!park, Queue!past, QueueProofs!past,
          Queue!vars, QueueProofs!vars, Queue!Free, QueueProofs!Free, Queue!Local,
          QueueProofs!Local, Queue!Init, QueueProofs!Init, Queue!At, QueueProofs!At, Queue!Goto,
          QueueProofs!Goto, Queue!Break, QueueProofs!Break, Queue!Same, QueueProofs!Same,
          Queue!get_queue, QueueProofs!get_queue, Queue!Closed, QueueProofs!Closed, Queue!Reach,
          QueueProofs!Reach, Queue!InHand, QueueProofs!InHand, Queue!Listed, QueueProofs!Listed,
          Queue!release_waiters, QueueProofs!release_waiters, Queue!GoOn, QueueProofs!GoOn,
          Queue!release_waiters_single, QueueProofs!release_waiters_single,
          Queue!release_waiters_cooperative, QueueProofs!release_waiters_cooperative,
          Queue!LockHead, QueueProofs!LockHead, Queue!ReadNext, QueueProofs!ReadNext,
          Queue!Advance, QueueProofs!Advance, Queue!queue_release, QueueProofs!queue_release,
          Queue!TestWaiter, QueueProofs!TestWaiter, Queue!ReadWaiter, QueueProofs!ReadWaiter,
          Queue!unpark, QueueProofs!unpark, Queue!advance, QueueProofs!advance,
          Queue!force_termination, QueueProofs!force_termination, Queue!ReleaseOdd,
          QueueProofs!ReleaseOdd, Queue!Changed, QueueProofs!Changed, Queue!await_advance,
          QueueProofs!await_advance, Queue!Loop, QueueProofs!Loop, Queue!Park, QueueProofs!Park,
          Queue!is_releasable, QueueProofs!is_releasable, Queue!Unparked, QueueProofs!Unparked,
          Queue!LoadHead, QueueProofs!LoadHead, Queue!TestInvalid, QueueProofs!TestInvalid,
          Queue!Push, QueueProofs!Push, Queue!SetQueued, QueueProofs!SetQueued, Queue!Recheck,
          QueueProofs!Recheck, Queue!WakeUp, QueueProofs!WakeUp, Queue!Spurious,
          QueueProofs!Spurious, Queue!Again, QueueProofs!Again, Queue!DropWaiter,
          QueueProofs!DropWaiter, Queue!ReleaseNode, QueueProofs!ReleaseNode, Queue!Last,
          QueueProofs!Last, Queue!Return, QueueProofs!Return, Queue!interrupt,
          QueueProofs!interrupt, Queue!Release, QueueProofs!Release, Queue!Wait,
          QueueProofs!Wait, Queue!Step, QueueProofs!Step, Queue!Next, QueueProofs!Next
<1>1. Queue!Init <=> QueueProofs!Init
  OBVIOUS
<1>2. UNCHANGED Queue!vars <=> UNCHANGED QueueProofs!vars
  OBVIOUS
<1>3. Queue!Next <=> QueueProofs!Next
  OBVIOUS
<1> HIDE DEF Queue!Init, Queue!Next, Queue!vars, QueueProofs!Init, QueueProofs!Next, QueueProofs!vars
<1>4. QED BY <1>1, <1>2, <1>3

\* The steps of PhaserWait, as MCWaits and as PhaserWaitProofs see them:
\* interruptible waits.
LEMMA SameWoken ==
  /\ Woken!Init <=> WokenProofs!Init
  /\ [Woken!Next]_(Woken!vars) <=> [WokenProofs!Next]_(WokenProofs!vars)
<1> USE
      DEF Woken!Threads, WokenProofs!Threads, Woken!Null, WokenProofs!Null, Woken!Lock,
          WokenProofs!Lock, Woken!park, WokenProofs!park, Woken!past, WokenProofs!past,
          Woken!vars, WokenProofs!vars, Woken!Free, WokenProofs!Free, Woken!Local,
          WokenProofs!Local, Woken!Init, WokenProofs!Init, Woken!At, WokenProofs!At, Woken!Goto,
          WokenProofs!Goto, Woken!Break, WokenProofs!Break, Woken!Same, WokenProofs!Same,
          Woken!get_queue, WokenProofs!get_queue, Woken!Closed, WokenProofs!Closed, Woken!Reach,
          WokenProofs!Reach, Woken!InHand, WokenProofs!InHand, Woken!Listed, WokenProofs!Listed,
          Woken!release_waiters, WokenProofs!release_waiters, Woken!GoOn, WokenProofs!GoOn,
          Woken!release_waiters_single, WokenProofs!release_waiters_single,
          Woken!release_waiters_cooperative, WokenProofs!release_waiters_cooperative,
          Woken!LockHead, WokenProofs!LockHead, Woken!ReadNext, WokenProofs!ReadNext,
          Woken!Advance, WokenProofs!Advance, Woken!queue_release, WokenProofs!queue_release,
          Woken!TestWaiter, WokenProofs!TestWaiter, Woken!ReadWaiter, WokenProofs!ReadWaiter,
          Woken!unpark, WokenProofs!unpark, Woken!advance, WokenProofs!advance,
          Woken!force_termination, WokenProofs!force_termination, Woken!ReleaseOdd,
          WokenProofs!ReleaseOdd, Woken!Changed, WokenProofs!Changed, Woken!await_advance,
          WokenProofs!await_advance, Woken!Loop, WokenProofs!Loop, Woken!Park, WokenProofs!Park,
          Woken!is_releasable, WokenProofs!is_releasable, Woken!Unparked, WokenProofs!Unparked,
          Woken!LoadHead, WokenProofs!LoadHead, Woken!TestInvalid, WokenProofs!TestInvalid,
          Woken!Push, WokenProofs!Push, Woken!SetQueued, WokenProofs!SetQueued, Woken!Recheck,
          WokenProofs!Recheck, Woken!WakeUp, WokenProofs!WakeUp, Woken!Spurious,
          WokenProofs!Spurious, Woken!Again, WokenProofs!Again, Woken!DropWaiter,
          WokenProofs!DropWaiter, Woken!ReleaseNode, WokenProofs!ReleaseNode, Woken!Last,
          WokenProofs!Last, Woken!Return, WokenProofs!Return, Woken!interrupt,
          WokenProofs!interrupt, Woken!Release, WokenProofs!Release, Woken!Wait,
          WokenProofs!Wait, Woken!Step, WokenProofs!Step, Woken!Next, WokenProofs!Next
<1>1. Woken!Init <=> WokenProofs!Init
  OBVIOUS
<1>2. UNCHANGED Woken!vars <=> UNCHANGED WokenProofs!vars
  OBVIOUS
<1>3. Woken!Next <=> WokenProofs!Next
  OBVIOUS
<1> HIDE DEF Woken!Init, Woken!Next, Woken!vars, WokenProofs!Init, WokenProofs!Next, WokenProofs!vars
<1>4. QED BY <1>1, <1>2, <1>3

\* The steps of ThreadLife, as MCWaits and as ThreadLifeProofs see them.
LEMMA SameLife ==
  /\ Life!Init <=> LifeProofs!Init
  /\ [Life!Next]_(Life!vars) <=> [LifeProofs!Next]_(LifeProofs!vars)
<1> USE
      DEF Life!handles, LifeProofs!handles, Life!vars, LifeProofs!vars, Life!Init,
          LifeProofs!Init, Life!Alive, LifeProofs!Alive, Life!Release, LifeProofs!Release,
          Life!create, LifeProofs!create, Life!Seeding, LifeProofs!Seeding, Life!child_attach,
          LifeProofs!child_attach, Life!Returns, LifeProofs!Returns, Life!thread_exit_handler,
          LifeProofs!thread_exit_handler, Life!get, LifeProofs!get, Life!Move, LifeProofs!Move,
          Life!join, LifeProofs!join, Life!detach, LifeProofs!detach, Life!release,
          LifeProofs!release, Life!Next, LifeProofs!Next
<1>1. Life!Init <=> LifeProofs!Init
  OBVIOUS
<1>2. UNCHANGED Life!vars <=> UNCHANGED LifeProofs!vars
  OBVIOUS
<1>3. Life!Next <=> LifeProofs!Next
  OBVIOUS
<1> HIDE DEF Life!Init, Life!Next, Life!vars, LifeProofs!Init, LifeProofs!Next, LifeProofs!vars
<1>4. QED BY <1>1, <1>2, <1>3

\* The steps of FutexMutex, as MCWaits and as FutexMutexProofs see them.
LEMMA SameMutex ==
  /\ Mutex!Init <=> MutexProofs!Init
  /\ [Mutex!Next]_(Mutex!vars) <=> [MutexProofs!Next]_(MutexProofs!vars)
<1> USE
      DEF Mutex!Locks, MutexProofs!Locks, Mutex!words, MutexProofs!words, Mutex!vars,
          MutexProofs!vars, Mutex!Init, MutexProofs!Init, Mutex!At, MutexProofs!At, Mutex!M,
          MutexProofs!M, Mutex!First, MutexProofs!First, Mutex!Goto, MutexProofs!Goto,
          Mutex!Done, MutexProofs!Done, Mutex!lock, MutexProofs!lock, Mutex!lock_blocking,
          MutexProofs!lock_blocking, Mutex!FutexWait, MutexProofs!FutexWait, Mutex!Woken,
          MutexProofs!Woken, Mutex!unlock, MutexProofs!unlock, Mutex!Spin, MutexProofs!Spin,
          Mutex!ClearBusy, MutexProofs!ClearBusy, Mutex!FutexWake, MutexProofs!FutexWake,
          Mutex!Begin, MutexProofs!Begin, Mutex!lock_exclusive, MutexProofs!lock_exclusive,
          Mutex!lock_shared, MutexProofs!lock_shared, Mutex!unlock_exclusive,
          MutexProofs!unlock_exclusive, Mutex!unlock_shared, MutexProofs!unlock_shared,
          Mutex!CountReader, MutexProofs!CountReader, Mutex!Return, MutexProofs!Return,
          Mutex!Step, MutexProofs!Step, Mutex!Finished, MutexProofs!Finished, Mutex!Next,
          MutexProofs!Next
<1>1. Mutex!Init <=> MutexProofs!Init
  OBVIOUS
<1>2. UNCHANGED Mutex!vars <=> UNCHANGED MutexProofs!vars
  OBVIOUS
<1>3. Mutex!Next <=> MutexProofs!Next
  OBVIOUS
<1> HIDE DEF Mutex!Init, Mutex!Next, Mutex!vars, MutexProofs!Init, MutexProofs!Next, MutexProofs!vars
<1>4. QED BY <1>1, <1>2, <1>3

\* The steps of Rcu, as MCWaits and as RcuProofs see them.
LEMMA SameQsbr ==
  /\ Qsbr!Init <=> QsbrProofs!Init
  /\ [Qsbr!Next]_(Qsbr!vars) <=> [QsbrProofs!Next]_(QsbrProofs!vars)
<1> USE
      DEF Qsbr!NoActor, QsbrProofs!NoActor, Qsbr!shared, QsbrProofs!shared, Qsbr!local,
          QsbrProofs!local, Qsbr!client, QsbrProofs!client, Qsbr!bounds, QsbrProofs!bounds,
          Qsbr!vars, QsbrProofs!vars, Qsbr!Init, QsbrProofs!Init, Qsbr!At, QsbrProofs!At,
          Qsbr!Goto, QsbrProofs!Goto, Qsbr!Turn, QsbrProofs!Turn, Qsbr!attach,
          QsbrProofs!attach, Qsbr!LoadCount, QsbrProofs!LoadCount, Qsbr!StoreCount,
          QsbrProofs!StoreCount, Qsbr!Read, QsbrProofs!Read, Qsbr!yield, QsbrProofs!yield,
          Qsbr!suspend, QsbrProofs!suspend, Qsbr!resume, QsbrProofs!resume, Qsbr!detach,
          QsbrProofs!detach, Qsbr!synchronize, QsbrProofs!synchronize, Qsbr!Push,
          QsbrProofs!Push, Qsbr!Lead, QsbrProofs!Lead, Qsbr!wait_for_readers,
          QsbrProofs!wait_for_readers, Qsbr!Wake, QsbrProofs!Wake, Qsbr!busy_wait,
          QsbrProofs!busy_wait, Qsbr!Return, QsbrProofs!Return, Qsbr!Step, QsbrProofs!Step,
          Qsbr!Begin, QsbrProofs!Begin, Qsbr!Next, QsbrProofs!Next
<1>1. Qsbr!Init <=> QsbrProofs!Init
  OBVIOUS
<1>2. UNCHANGED Qsbr!vars <=> UNCHANGED QsbrProofs!vars
  OBVIOUS
<1>3. Qsbr!Next <=> QsbrProofs!Next
  OBVIOUS
<1> HIDE DEF Qsbr!Init, Qsbr!Next, Qsbr!vars, QsbrProofs!Init, QsbrProofs!Next, QsbrProofs!vars
<1>4. QED BY <1>1, <1>2, <1>3

(***************************************************************************)
(* Each part of a behaviour keeps the invariant of its component.          *)
(***************************************************************************)
vars == <<part, c1, c2, c3, c4, c5, c6, c7, c8, cells9>>

QueueInv == part = "queue" => QueueProofs!SInv
WokenInv == part = "woken" => WokenProofs!SInv
LifeInv  == part = "life"  => LifeProofs!TInv
MutexInv == part = "mutex" => MutexProofs!MInv
QsbrInv  == part = "qsbr"  => QsbrProofs!RInv

\* The marks that stand for no node, no thread and a locked stack are none,
\* and the thread that advances the phaser does not wait for it.
DistinctMarks ==
  /\ Queue!Null \notin Nodes /\ Queue!Lock \notin Nodes
  /\ Queue!Null \notin Waiters /\ Advancer \notin Waiters

\* The invariant of PhaserWaitProofs holds of the part "queue".
LEMMA QueueInvInductive ==
  ASSUME DistinctMarks
  PROVE  (Init => QueueInv) /\ (QueueInv /\ [Next]_vars => QueueInv')
<1>1. QueueProofs!Distinct
  BY DEF DistinctMarks, QueueProofs!Distinct, QueueProofs!Null, QueueProofs!Lock, Queue!Null, Queue!Lock
<1>2. Init => QueueInv
  BY <1>1, SameQueue, QueueProofs!InitSleep DEF Init, QueueInv
<1>3. ASSUME QueueInv, [Next]_vars, part' = "queue"
      PROVE  QueueProofs!SInv'
  <2>1. part = "queue"
    BY <1>3 DEF Next, vars
  <2>2. [Queue!Next]_(Queue!vars)
    BY <1>3, <2>1 DEF Next, vars, cells9, cells13, Queue!vars, Queue!park
  <2>3. QED BY <1>1, <1>3, <2>1, <2>2, SameQueue, QueueProofs!NextSleep DEF QueueInv
<1>4. QED BY <1>2, <1>3 DEF QueueInv

\* The invariant of PhaserWaitProofs holds of the part "woken".
LEMMA WokenInvInductive ==
  ASSUME DistinctMarks
  PROVE  (Init => WokenInv) /\ (WokenInv /\ [Next]_vars => WokenInv')
<1>1. WokenProofs!Distinct
  BY DEF DistinctMarks, WokenProofs!Distinct, WokenProofs!Null, WokenProofs!Lock, Queue!Null, Queue!Lock
<1>2. Init => WokenInv
  BY <1>1, SameWoken, WokenProofs!InitSleep DEF Init, WokenInv
<1>3. ASSUME WokenInv, [Next]_vars, part' = "woken"
      PROVE  WokenProofs!SInv'
  <2>1. part = "woken"
    BY <1>3 DEF Next, vars
  <2>2. [Woken!Next]_(Woken!vars)
    BY <1>3, <2>1 DEF Next, vars, cells9, cells13, Woken!vars, Woken!park
  <2>3. QED BY <1>1, <1>3, <2>1, <2>2, SameWoken, WokenProofs!NextSleep DEF WokenInv
<1>4. QED BY <1>2, <1>3 DEF WokenInv

\* The invariant of ThreadLifeProofs holds of the part "life".
LEMMA LifeInvInductive ==
  ASSUME IsFiniteSet(Handles)
  PROVE  (Init => LifeInv) /\ (LifeInv /\ [Next]_vars => LifeInv')
<1>1. LifeProofs!IsFiniteSet(Handles)
  BY DEF IsFiniteSet, LifeProofs!IsFiniteSet
<1>2. Init => LifeInv
  BY SameLife, LifeProofs!InitTInv DEF Init, LifeInv
<1>3. ASSUME LifeInv, [Next]_vars, part' = "life"
      PROVE  LifeProofs!TInv'
  <2>1. part = "life"
    BY <1>3 DEF Next, vars
  <2>2. [Life!Next]_(Life!vars)
    BY <1>3, <2>1 DEF Next, vars, Life!vars, Life!handles
  <2>3. QED BY <1>1, <1>3, <2>1, <2>2, SameLife, LifeProofs!NextTInv DEF LifeInv
<1>4. QED BY <1>2, <1>3 DEF LifeInv

\* The invariant of FutexMutexProofs holds of the part "mutex".
LEMMA MutexInvInductive ==
  ASSUME IsFiniteSet(Lockers)
  PROVE  (Init => MutexInv) /\ (MutexInv /\ [Next]_vars => MutexInv')
<1>1. MutexProofs!IsFiniteSet(Lockers)
  BY DEF IsFiniteSet, MutexProofs!IsFiniteSet
<1>2. Init => MutexInv
  BY SameMutex, MutexProofs!InitInv DEF Init, MutexInv
<1>3. ASSUME MutexInv, [Next]_vars, part' = "mutex"
      PROVE  MutexProofs!MInv'
  <2>1. part = "mutex"
    BY <1>3 DEF Next, vars
  <2>2. [Mutex!Next]_(Mutex!vars)
    BY <1>3, <2>1 DEF Next, vars, Mutex!vars, Mutex!words
  <2>3. QED BY <1>1, <1>3, <2>1, <2>2, SameMutex, MutexProofs!NextInv DEF MutexInv
<1>4. QED BY <1>2, <1>3 DEF MutexInv

\* The invariant of RcuProofs holds of the part "qsbr".
LEMMA QsbrInvInductive ==
  ASSUME Qsbr!NoActor \notin Lockers
  PROVE  (Init => QsbrInv) /\ (QsbrInv /\ [Next]_vars => QsbrInv')
<1>1. QsbrProofs!NoActor \notin Lockers
  BY DEF Qsbr!NoActor, QsbrProofs!NoActor
<1>2. Init => QsbrInv
  BY SameQsbr, QsbrProofs!InitRInv DEF Init, QsbrInv
<1>3. ASSUME QsbrInv, [Next]_vars, part' = "qsbr"
      PROVE  QsbrProofs!RInv'
  <2>1. part = "qsbr"
    BY <1>3 DEF Next, vars
  <2>2. [Qsbr!Next]_(Qsbr!vars)
    BY <1>3, <2>1 DEF Next, vars, cells9, cells13, Qsbr!vars, Qsbr!shared, Qsbr!local, Qsbr!client, Qsbr!bounds
  <2>3. QED BY <1>1, <1>3, <2>1, <2>2, SameQsbr, QsbrProofs!NextRInv DEF QsbrInv
<1>4. QED BY <1>2, <1>3 DEF QsbrInv

\* The properties of the wait queues speak of the shared variables only, not
\* of the kinds of wait nor of the number of interrupts.
LEMMA QueueProperties ==
  /\ QueueProofs!NodesOwned <=> Queue!NodesOwned
  /\ WokenProofs!NodesOwned <=> Queue!NodesOwned
  /\ QueueProofs!NobodyStranded <=> Queue!NobodyStranded
  /\ WokenProofs!NobodyStranded <=> Queue!NobodyStranded
<1>1. QueueProofs!NodesOwned <=> Queue!NodesOwned
  BY DEF QueueProofs!Threads, Queue!Threads, QueueProofs!Null, Queue!Null, QueueProofs!Lock,
           Queue!Lock, QueueProofs!get_queue, Queue!get_queue, QueueProofs!Closed,
           Queue!Closed, QueueProofs!Reach, Queue!Reach, QueueProofs!InHand, Queue!InHand,
           QueueProofs!Listed, Queue!Listed, QueueProofs!Changed, Queue!Changed,
           QueueProofs!Visits, Queue!Visits, QueueProofs!NodesOwned, Queue!NodesOwned,
           QueueProofs!NobodyStranded, Queue!NobodyStranded
<1>2. WokenProofs!NodesOwned <=> Queue!NodesOwned
  BY DEF WokenProofs!Threads, Queue!Threads, WokenProofs!Null, Queue!Null, WokenProofs!Lock,
           Queue!Lock, WokenProofs!get_queue, Queue!get_queue, WokenProofs!Closed,
           Queue!Closed, WokenProofs!Reach, Queue!Reach, WokenProofs!InHand, Queue!InHand,
           WokenProofs!Listed, Queue!Listed, WokenProofs!Changed, Queue!Changed,
           WokenProofs!Visits, Queue!Visits, WokenProofs!NodesOwned, Queue!NodesOwned,
           WokenProofs!NobodyStranded, Queue!NobodyStranded
<1>3. QueueProofs!NobodyStranded <=> Queue!NobodyStranded
  BY DEF QueueProofs!Threads, Queue!Threads, QueueProofs!Null, Queue!Null, QueueProofs!Lock,
           Queue!Lock, QueueProofs!get_queue, Queue!get_queue, QueueProofs!Closed,
           Queue!Closed, QueueProofs!Reach, Queue!Reach, QueueProofs!InHand, Queue!InHand,
           QueueProofs!Listed, Queue!Listed, QueueProofs!Changed, Queue!Changed,
           QueueProofs!Visits, Queue!Visits, QueueProofs!NodesOwned, Queue!NodesOwned,
           QueueProofs!NobodyStranded, Queue!NobodyStranded
<1>4. WokenProofs!NobodyStranded <=> Queue!NobodyStranded
  BY DEF WokenProofs!Threads, Queue!Threads, WokenProofs!Null, Queue!Null, WokenProofs!Lock,
           Queue!Lock, WokenProofs!get_queue, Queue!get_queue, WokenProofs!Closed,
           Queue!Closed, WokenProofs!Reach, Queue!Reach, WokenProofs!InHand, Queue!InHand,
           WokenProofs!Listed, Queue!Listed, WokenProofs!Changed, Queue!Changed,
           WokenProofs!Visits, Queue!Visits, WokenProofs!NodesOwned, Queue!NodesOwned,
           WokenProofs!NobodyStranded, Queue!NobodyStranded
<1>5. QED BY <1>1, <1>2, <1>3, <1>4

\* No stack of the phaser reaches a destroyed node and no node is lost, until
\* an access goes wrong; for any number of waiters, nodes, phases and waits,
\* with timed waits and with interrupted ones.
THEOREM NodesOwnedHolds ==
  ASSUME DistinctMarks
  PROVE  Spec => []NodesOwned
<1>1. Init => QueueInv /\ WokenInv
  BY QueueInvInductive, WokenInvInductive
<1>2. QueueInv /\ WokenInv /\ [Next]_vars => (QueueInv /\ WokenInv)'
  BY QueueInvInductive, WokenInvInductive
<1>3. QueueInv /\ WokenInv => NodesOwned
  <2>1. QueueProofs!Distinct /\ WokenProofs!Distinct
    BY DEF DistinctMarks, QueueProofs!Distinct, QueueProofs!Null, QueueProofs!Lock,
           WokenProofs!Distinct, WokenProofs!Null, WokenProofs!Lock, Queue!Null, Queue!Lock
  <2>2. QueueProofs!SInv => QueueProofs!NodesOwned
    BY <2>1, QueueProofs!InvOwned DEF QueueProofs!SInv
  <2>3. WokenProofs!SInv => WokenProofs!NodesOwned
    BY <2>1, WokenProofs!InvOwned DEF WokenProofs!SInv
  <2>4. QED BY <2>2, <2>3, QueueProperties DEF QueueInv, WokenInv, NodesOwned
<1>4. QED BY <1>1, <1>2, <1>3, PTL DEF Spec, vars

\* A waiter that sleeps in a phase that is over will be woken: its node or its
\* unpark is in the hands of a thread, or on a stack that a thread will come
\* to; as general as NodesOwnedHolds.
THEOREM NobodyStrandedHolds ==
  ASSUME DistinctMarks
  PROVE  Spec => []NobodyStranded
<1>1. Init => QueueInv /\ WokenInv
  BY QueueInvInductive, WokenInvInductive
<1>2. QueueInv /\ WokenInv /\ [Next]_vars => (QueueInv /\ WokenInv)'
  BY QueueInvInductive, WokenInvInductive
<1>3. QueueInv /\ WokenInv => NobodyStranded
  <2>1. QueueProofs!Distinct /\ WokenProofs!Distinct
    BY DEF DistinctMarks, QueueProofs!Distinct, QueueProofs!Null, QueueProofs!Lock,
           WokenProofs!Distinct, WokenProofs!Null, WokenProofs!Lock, Queue!Null, Queue!Lock
  <2>2. QueueProofs!SInv => QueueProofs!NobodyStranded
    BY <2>1, QueueProofs!InvStranded
  <2>3. WokenProofs!SInv => WokenProofs!NobodyStranded
    BY <2>1, WokenProofs!InvStranded
  <2>4. QED BY <2>2, <2>3, QueueProperties DEF QueueInv, WokenInv, NobodyStranded
<1>4. QED BY <1>1, <1>2, <1>3, PTL DEF Spec, vars

\* thread_data is not freed under a user, and rcu frees no version that a
\* reader still has, for any number of handles, readers and updaters.
THEOREM FreedUnusedHolds ==
  ASSUME IsFiniteSet(Handles), Qsbr!NoActor \notin Lockers
  PROVE  Spec => []FreedUnused
<1>1. Init => LifeInv /\ QsbrInv
  BY LifeInvInductive, QsbrInvInductive
<1>2. LifeInv /\ QsbrInv /\ [Next]_vars => (LifeInv /\ QsbrInv)'
  BY LifeInvInductive, QsbrInvInductive
<1>3. LifeInv /\ QsbrInv => FreedUnused
  <2>1. LifeProofs!IsFiniteSet(Handles)
    BY DEF IsFiniteSet, LifeProofs!IsFiniteSet
  <2>2. LifeProofs!TInv => Life!DataOutlivesUses
    BY DEF LifeProofs!TInv, LifeProofs!DataOutlivesUses, Life!DataOutlivesUses,
           LifeProofs!Attached, Life!Attached, LifeProofs!Alive, Life!Alive
  <2>3. LifeProofs!TInv => Life!DataFreed
    BY <2>1, LifeProofs!TInvFrees DEF LifeProofs!DataFreed, Life!DataFreed, LifeProofs!Alive, Life!Alive
  <2>4. QsbrProofs!RInv => Qsbr!GracePeriod
    BY DEF QsbrProofs!RInv, QsbrProofs!GracePeriod, Qsbr!GracePeriod
  <2>5. QED BY <2>2, <2>3, <2>4 DEF LifeInv, QsbrInv, FreedUnused
<1>4. QED BY <1>1, <1>2, <1>3, PTL DEF Spec, vars

\* A writer of shared_mutex is alone and no sleeper of a timed_mutex is
\* forgotten, for any finite set of threads and any number of calls.
THEOREM FutexSoundHolds ==
  ASSUME IsFiniteSet(Lockers)
  PROVE  Spec => []FutexSound
<1>1. Init => MutexInv
  BY MutexInvInductive
<1>2. MutexInv /\ [Next]_vars => MutexInv'
  BY MutexInvInductive
<1>3. MutexInv => FutexSound
  <2>1. MutexProofs!MInv => Mutex!SharedExclusion
    BY MutexProofs!MInvExcludes DEF MutexProofs!SharedExclusion, Mutex!SharedExclusion
  <2>2. MutexProofs!MInv => Mutex!NoSleeperForgotten
    BY MutexProofs!MInvForgetsNobody DEF MutexProofs!NoSleeperForgotten, Mutex!NoSleeperForgotten,
       MutexProofs!Involved, Mutex!Involved, MutexProofs!Pending, Mutex!Pending,
       MutexProofs!M, Mutex!M, MutexProofs!Locks, Mutex!Locks
  <2>3. QED BY <2>1, <2>2 DEF MutexInv, FutexSound
<1>4. QED BY <1>1, <1>2, <1>3, PTL DEF Spec, vars
=============================================================================
