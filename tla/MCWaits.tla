------------------------------ MODULE MCWaits -------------------------------
(***************************************************************************)
(* What waits or owns in yesod and yesod.old: the wait queues of the       *)
(* phaser, the life of a thread's data, the ring, the futex mutexes and    *)
(* the RCU domain.  They share nothing; part says which one a behaviour is *)
(* about, and c1 .. c17 are its variables, in the order in which its       *)
(* module declares them; those it does not need rest.  The wait queues     *)
(* come twice: with timed waits (Kinds) that nobody interrupts, and with   *)
(* interruptible ones that are.                                            *)
(***************************************************************************)
EXTENDS Integers, TLC

CONSTANTS Waiters, Advancer, Kinds, Nodes, MaxPhase, Waits, Interrupts,
          Handles, Gets,
          Producers, Consumers, Order, Heads, Adds, Polls,
          Lockers, Calls,
          Updates, Turns

VARIABLES part, c1, c2, c3, c4, c5, c6, c7, c8, c9, c10, c11, c12, c13, c14, c15, c16, c17

Queue == INSTANCE PhaserWait
           WITH policy <- c1, phase <- c2, terminated <- c3, qhead <- c4, node <- c5,
                released <- c6, interrupted <- c7, held <- c8, asleep <- c9, v <- c10,
                waits <- c11, interrupts <- c12, broken <- c13, late <- c14,
                Interrupts <- 0
Woken == INSTANCE PhaserWait
           WITH policy <- c1, phase <- c2, terminated <- c3, qhead <- c4, node <- c5,
                released <- c6, interrupted <- c7, held <- c8, asleep <- c9, v <- c10,
                waits <- c11, interrupts <- c12, broken <- c13, late <- c14,
                Kinds <- {"interruptibly"}
Life  == INSTANCE ThreadLife
           WITH tdata <- c1, transient <- c2, use_count <- c3, data <- c4, child <- c5,
                native <- c6, terminated <- c7, gets <- c8
Ring  == INSTANCE RingFifo
           WITH head_start <- c1, head_end <- c2, tail <- c3, use_count <- c4, ring <- c5,
                ring_size <- c6, r <- c7, adds <- c8, polls <- c9, claimed <- c10,
                taken <- c11, dropped <- c12
Mutex == INSTANCE FutexMutex
           WITH locked <- c1, busy <- c2, sleeping <- c3, reader_count <- c4, pc <- c5,
                todo <- c6, mode <- c7, calls <- c8,
                Threads <- Lockers
Qsbr  == INSTANCE Rcu
           WITH count <- c1, lock <- c2, r_list <- c3, w_stack <- c4, rc <- c5, waiting <- c6,
                pc <- c7, seen <- c8, online <- c9, group <- c10, left <- c11, version <- c12,
                freed <- c13, ref <- c14, old <- c15, turns <- c16, updates <- c17,
                Actors <- Lockers

From15 == c15 = 0 /\ c16 = 0 /\ c17 = 0
From13 == c13 = 0 /\ c14 = 0 /\ From15
From9  == c9 = 0 /\ c10 = 0 /\ c11 = 0 /\ c12 = 0 /\ From13

Init ==
  \/ part = "queue" /\ Queue!Init /\ From15
  \/ part = "woken" /\ Woken!Init /\ From15
  \/ part = "life"  /\ Life!Init  /\ From9
  \/ part = "ring"  /\ Ring!Init  /\ From13
  \/ part = "mutex" /\ Mutex!Init /\ From9
  \/ part = "qsbr"  /\ Qsbr!Init

cells13 == <<c13, c14, c15, c16, c17>>
cells9  == <<c9, c10, c11, c12, cells13>>

Next ==
  /\ UNCHANGED part
  /\ \/ part = "queue" /\ Queue!Next /\ UNCHANGED <<c15, c16, c17>>
     \/ part = "woken" /\ Woken!Next /\ UNCHANGED <<c15, c16, c17>>
     \/ part = "life"  /\ Life!Next  /\ UNCHANGED cells9
     \/ part = "ring"  /\ Ring!Next  /\ UNCHANGED cells13
     \/ part = "mutex" /\ Mutex!Next /\ UNCHANGED cells9
     \/ part = "qsbr"  /\ Qsbr!Next

Spec == Init /\ [][Next]_<<part, c1, c2, c3, c4, c5, c6, c7, c8, cells9>>

Symmetry == Permutations(Waiters) \cup Permutations(Nodes) \cup Permutations(Lockers)

\* No node is lost or used after it is destroyed (wait_node_base).
NodesOwned == part \in {"queue", "woken"} => Queue!NodesOwned

\* No waiter is left asleep after its phase is over (internal_await_advance).
NobodyStranded == part \in {"queue", "woken"} => Queue!NobodyStranded

\* What has a user is not freed, and what has none is: thread_data while a
\* thread or a handle refers to it, a version while a reader of it is
\* between two quiescent states (thread_data_impl::release, join, detach;
\* rcu synchronize).
FreedUnused ==
  /\ part = "life" => Life!DataOutlivesUses /\ Life!DataFreed
  /\ part = "qsbr" => Qsbr!GracePeriod

\* Items leave the ring in the order in which they were claimed, and none
\* stays unpublished (poll; add's hand-over).
RingSound == part = "ring" => Ring!RingOrder /\ Ring!NothingUnpublished

\* A writer of shared_mutex is alone, and no sleeper on a timed_mutex is
\* forgotten (lock_shared, lock; unlock, lock_blocking).
FutexSound == part = "mutex" => Mutex!SharedExclusion /\ Mutex!NoSleeperForgotten
=============================================================================
