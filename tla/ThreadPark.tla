----------------------------- MODULE ThreadPark -----------------------------
(***************************************************************************)
(* Parking, unparking and interrupting a thread (thread_data in            *)
(* yesod/concurrent/thread.hpp).  One thread owns the thread_data and      *)
(* parks until a condition holds; other threads establish the condition    *)
(* and unpark it, unpark it for no reason, or interrupt it.                *)
(*                                                                         *)
(* One action is one access to flags, park_lock or park_cv.  The owner's   *)
(* loop around park is the one of the phaser's internal_await_advance: it  *)
(* looks at the condition before every call, and the callback looks again. *)
(***************************************************************************)
EXTENDS Integers

CONSTANTS
  Others,    \* the threads that call unpark and interrupt
  Owner,     \* the thread that parks
  NoThread,
  Calls      \* bound: calls each of the others makes

ASSUME ThreadsAssumption ==
  Owner \notin Others /\ NoThread \notin Others \cup {Owner} /\ Calls \in Nat

VARIABLES
  released,     \* FLAG_PARK_RELEASE
  interrupted,  \* FLAG_INTERRUPTED
  lock,         \* owner of park_lock
  waiting,      \* the owner is in park_cv's wait set
  goal,         \* what the owner waits for (the phase has advanced)
  pc,           \* next access of the owner
  timed,        \* the owner's call is park_for
  recheck,      \* its callback is is_releasable, not std::true_type
  expired,      \* park_cv.wait_for has reported a timeout
  upc,          \* upc[u]: next access of the other thread u
  calls         \* calls[u]: calls u may still make

flags == <<released, interrupted>>
owner == <<pc, timed, recheck, expired>>
vars  == <<flags, lock, waiting, goal, owner, upc, calls>>

Init ==
  /\ released = FALSE /\ interrupted = FALSE
  /\ lock = NoThread
  /\ waiting = FALSE
  /\ goal = FALSE
  /\ pc = "idle" /\ timed = FALSE /\ recheck = FALSE /\ expired = FALSE
  /\ upc = [u \in Others |-> "idle"]
  /\ calls = [u \in Others |-> Calls]

(***************************************************************************)
(* The owner.                                                              *)
(***************************************************************************)

\* The caller's loop: the condition holds, or park again.
Leave ==
  /\ pc = "idle" /\ goal
  /\ goal' = FALSE
  /\ UNCHANGED <<flags, lock, waiting, owner, upc, calls>>

park(tm, cb) ==
  /\ pc = "idle" /\ ~goal
  /\ pc' = "clear"
  /\ timed' = tm /\ recheck' = cb /\ expired' = FALSE
  /\ UNCHANGED <<flags, lock, waiting, goal, upc, calls>>

\* is_interrupted(true), between two calls.
is_interrupted ==
  /\ pc = "idle" /\ interrupted
  /\ interrupted' = FALSE
  /\ UNCHANGED <<released, lock, waiting, goal, owner, upc, calls>>

\* The first fetch_and consumes a release; either flag ends the call.
Clear ==
  /\ pc = "clear"
  /\ released' = FALSE
  /\ pc' = IF released \/ interrupted THEN "idle" ELSE "try"
  /\ UNCHANGED <<interrupted, lock, waiting, goal, timed, recheck, expired,
                 upc, calls>>

\* try_to_lock: somebody else holding park_lock ends the call.
TryLock ==
  /\ pc = "try"
  /\ \/ lock # NoThread /\ pc' = "idle" /\ UNCHANGED lock
     \/ lock = NoThread /\ pc' = "again" /\ lock' = Owner
  /\ UNCHANGED <<flags, waiting, goal, timed, recheck, expired, upc, calls>>

\* Mutant: the flag is not read again once park_lock is held.
ClearAgain_Unread ==
  /\ pc = "again"
  /\ released' = FALSE
  /\ pc' = IF recheck THEN "cb" ELSE "wait"
  /\ UNCHANGED <<interrupted, lock, waiting, goal, timed, recheck, expired,
                 upc, calls>>

\* The second fetch_and, under park_lock.
ClearAgain ==
  /\ pc = "again"
  /\ released' = FALSE
  /\ \/ released /\ pc' = "idle" /\ lock' = NoThread
     \/ ~released /\ pc' = (IF recheck THEN "cb" ELSE "wait") /\ UNCHANGED lock
  /\ UNCHANGED <<interrupted, waiting, goal, timed, recheck, expired, upc, calls>>

\* The callback: is_releasable reads the condition, then takes the interrupt,
\* which ends an interruptible wait.
Callback ==
  /\ pc = "cb"
  /\ pc' = IF goal THEN "skip" ELSE "poll"
  /\ UNCHANGED <<flags, lock, waiting, goal, timed, recheck, expired, upc, calls>>

Poll ==
  /\ pc = "poll"
  /\ interrupted' = FALSE
  /\ \/ pc' = "wait"
     \/ interrupted /\ pc' = "skip"
  /\ UNCHANGED <<released, lock, waiting, goal, timed, recheck, expired, upc, calls>>

\* park_cv.wait(lk): release park_lock and block, in one step.
Wait ==
  /\ pc = "wait"
  /\ lock' = NoThread
  /\ waiting' = TRUE
  /\ pc' = "blocked"
  /\ UNCHANGED <<flags, goal, timed, recheck, expired, upc, calls>>

\* A timeout of wait_for, or a spurious wake-up.
TimeOut ==
  /\ waiting /\ timed
  /\ waiting' = FALSE
  /\ expired' = TRUE
  /\ UNCHANGED <<flags, lock, goal, pc, timed, recheck, upc, calls>>

Spurious ==
  /\ waiting
  /\ waiting' = FALSE
  /\ UNCHANGED <<flags, lock, goal, owner, upc, calls>>

\* wait returns with park_lock held again.
Wake ==
  /\ pc = "blocked" /\ ~waiting /\ lock = NoThread
  /\ lock' = Owner
  /\ pc' = "skip"
  /\ UNCHANGED <<flags, waiting, goal, timed, recheck, expired, upc, calls>>

\* flags &= ~FLAG_PARK_RELEASE, and park_lock is released on return.
Finish ==
  /\ pc = "skip"
  /\ released' = FALSE
  /\ lock' = NoThread
  /\ pc' = "idle"
  /\ UNCHANGED <<interrupted, waiting, goal, timed, recheck, expired, upc, calls>>

(***************************************************************************)
(* The others.                                                             *)
(***************************************************************************)

\* Mutant: unpark sets the flag without park_lock.
Begin_Unlocked(u) ==
  /\ upc[u] = "idle" /\ calls[u] > 0
  /\ calls' = [calls EXCEPT ![u] = @ - 1]
  /\ upc' = [upc EXCEPT ![u] = "or"]

Begin(u) ==
  /\ upc[u] = "idle" /\ calls[u] > 0
  /\ calls' = [calls EXCEPT ![u] = @ - 1]
  /\ upc' = [upc EXCEPT ![u] = "lock"]

\* unpark, after establishing the condition or for no reason any more.
unpark(u) ==
  /\ Begin(u)
  /\ goal' \in {goal, TRUE}
  /\ UNCHANGED <<flags, lock, waiting, owner>>

\* Mutant: an interrupt only sets its flag.
interrupt_Quiet(u) ==
  /\ interrupted' = TRUE
  /\ upc[u] = "idle" /\ calls[u] > 0
  /\ calls' = [calls EXCEPT ![u] = @ - 1]
  /\ UNCHANGED <<released, lock, waiting, goal, owner, upc>>

\* Only the first interrupt unparks.
interrupt(u) ==
  /\ interrupted' = TRUE
  /\ IF interrupted
     THEN /\ upc[u] = "idle" /\ calls[u] > 0
          /\ calls' = [calls EXCEPT ![u] = @ - 1]
          /\ UNCHANGED upc
     ELSE Begin(u)
  /\ UNCHANGED <<released, lock, waiting, goal, owner>>

Lock(u) ==
  /\ upc[u] = "lock" /\ lock = NoThread
  /\ lock' = u
  /\ upc' = [upc EXCEPT ![u] = "or"]
  /\ UNCHANGED <<flags, waiting, goal, owner, calls>>

\* Mutant: the notification is sent only if the flag was already set.
SetRelease_Negated(u) ==
  /\ upc[u] = "or"
  /\ released' = TRUE
  /\ lock' = NoThread
  /\ upc' = [upc EXCEPT ![u] = IF released THEN "notify" ELSE "idle"]
  /\ UNCHANGED <<interrupted, waiting, goal, owner, calls>>

\* fetch_or under park_lock, and unlock; the one that set the flag notifies.
SetRelease(u) ==
  /\ upc[u] = "or"
  /\ released' = TRUE
  /\ lock' = NoThread
  /\ upc' = [upc EXCEPT ![u] = IF released THEN "idle" ELSE "notify"]
  /\ UNCHANGED <<interrupted, waiting, goal, owner, calls>>

Notify(u) ==
  /\ upc[u] = "notify"
  /\ waiting' = FALSE
  /\ upc' = [upc EXCEPT ![u] = "idle"]
  /\ UNCHANGED <<flags, lock, goal, owner, calls>>

OwnerStep ==
  \/ Leave \/ Clear \/ TryLock \/ ClearAgain \/ Callback \/ Poll \/ Wait
  \/ Wake \/ Finish
  \/ \E tm, cb \in BOOLEAN : park(tm, cb)

OtherStep(u) == Lock(u) \/ SetRelease(u) \/ Notify(u)

Environment ==
  \/ is_interrupted \/ TimeOut \/ Spurious
  \/ \E u \in Others : unpark(u) \/ interrupt(u)

Next == OwnerStep \/ Environment \/ \E u \in Others : OtherStep(u)

Spec == Init /\ [][Next]_vars

\* Threads are scheduled.  No call is owed, nor a timeout or a spurious
\* wake-up, nor park_lock to a thread that others keep overtaking.
FairSpec ==
  Spec /\ WF_vars(OwnerStep) /\ \A u \in Others : WF_vars(OtherStep(u))

(***************************************************************************)
(* Properties.                                                             *)
(***************************************************************************)
OwnerLabels == {"idle", "clear", "try", "again", "cb", "poll", "wait",
                "blocked", "skip"}

\* Every variable has its type, and park_lock is held exactly by the thread
\* that is inside one of its two critical sections.
TypeOK ==
  /\ released \in BOOLEAN /\ interrupted \in BOOLEAN
  /\ lock \in Others \cup {Owner, NoThread}
  /\ waiting \in BOOLEAN /\ goal \in BOOLEAN
  /\ pc \in OwnerLabels
  /\ timed \in BOOLEAN /\ recheck \in BOOLEAN /\ expired \in BOOLEAN
  /\ upc \in [Others -> {"idle", "lock", "or", "notify"}]
  /\ calls \in [Others -> Nat]
  /\ lock = Owner <=> pc \in {"again", "cb", "poll", "wait", "skip"}
  /\ \A u \in Others : lock = u <=> upc[u] = "or"

Coming(u) == upc[u] \in {"lock", "or"}

\* No wake-up is lost: while the owner is blocked, a release has its
\* notification still to come, and a condition or an interrupt that nobody
\* released it for yet has an unpark under way.
NoLostWakeup ==
  waiting =>
    /\ released => \E u \in Others : upc[u] = "notify"
    /\ goal \/ interrupted =>
         released \/ \E u \in Others : Coming(u)

\* The owner always gets to see a condition that was established: it is
\* never left blocked, nor in a loop that does not look at it.
GoalServed == goal ~> ~goal

\* An interrupted owner does not stay blocked.
InterruptServed == (waiting /\ interrupted) ~> ~waiting
=============================================================================
