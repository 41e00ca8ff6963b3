---------------------------- MODULE StampedLock ----------------------------
(***************************************************************************)
(* The state word of yesod/concurrent/stamped_lock.hpp: a version, an      *)
(* exclusive bit and a count of shared holders, with an overflow counter   *)
(* that is protected by the all-ones count.                                *)
(*                                                                         *)
(* The operations that never block are modelled: one action is one access  *)
(* to the word or to the overflow counter.  The blocking ones (lock,       *)
(* lock_shared, *_for, *_interruptibly) are unfinished in the source: they *)
(* enqueue on wait nodes whose create returns nullptr.                     *)
(***************************************************************************)
EXTENDS Integers, FiniteSets

CONSTANTS
  Threads,
  Versions,     \* 2^56, the number of values of the version field
  SharedMask,   \* state_shared_count_mask: the count that locks the overflow
  InitVersion,  \* version at the start of the run
  Ops,          \* the operations the clients call
  WeakCas,      \* compare_exchange_weak may fail spuriously
  MaxWrites,    \* bound: exclusive acquisitions
  Fuel          \* bound: Fuel[t]: operations t begins

AllOps == {"try_lock", "try_lock_shared", "try_access_shared",
           "to_exclusive", "to_shared", "to_shared_access",
           "unlock", "try_unlock", "unlock_shared", "try_unlock_shared"}

ASSUME LockAssumption ==
  /\ IsFiniteSet(Threads)
  /\ Versions \in Nat /\ Versions > 2
  /\ SharedMask \in Nat /\ SharedMask > 2
  /\ InitVersion \in 1 .. Versions - 1
  /\ Ops \subseteq AllOps
  /\ WeakCas \in BOOLEAN
  /\ MaxWrites \in Nat /\ MaxWrites < Versions - 1
  /\ Fuel \in [Threads -> Nat]

VARIABLES
  state,     \* the word
  overflow,  \* shared_count_overflow
  pc,        \* pc[t]: "idle" or the next access
  op,        \* op[t]: the operation t is in
  s,         \* s[t]: its local s
  next,      \* next[t]: the word it is about to store
  mode,      \* mode[t]: what t holds: "none", "opt", "shared", "excl"
  stamp,     \* stamp[t]: the stamp it was given for that
  fuel,
  writes,    \* history: exclusive acquisitions so far
  since,     \* history: since[t]: value of writes when t's stamp was taken
  thrown     \* history: thrown[t]: t's last operation threw logic_error

local == <<pc, op, s, next>>
held  == <<mode, stamp, writes, since, thrown>>
vars  == <<state, overflow, local, held, fuel>>

(***************************************************************************)
(* The word.                                                               *)
(***************************************************************************)
SharedMax == SharedMask - 1
Word == [ver : 0 .. Versions - 1, ex : BOOLEAN, count : 0 .. SharedMask]
MakeWord(v, x, c) == [ver |-> v, ex |-> x, count |-> c]
Zero == MakeWord(0, FALSE, 0)

stamp_of(w) == [w EXCEPT !.count = 0]
\* access_level_of(w) = 0.
Free(w) == ~w.ex /\ w.count = 0
Exclusive(w) == [w EXCEPT !.ex = TRUE]
Plus(w, n) == [w EXCEPT !.count = @ + n]

\* Mutant: the version is not moved on.
unlock_state_Same(w) == [w EXCEPT !.ex = FALSE]

\* Adding the exclusive bit to itself carries into the version, which skips
\* the word 0 that stands for failure.
unlock_state(w) ==
  MakeWord(IF w.ver = Versions - 1 /\ w.count = 0 THEN 1
           ELSE (w.ver + 1) % Versions, FALSE, w.count)

(***************************************************************************)
(* What an operation o of a thread with stamp g does with the word w it    *)
(* has loaded: fail, keep its stamp, throw, compare-and-swap or store a    *)
(* new word, or go through the overflow counter.                           *)
(***************************************************************************)
Do(what, w) == [what |-> what, word |-> w]

Acquire(w) == IF w.count < SharedMax THEN Do("cas", Plus(w, 1)) ELSE Do("inc", w)

\* Mutant: at the limit the count is decremented, not the counter.
Release_AtLimit(w) ==
  IF w.count <= SharedMax THEN Do("cas", Plus(w, -1)) ELSE Do("dec", w)
Release(w) == IF w.count < SharedMax THEN Do("cas", Plus(w, -1)) ELSE Do("dec", w)

\* Mutant: one shared holder among several may become exclusive.
ToExclusive_Crowded(g, w) ==
  IF stamp_of(w) # stamp_of(g) THEN Do("fail", w)
  ELSE CASE Free(w) /\ Free(g) -> Do("cas", Exclusive(w))
         [] w.ex /\ g.count = w.count -> Do("keep", w)
         [] ~w.ex /\ w.count > 0 /\ ~Free(g) -> Do("cas", Exclusive(Plus(w, -1)))
         [] OTHER -> Do("fail", w)

ToExclusive(g, w) ==
  IF stamp_of(w) # stamp_of(g) THEN Do("fail", w)
  ELSE CASE Free(w) /\ Free(g) -> Do("cas", Exclusive(w))
         [] w.ex /\ g.count = w.count -> Do("keep", w)
         [] ~w.ex /\ w.count = 1 /\ ~Free(g) -> Do("cas", Exclusive(Plus(w, -1)))
         [] OTHER -> Do("fail", w)

ToShared(g, w) ==
  IF stamp_of(w) # stamp_of(g) THEN Do("fail", w)
  ELSE CASE g.ex -> IF w = g THEN Do("store", Plus(unlock_state(w), 1))
                             ELSE Do("fail", w)
         [] Free(g) -> Acquire(w)
         [] OTHER -> Do(IF Free(w) THEN "fail" ELSE "keep", w)

ToSharedAccess(g, w) ==
  IF stamp_of(w) # stamp_of(g) THEN Do("fail", w)
  ELSE CASE g.ex -> IF w = g THEN Do("store", unlock_state(w)) ELSE Do("fail", w)
         [] Free(g) -> Do("keep", w)
         [] OTHER -> IF Free(w) THEN Do("fail", w) ELSE Release(w)

\* unlock_shared stores the decremented count alone: the version is lost.
UnlockShared(g, w) ==
  CASE stamp_of(w) # stamp_of(g) \/ g.count = 0 \/ w.count = 0 -> Do("throw", w)
    [] OTHER -> IF w.count < SharedMax THEN Do("cas", MakeWord(0, FALSE, w.count - 1))
                                       ELSE Do("dec", w)

TryLock(w) == IF Free(w) THEN Do("cas", Exclusive(w)) ELSE Do("fail", w)

TryLockShared(w) ==
  IF w.ex /\ w.count = 0 THEN Do("fail", w) ELSE Acquire(w)

TryAccessShared(w) == Do(IF w.ex THEN "fail" ELSE "keep", w)

Unlock(g, w) ==
  IF w # g \/ ~g.ex THEN Do("throw", w) ELSE Do("store", unlock_state(g))

TryUnlock(w) ==
  IF w.ex THEN Do("store", unlock_state(w)) ELSE Do("fail", w)

TryUnlockShared(w) ==
  IF Free(w) \/ w.ex THEN Do("fail", w) ELSE Release(w)

Decide(o, g, w) ==
  CASE o = "try_lock" -> TryLock(w)
    [] o = "try_lock_shared" -> TryLockShared(w)
    [] o = "try_access_shared" -> TryAccessShared(w)
    [] o = "to_exclusive" -> ToExclusive(g, w)
    [] o = "to_shared" -> ToShared(g, w)
    [] o = "to_shared_access" -> ToSharedAccess(g, w)
    [] o = "unlock" -> Unlock(g, w)
    [] o = "try_unlock" -> TryUnlock(w)
    [] o = "unlock_shared" -> UnlockShared(g, w)
    [] o = "try_unlock_shared" -> TryUnlockShared(w)

\* What the thread holds when the operation succeeds.
Grants(o) ==
  CASE o \in {"try_lock", "to_exclusive"} -> "excl"
    [] o \in {"try_lock_shared", "to_shared"} -> "shared"
    [] o \in {"try_access_shared", "to_shared_access"} -> "opt"
    [] OTHER -> "none"

\* Exclusive acquisitions made or under way.
Claimed ==
  writes + Cardinality({u \in Threads : op[u] \in {"try_lock", "to_exclusive"}})

\* The operations a client calls with what it holds.
Allowed(o, m) ==
  CASE o \in {"try_lock", "try_lock_shared", "try_access_shared"} -> m = "none"
    [] o \in {"to_exclusive", "to_shared", "to_shared_access"} -> m # "none"
    [] o \in {"unlock", "try_unlock"} -> m = "excl"
    [] OTHER -> m = "shared"

Init ==
  /\ state = MakeWord(InitVersion, FALSE, 0)
  /\ overflow = 0
  /\ pc = [t \in Threads |-> "idle"]
  /\ op = [t \in Threads |-> "none"]
  /\ s = [t \in Threads |-> Zero]
  /\ next = [t \in Threads |-> Zero]
  /\ mode = [t \in Threads |-> "none"]
  /\ stamp = [t \in Threads |-> Zero]
  /\ fuel = Fuel
  /\ writes = 0
  /\ since = [t \in Threads |-> 0]
  /\ thrown = [t \in Threads |-> FALSE]

validate(g) == stamp_of(g) = stamp_of(state)

(***************************************************************************)
(* The accesses.                                                           *)
(***************************************************************************)
Begin(t, o) ==
  /\ pc[t] = "idle" /\ fuel[t] > 0 /\ o \in Ops /\ Allowed(o, mode[t])
  /\ o \in {"try_lock", "to_exclusive"} => Claimed < MaxWrites
  /\ pc' = [pc EXCEPT ![t] = "load"]
  /\ op' = [op EXCEPT ![t] = o]
  /\ fuel' = [fuel EXCEPT ![t] = @ - 1]
  /\ UNCHANGED <<state, overflow, s, next, held>>

\* A client may forget an optimistic stamp.
Forget(t) ==
  /\ pc[t] = "idle" /\ mode[t] = "opt"
  /\ mode' = [mode EXCEPT ![t] = "none"]
  /\ stamp' = [stamp EXCEPT ![t] = Zero]
  /\ since' = [since EXCEPT ![t] = 0]
  /\ UNCHANGED <<state, overflow, local, fuel, writes, thrown>>

End(t) ==
  /\ pc' = [pc EXCEPT ![t] = "idle"]
  /\ op' = [op EXCEPT ![t] = "none"]
  /\ s' = [s EXCEPT ![t] = Zero]
  /\ next' = [next EXCEPT ![t] = Zero]

\* The operation succeeds and returns the stamp g.
Succeed(t, g) ==
  LET m == Grants(op[t])
      w == IF m = "excl" /\ mode[t] # "excl" THEN writes + 1 ELSE writes
  IN /\ End(t)
     /\ mode' = [mode EXCEPT ![t] = m]
     /\ stamp' = [stamp EXCEPT ![t] = IF m = "none" THEN Zero
                                      ELSE IF m = "opt" THEN stamp_of(g) ELSE g]
     /\ writes' = w
     /\ since' = [since EXCEPT ![t] = IF m = "none" THEN 0 ELSE w]
     /\ thrown' = [thrown EXCEPT ![t] = FALSE]

\* It returns 0, or throws logic_error.
Fail(t, x) ==
  /\ End(t)
  /\ thrown' = [thrown EXCEPT ![t] = x]
  /\ UNCHANGED <<mode, stamp, writes, since>>

\* The thread goes on to `label' with local s = w and the word n to store.
Goto(t, label, w, n) ==
  /\ pc' = [pc EXCEPT ![t] = label]
  /\ s' = [s EXCEPT ![t] = w]
  /\ next' = [next EXCEPT ![t] = n]
  /\ UNCHANGED <<op, held>>

\* The loop body, with s = w.
Loop(t, w) ==
  LET d == Decide(op[t], stamp[t], w)
  IN \/ d.what = "fail" /\ Fail(t, FALSE)
     \/ d.what = "throw" /\ Fail(t, TRUE)
     \/ d.what = "keep"
        /\ Succeed(t, IF op[t] = "try_access_shared" THEN w ELSE stamp[t])
     \/ d.what \in {"cas", "store"} /\ Goto(t, d.what, w, d.word)
     \/ /\ d.what \in {"inc", "dec"}
        /\ IF w.count = SharedMax /\ ~w.ex THEN Goto(t, d.what, w, Zero)
                                           ELSE Goto(t, "load", Zero, Zero)

Load(t) ==
  /\ pc[t] = "load"
  /\ Loop(t, state)
  /\ UNCHANGED <<state, overflow, fuel>>

\* compare_exchange: on failure s is reloaded, and try_lock gives up.
Cas(t) ==
  /\ pc[t] = "cas"
  /\ \/ /\ state = s[t]
        /\ state' = next[t]
        /\ Succeed(t, next[t])
     \/ /\ state # s[t] \/ (WeakCas /\ op[t] # "try_lock_shared")
        /\ UNCHANGED state
        /\ \/ op[t] = "try_lock" /\ Fail(t, FALSE)
           \/ op[t] = "to_shared_access" /\ Goto(t, "load", Zero, Zero)
           \/ op[t] \notin {"try_lock", "to_shared_access"} /\ Loop(t, state)
  /\ UNCHANGED <<overflow, fuel>>

\* state.store by the exclusive owner.
Store(t) ==
  /\ pc[t] = "store"
  /\ state' = next[t]
  /\ Succeed(t, next[t])
  /\ UNCHANGED <<overflow, fuel>>

\* try_inc_shared_overflow and try_dec_shared_overflow: the all-ones count
\* is the lock of the overflow counter.
LockOverflow(t) ==
  /\ pc[t] \in {"inc", "dec"}
  /\ \/ /\ state = s[t]
        /\ state' = [state EXCEPT !.count = SharedMask]
        /\ Goto(t, IF pc[t] = "inc" THEN "incr" ELSE "decr", s[t], Zero)
     \/ /\ state # s[t]
        /\ Goto(t, "load", Zero, Zero)
        /\ UNCHANGED state
  /\ UNCHANGED <<overflow, fuel>>

ChangeOverflow(t) ==
  /\ pc[t] \in {"incr", "decr"}
  /\ \/ /\ pc[t] = "incr"
        /\ overflow' = overflow + 1
        /\ Goto(t, "restore", s[t], s[t])
     \/ /\ pc[t] = "decr" /\ overflow > 0
        /\ overflow' = overflow - 1
        /\ Goto(t, "restore", s[t], s[t])
     \/ /\ pc[t] = "decr" /\ overflow = 0
        /\ Goto(t, "restore", s[t], Plus(s[t], -1))
        /\ UNCHANGED overflow
  /\ UNCHANGED <<state, fuel>>

\* Mutant: the word is left locked.
Restore_Locked(t) ==
  /\ pc[t] = "restore"
  /\ Succeed(t, next[t])
  /\ UNCHANGED <<state, overflow, fuel>>

Restore(t) ==
  /\ pc[t] = "restore"
  /\ state' = next[t]
  /\ Succeed(t, next[t])
  /\ UNCHANGED <<overflow, fuel>>

Run(t) ==
  Load(t) \/ Cas(t) \/ Store(t) \/ LockOverflow(t) \/ ChangeOverflow(t)
  \/ Restore(t)

Idle == (\A t \in Threads : pc[t] = "idle") /\ UNCHANGED vars

Next ==
  \/ \E t \in Threads : Run(t) \/ Forget(t) \/ \E o \in Ops : Begin(t, o)
  \/ Idle

Spec == Init /\ [][Next]_vars
FairSpec == Spec /\ \A t \in Threads : WF_vars(Run(t))

(***************************************************************************)
(* Properties.                                                             *)
(***************************************************************************)
Labels == {"idle", "load", "cas", "store", "inc", "dec", "incr", "decr",
           "restore"}
Modes == {"none", "opt", "shared", "excl"}

\* Every variable has its type: the overflow counter never goes below zero.
TypeOK ==
  /\ state \in Word
  /\ overflow \in Nat
  /\ pc \in [Threads -> Labels]
  /\ op \in [Threads -> AllOps \cup {"none"}]
  /\ s \in [Threads -> Word]
  /\ next \in [Threads -> Word]
  /\ mode \in [Threads -> Modes]
  /\ stamp \in [Threads -> Word]
  /\ fuel \in [Threads -> Nat]
  /\ writes \in Nat
  /\ since \in [Threads -> Nat]
  /\ thrown \in [Threads -> BOOLEAN]

Holders(m) == {t \in Threads : mode[t] = m}
Busy == \E t \in Threads : pc[t] \in {"incr", "decr", "restore"}

\* An exclusive holder is alone, however it became one, and the word says so.
Exclusion ==
  /\ state.ex <=> Holders("excl") # {}
  /\ \A t \in Holders("excl") :
       Holders("excl") = {t} /\ Holders("shared") = {} /\ state = stamp[t]

\* Outside the critical section of the overflow counter the count and the
\* counter together are the number of shared holders: none is forgotten at
\* the limit of the field, and the last release frees the word.
SharedCount ==
  ~Busy => /\ state.count + overflow = Cardinality(Holders("shared"))
           /\ overflow > 0 => state.count = SharedMax

\* validate: an optimistic stamp that still validates has seen no exclusive
\* holder since it was taken.
StampsFresh ==
  \A t \in Holders("opt") :
    validate(stamp[t]) => since[t] = writes

\* A holder's release is accepted: unlock and unlock_shared throw
\* "lock not exclusive" and "lock not shared" only at those who hold nothing.
ReleaseAccepted == \A t \in Threads : ~thrown[t]

\* Every operation ends: none is left spinning on a locked overflow counter.
OperationsEnd == \A t \in Threads : pc[t] # "idle" ~> pc[t] = "idle"
=============================================================================
