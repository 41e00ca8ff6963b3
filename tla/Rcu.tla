-------------------------------- MODULE Rcu ---------------------------------
(***************************************************************************)
(* rcu_qsbr of yesod.old (cruft/yesod/rcu.hpp): readers announce quiescent *)
(* states by copying a counter; synchronize waits until every attached     *)
(* reader is offline or has copied the counter of a later grace period.    *)
(* Concurrent callers share one grace period: the one whose push finds the *)
(* stack empty leads, the others wait to be woken.                         *)
(*                                                                         *)
(* The clients publish a new version, synchronize, and free the old one.   *)
(* wait_for_readers never blocks on cond_var: its inner loop stays with    *)
(* one reader until that reader is quiescent.                              *)
(***************************************************************************)
EXTENDS Integers, FiniteSets

CONSTANTS
  Actors,
  Updates,     \* bound: versions published by each actor
  Turns        \* bound: attach, detach, suspend, resume and yield by each actor

NoActor == "nobody"

VARIABLES
  count, lock, r_list,
  w_stack,             \* waiting actors
  rc,                  \* rc[t]: the actor's counter, 0 when offline
  waiting,             \* waiting[t]: its state is WAITING
  pc, seen,            \* pc[t]: next access; seen[t]: a counter it has loaded
  online,              \* online[t]: was_online
  group,               \* group[t]: actors that share the grace period t leads
  left,                \* readers the leader still waits for
  version, freed,      \* history: the published version, the freed ones
  ref, old,            \* ref[t]: version t reads; old[t]: version t replaces
  turns, updates

shared == <<count, lock, r_list, w_stack, rc, waiting>>
local  == <<pc, seen, online, group, left>>
client == <<version, freed, ref, old>>
bounds == <<turns, updates>>
vars   == <<shared, local, client, bounds>>

Init ==
  /\ count = 1 /\ lock = NoActor /\ r_list = {} /\ w_stack = {}
  /\ rc = [t \in Actors |-> 0] /\ waiting = [t \in Actors |-> FALSE]
  /\ pc = [t \in Actors |-> "detached"]
  /\ seen = rc /\ online = waiting
  /\ group = [t \in Actors |-> {}] /\ left = {}
  /\ version = 1 /\ freed = {}
  /\ ref = rc /\ old = rc /\ turns = rc /\ updates = rc

At(t, label) == pc[t] = label
Goto(t, label) == pc' = [pc EXCEPT ![t] = label]
Turn(t) == turns[t] < Turns /\ turns' = [turns EXCEPT ![t] = @ + 1] /\ UNCHANGED updates

(***************************************************************************)
(* Readers.                                                                *)
(***************************************************************************)
attach(t) ==
  /\ At(t, "detached") /\ lock = NoActor /\ Turn(t)
  /\ r_list' = r_list \cup {t}
  /\ Goto(t, "resume")
  /\ UNCHANGED <<count, lock, w_stack, rc, waiting, seen, online, group, left, client>>

\* resume: load the counter, then store it.
LoadCount(t) ==
  /\ At(t, "resume") \/ At(t, "yield")
  /\ seen' = [seen EXCEPT ![t] = count]
  /\ Goto(t, "store")
  /\ UNCHANGED <<shared, online, group, left, client, bounds>>

StoreCount(t) ==
  /\ At(t, "store")
  /\ rc' = [rc EXCEPT ![t] = seen[t]]
  /\ Goto(t, "idle")
  /\ UNCHANGED <<count, lock, r_list, w_stack, waiting, seen, online, group, left, client, bounds>>

Read(t) ==
  /\ At(t, "idle") /\ rc[t] # 0 /\ ref[t] = 0
  /\ ref' = [ref EXCEPT ![t] = version]
  /\ UNCHANGED <<shared, local, version, freed, old, bounds>>

\* A quiescent state: the reader gives up its reference.
yield(t) ==
  /\ At(t, "idle") /\ rc[t] # 0 /\ Turn(t)
  /\ ref' = [ref EXCEPT ![t] = 0]
  /\ Goto(t, "yield")
  /\ UNCHANGED <<shared, seen, online, group, left, version, freed, old>>

suspend(t) ==
  /\ At(t, "idle") /\ rc[t] # 0 /\ Turn(t)
  /\ ref' = [ref EXCEPT ![t] = 0]
  /\ rc' = [rc EXCEPT ![t] = 0]
  /\ UNCHANGED <<count, lock, r_list, w_stack, waiting, local, version, freed, old>>

resume(t) ==
  /\ At(t, "idle") /\ rc[t] = 0 /\ Turn(t)
  /\ Goto(t, "resume")
  /\ UNCHANGED <<shared, seen, online, group, left, client>>

detach(t) ==
  /\ At(t, "idle") /\ rc[t] = 0 /\ lock = NoActor /\ Turn(t)
  /\ r_list' = r_list \ {t}
  /\ Goto(t, "detached")
  /\ UNCHANGED <<count, lock, w_stack, rc, waiting, seen, online, group, left, client>>

(***************************************************************************)
(* synchronize.                                                            *)
(***************************************************************************)
synchronize(t) ==
  /\ At(t, "idle") /\ updates[t] < Updates
  /\ updates' = [updates EXCEPT ![t] = @ + 1]
  /\ old' = [old EXCEPT ![t] = version]
  /\ version' = version + 1
  /\ ref' = [ref EXCEPT ![t] = 0]
  /\ online' = [online EXCEPT ![t] = rc[t] # 0]
  /\ rc' = [rc EXCEPT ![t] = 0]
  /\ waiting' = [waiting EXCEPT ![t] = TRUE]
  /\ Goto(t, "push")
  /\ UNCHANGED <<count, lock, r_list, w_stack, seen, group, left, freed, turns>>

\* The first on the stack leads.
Push(t) ==
  /\ At(t, "push")
  /\ w_stack' = w_stack \cup {t}
  /\ waiting' = [waiting EXCEPT ![t] = w_stack # {}]
  /\ Goto(t, IF w_stack = {} THEN "lead" ELSE "follow")
  /\ UNCHANGED <<count, lock, r_list, rc, seen, online, group, left, client, bounds>>

\* Mutant: no new grace period, the counter is not moved.
Lead_Late(t) ==
  /\ At(t, "lead") /\ lock = NoActor
  /\ lock' = t
  /\ left' = {u \in r_list : rc[u] # 0 /\ rc[u] # count}
  /\ group' = [group EXCEPT ![t] = w_stack] /\ w_stack' = {}
  /\ Goto(t, "wait")
  /\ UNCHANGED <<count, r_list, rc, waiting, seen, online, client, bounds>>

\* Under the lock: take the stack over, start a grace period.
Lead(t) ==
  /\ At(t, "lead") /\ lock = NoActor
  /\ lock' = t
  /\ group' = [group EXCEPT ![t] = w_stack] /\ w_stack' = {}
  /\ count' = IF r_list = {} THEN count ELSE count + 2
  /\ left' = r_list
  /\ Goto(t, "wait")
  /\ UNCHANGED <<r_list, rc, waiting, seen, online, client, bounds>>

\* wait_for_readers: one reader after the other is offline or has the counter.
wait_for_readers(t) ==
  /\ At(t, "wait")
  /\ \/ \E u \in left : (rc[u] = 0 \/ rc[u] = count) /\ left' = left \ {u}
                        /\ UNCHANGED <<pc, lock>>
     \/ left = {} /\ Goto(t, "wake") /\ lock' = NoActor /\ UNCHANGED left
  /\ UNCHANGED <<count, r_list, w_stack, rc, waiting, seen, online, group, client, bounds>>

\* The leader wakes its group and returns; they return by themselves.
Wake(t) ==
  /\ At(t, "wake")
  /\ \/ \E u \in group[t] : group' = [group EXCEPT ![t] = @ \ {u}]
                            /\ waiting' = [waiting EXCEPT ![u] = FALSE]
                            /\ UNCHANGED pc
     \/ group[t] = {} /\ Goto(t, "return") /\ UNCHANGED <<group, waiting>>
  /\ UNCHANGED <<count, lock, r_list, w_stack, rc, seen, online, left, client, bounds>>

busy_wait(t) ==
  /\ At(t, "follow") /\ ~waiting[t]
  /\ Goto(t, "return")
  /\ UNCHANGED <<shared, seen, online, group, left, client, bounds>>

\* Back in the client, which frees the version it replaced.
Return(t) ==
  /\ At(t, "return")
  /\ freed' = freed \cup {old[t]}
  /\ old' = [old EXCEPT ![t] = 0]
  /\ Goto(t, IF online[t] THEN "resume" ELSE "idle")
  /\ UNCHANGED <<shared, seen, online, group, left, version, ref, bounds>>

Step(t) ==
  \/ LoadCount(t) \/ StoreCount(t) \/ Push(t) \/ Lead(t) \/ wait_for_readers(t)
  \/ Wake(t) \/ busy_wait(t) \/ Return(t)

Begin(t) ==
  \/ attach(t) \/ Read(t) \/ yield(t) \/ suspend(t) \/ resume(t) \/ detach(t) \/ synchronize(t)

Next == \E t \in Actors : Step(t) \/ Begin(t)

Spec == Init /\ [][Next]_vars

(***************************************************************************)
(* Properties.                                                             *)
(***************************************************************************)

\* Grace periods are long enough: no reader holds a version that has been
\* freed, also when several synchronize share one grace period and readers
\* come online, go offline or attach in the middle of it.
GracePeriod == \A t \in Actors : ref[t] \notin freed
=============================================================================
