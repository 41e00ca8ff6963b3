----------------------------- MODULE RcuProofs -----------------------------
(***************************************************************************)
(* A grace period of Rcu is long enough, for any set of actors and any     *)
(* number of turns and updates.                                            *)
(***************************************************************************)
EXTENDS Rcu, TLAPS

Labels == {"detached", "resume", "yield", "store", "idle", "push", "lead", "follow",
           "wait", "wake", "return"}

\* Inside synchronize, with a version to free.
Updating(t) == pc[t] \in {"push", "lead", "follow", "wait", "wake", "return"}

TypeOK ==
  /\ count \in Nat /\ lock \in Actors \cup {NoActor}
  /\ r_list \subseteq Actors /\ w_stack \subseteq Actors /\ left \subseteq Actors
  /\ rc \in [Actors -> Nat] /\ seen \in [Actors -> Nat]
  /\ waiting \in [Actors -> BOOLEAN] /\ online \in [Actors -> BOOLEAN]
  /\ pc \in [Actors -> Labels]
  /\ group \in [Actors -> SUBSET Actors]
  /\ version \in Nat /\ version > 0 /\ freed \subseteq Nat
  /\ ref \in [Actors -> Nat] /\ old \in [Actors -> Nat]

\* Only an attached reader that is online and not between two of its steps
\* holds a version; what is replaced or freed is older than the current one.
Readers ==
  /\ \A u \in Actors : ref[u] # 0 => pc[u] = "idle" /\ rc[u] # 0 /\ u \in r_list
  /\ \A u \in Actors : pc[u] # "detached" => u \in r_list
  /\ \A u \in Actors : rc[u] <= count /\ seen[u] <= count
  /\ \A a \in Actors : Updating(a) => old[a] # 0 /\ old[a] < version
  /\ \A v \in freed : v # 0 /\ v < version

\* An updater that waits is on the stack or in the group of one leader, and
\* the stack has at most one leader to come.
Grouped ==
  /\ \A a \in w_stack : pc[a] = "lead" \/ (pc[a] = "follow" /\ waiting[a])
  /\ \A a \in Actors : pc[a] = "lead" => a \in w_stack
  /\ \A a, b \in Actors : pc[a] = "lead" /\ pc[b] = "lead" => a = b
  /\ \A l \in Actors : \A a \in group[l] :
       /\ pc[l] \in {"wait", "wake"}
       /\ a # l => pc[a] = "follow" /\ waiting[a]
       /\ a \notin w_stack
       /\ \A k \in Actors : a \in group[k] => k = l

\* The leader that waits has the lock, so nobody attaches or detaches and no
\* other grace period begins; whoever holds a version that it waits for has
\* not been seen quiescent yet, and does not have the new counter.
GraceUnderWay ==
  /\ \A l \in Actors : pc[l] = "wait" => lock = l
  /\ \A l \in Actors : pc[l] = "wait" => \A a \in group[l] \cup {l} :
       \A u \in Actors : ref[u] = old[a] => u \in left /\ rc[u] # count

\* The grace period of updater a is over: nobody holds what it replaced.
Over(a) ==
  \/ pc[a] \in {"wake", "return"}
  \/ pc[a] = "follow" /\ ~waiting[a]
  \/ \E l \in Actors : pc[l] = "wake" /\ a \in group[l]
GraceOver == \A a \in Actors : Over(a) => \A u \in Actors : ref[u] # old[a]

RInv ==
  /\ TypeOK /\ Readers /\ Grouped /\ GraceUnderWay /\ GraceOver
  /\ GracePeriod

\* A reader attaches: no grace period is under way.
LEMMA attachRInv ==
  ASSUME NoActor \notin Actors, RInv, NEW t \in Actors, attach(t)
  PROVE  RInv'
<1> USE DEF attach, At, Goto, Turn, shared, local, client, bounds
<1>1. TypeOK'
  BY DEF RInv, TypeOK, Labels
<1>2. Readers'
  BY DEF RInv, TypeOK, Readers, Updating
<1>3. Grouped'
  BY DEF RInv, TypeOK, Readers, Grouped, Labels
<1>4. GraceUnderWay'
  BY DEF RInv, TypeOK, Readers, Grouped, GraceUnderWay, Updating
<1>5. GraceOver'
  BY DEF RInv, TypeOK, Readers, Grouped, GraceUnderWay, GraceOver, Over, Updating
<1>6. GracePeriod'
  BY DEF RInv, TypeOK, Readers, GraceOver, Over, GracePeriod
<1>7. QED BY <1>1, <1>2, <1>3, <1>4, <1>5, <1>6 DEF RInv

\* A reader loads the counter.
LEMMA LoadCountRInv ==
  ASSUME NoActor \notin Actors, RInv, NEW t \in Actors, LoadCount(t)
  PROVE  RInv'
<1> USE DEF LoadCount, At, Goto, Turn, shared, local, client, bounds
<1>1. TypeOK'
  BY DEF RInv, TypeOK, Labels
<1>2. Readers'
  BY DEF RInv, TypeOK, Readers, Updating
<1>3. Grouped'
  BY DEF RInv, TypeOK, Readers, Grouped, Labels
<1>4. GraceUnderWay'
  BY DEF RInv, TypeOK, Readers, Grouped, GraceUnderWay, Updating
<1>5. GraceOver'
  BY DEF RInv, TypeOK, Readers, Grouped, GraceUnderWay, GraceOver, Over, Updating
<1>6. GracePeriod'
  BY DEF RInv, TypeOK, Readers, GraceOver, Over, GracePeriod
<1>7. QED BY <1>1, <1>2, <1>3, <1>4, <1>5, <1>6 DEF RInv

\* A reader announces the counter it has loaded, with no version in its hands.
LEMMA StoreCountRInv ==
  ASSUME NoActor \notin Actors, RInv, NEW t \in Actors, StoreCount(t)
  PROVE  RInv'
<1> USE DEF StoreCount, At, Goto, Turn, shared, local, client, bounds
<1>1. TypeOK'
  BY DEF RInv, TypeOK, Labels
<1>2. Readers'
  BY DEF RInv, TypeOK, Readers, Updating
<1>3. Grouped'
  BY DEF RInv, TypeOK, Readers, Grouped, Labels
<1>4. GraceUnderWay'
  BY DEF RInv, TypeOK, Readers, Grouped, GraceUnderWay, Updating
<1>5. GraceOver'
  BY DEF RInv, TypeOK, Readers, Grouped, GraceUnderWay, GraceOver, Over, Updating
<1>6. GracePeriod'
  BY DEF RInv, TypeOK, Readers, GraceOver, Over, GracePeriod
<1>7. QED BY <1>1, <1>2, <1>3, <1>4, <1>5, <1>6 DEF RInv

\* A reader takes the current version, which nobody has replaced.
LEMMA ReadRInv ==
  ASSUME NoActor \notin Actors, RInv, NEW t \in Actors, Read(t)
  PROVE  RInv'
<1> USE DEF Read, At, Goto, Turn, shared, local, client, bounds
<1>1. TypeOK'
  BY DEF RInv, TypeOK, Labels
<1>2. Readers'
  BY DEF RInv, TypeOK, Readers, Updating
<1>3. Grouped'
  BY DEF RInv, TypeOK, Readers, Grouped, Labels
<1>4. GraceUnderWay'
  BY DEF RInv, TypeOK, Readers, Grouped, GraceUnderWay, Updating
<1>5. GraceOver'
  BY DEF RInv, TypeOK, Readers, Grouped, GraceUnderWay, GraceOver, Over, Updating
<1>6. GracePeriod'
  BY DEF RInv, TypeOK, Readers, GraceOver, Over, GracePeriod
<1>7. QED BY <1>1, <1>2, <1>3, <1>4, <1>5, <1>6 DEF RInv

\* A reader passes a quiescent state.
LEMMA yieldRInv ==
  ASSUME NoActor \notin Actors, RInv, NEW t \in Actors, yield(t)
  PROVE  RInv'
<1> USE DEF yield, At, Goto, Turn, shared, local, client, bounds
<1>1. TypeOK'
  BY DEF RInv, TypeOK, Labels
<1>2. Readers'
  BY DEF RInv, TypeOK, Readers, Updating
<1>3. Grouped'
  BY DEF RInv, TypeOK, Readers, Grouped, Labels
<1>4. GraceUnderWay'
  BY DEF RInv, TypeOK, Readers, Grouped, GraceUnderWay, Updating
<1>5. GraceOver'
  BY DEF RInv, TypeOK, Readers, Grouped, GraceUnderWay, GraceOver, Over, Updating
<1>6. GracePeriod'
  BY DEF RInv, TypeOK, Readers, GraceOver, Over, GracePeriod
<1>7. QED BY <1>1, <1>2, <1>3, <1>4, <1>5, <1>6 DEF RInv

\* A reader goes offline.
LEMMA suspendRInv ==
  ASSUME NoActor \notin Actors, RInv, NEW t \in Actors, suspend(t)
  PROVE  RInv'
<1> USE DEF suspend, At, Goto, Turn, shared, local, client, bounds
<1>1. TypeOK'
  BY DEF RInv, TypeOK, Labels
<1>2. Readers'
  BY DEF RInv, TypeOK, Readers, Updating
<1>3. Grouped'
  BY DEF RInv, TypeOK, Readers, Grouped, Labels
<1>4. GraceUnderWay'
  BY DEF RInv, TypeOK, Readers, Grouped, GraceUnderWay, Updating
<1>5. GraceOver'
  BY DEF RInv, TypeOK, Readers, Grouped, GraceUnderWay, GraceOver, Over, Updating
<1>6. GracePeriod'
  BY DEF RInv, TypeOK, Readers, GraceOver, Over, GracePeriod
<1>7. QED BY <1>1, <1>2, <1>3, <1>4, <1>5, <1>6 DEF RInv

\* A reader comes online.
LEMMA resumeRInv ==
  ASSUME NoActor \notin Actors, RInv, NEW t \in Actors, resume(t)
  PROVE  RInv'
<1> USE DEF resume, At, Goto, Turn, shared, local, client, bounds
<1>1. TypeOK'
  BY DEF RInv, TypeOK, Labels
<1>2. Readers'
  BY DEF RInv, TypeOK, Readers, Updating
<1>3. Grouped'
  BY DEF RInv, TypeOK, Readers, Grouped, Labels
<1>4. GraceUnderWay'
  BY DEF RInv, TypeOK, Readers, Grouped, GraceUnderWay, Updating
<1>5. GraceOver'
  BY DEF RInv, TypeOK, Readers, Grouped, GraceUnderWay, GraceOver, Over, Updating
<1>6. GracePeriod'
  BY DEF RInv, TypeOK, Readers, GraceOver, Over, GracePeriod
<1>7. QED BY <1>1, <1>2, <1>3, <1>4, <1>5, <1>6 DEF RInv

\* A reader detaches: no grace period is under way.
LEMMA detachRInv ==
  ASSUME NoActor \notin Actors, RInv, NEW t \in Actors, detach(t)
  PROVE  RInv'
<1> USE DEF detach, At, Goto, Turn, shared, local, client, bounds
<1>1. TypeOK'
  BY DEF RInv, TypeOK, Labels
<1>2. Readers'
  BY DEF RInv, TypeOK, Readers, Updating
<1>3. Grouped'
  BY DEF RInv, TypeOK, Readers, Grouped, Labels
<1>4. GraceUnderWay'
  BY DEF RInv, TypeOK, Readers, Grouped, GraceUnderWay, Updating
<1>5. GraceOver'
  BY DEF RInv, TypeOK, Readers, Grouped, GraceUnderWay, GraceOver, Over, Updating
<1>6. GracePeriod'
  BY DEF RInv, TypeOK, Readers, GraceOver, Over, GracePeriod
<1>7. QED BY <1>1, <1>2, <1>3, <1>4, <1>5, <1>6 DEF RInv

\* An updater publishes a version.
LEMMA synchronizeRInv ==
  ASSUME NoActor \notin Actors, RInv, NEW t \in Actors, synchronize(t)
  PROVE  RInv'
<1> USE DEF synchronize, At, Goto, Turn, shared, local, client, bounds
<1>1. TypeOK'
  BY DEF RInv, TypeOK, Labels
<1>2. Readers'
  BY DEF RInv, TypeOK, Readers, Updating
<1>3. Grouped'
  BY DEF RInv, TypeOK, Readers, Grouped, Labels
<1>4. GraceUnderWay'
  BY DEF RInv, TypeOK, Readers, Grouped, GraceUnderWay, Updating
<1>5. GraceOver'
  BY DEF RInv, TypeOK, Readers, Grouped, GraceUnderWay, GraceOver, Over, Updating
<1>6. GracePeriod'
  BY DEF RInv, TypeOK, Readers, GraceOver, Over, GracePeriod
<1>7. QED BY <1>1, <1>2, <1>3, <1>4, <1>5, <1>6 DEF RInv

\* An updater joins the stack.
LEMMA PushRInv ==
  ASSUME NoActor \notin Actors, RInv, NEW t \in Actors, Push(t)
  PROVE  RInv'
<1> USE DEF Push, At, Goto, client, bounds
<1>1. TypeOK'
  BY DEF RInv, TypeOK, Labels
<1>2. Readers'
  BY DEF RInv, TypeOK, Readers, Updating
<1>3. pc[t] = "push" /\ t \notin w_stack /\ (\A l \in Actors : t \notin group[l])
  BY DEF RInv, Grouped
<1>4. GraceUnderWay'
  BY DEF RInv, TypeOK, Readers, Grouped, GraceUnderWay, Updating
<1>5. GracePeriod'
  BY DEF RInv, GracePeriod
<1>6. CASE w_stack = {}
  <2>1. /\ pc' = [pc EXCEPT ![t] = "lead"] /\ waiting' = [waiting EXCEPT ![t] = FALSE]
        /\ w_stack' = {t} /\ \A a \in Actors : pc[a] # "lead"
    <3>1. (w_stack # {}) = FALSE
      BY <1>6
    <3>2. waiting' = [waiting EXCEPT ![t] = FALSE]
      BY <3>1
    <3>3. w_stack' = {t} /\ \A a \in Actors : pc[a] # "lead"
      BY <1>6 DEF RInv, Grouped
    <3>4. QED BY <1>6, <3>2, <3>3
  <2>2. Grouped'
    BY <1>3, <2>1 DEF RInv, TypeOK, Grouped
  <2>3. GraceOver'
    BY <1>3, <2>1 DEF RInv, TypeOK, GraceOver, Over
  <2>4. QED BY <1>1, <1>2, <1>4, <1>5, <2>2, <2>3 DEF RInv
<1>7. CASE w_stack # {}
  <2>1. /\ pc' = [pc EXCEPT ![t] = "follow"] /\ waiting' = [waiting EXCEPT ![t] = TRUE]
        /\ w_stack' = w_stack \cup {t}
    <3>1. (w_stack # {}) = TRUE
      BY <1>7
    <3>2. waiting' = [waiting EXCEPT ![t] = TRUE]
      BY <3>1
    <3>3. QED BY <1>7, <3>2
  <2>2. Grouped'
    BY <1>3, <2>1 DEF RInv, TypeOK, Grouped
  <2>3. GraceOver'
    BY <1>3, <2>1 DEF RInv, TypeOK, GraceOver, Over
  <2>4. QED BY <1>1, <1>2, <1>4, <1>5, <2>2, <2>3 DEF RInv
<1>8. QED BY <1>6, <1>7

\* A leader takes the stack over: every reader of an old version is one it waits for.
LEMMA LeadRInv ==
  ASSUME NoActor \notin Actors, RInv, NEW t \in Actors, Lead(t)
  PROVE  RInv'
<1> USE DEF Lead, At, Goto, Turn, shared, local, client, bounds
<1>1. TypeOK'
  BY DEF RInv, TypeOK, Labels
<1>2. Readers'
  BY DEF RInv, TypeOK, Readers, Updating
<1>3. Grouped'
  BY DEF RInv, TypeOK, Readers, Grouped, Labels
<1>4. GraceUnderWay'
  BY DEF RInv, TypeOK, Readers, Grouped, GraceUnderWay, Updating
<1>5. GraceOver'
  BY DEF RInv, TypeOK, Readers, Grouped, GraceUnderWay, GraceOver, Over, Updating
<1>6. GracePeriod'
  BY DEF RInv, TypeOK, Readers, GraceOver, Over, GracePeriod
<1>7. QED BY <1>1, <1>2, <1>3, <1>4, <1>5, <1>6 DEF RInv

\* The leader has seen a reader quiescent, or all of them.
LEMMA wait_for_readersRInv ==
  ASSUME NoActor \notin Actors, RInv, NEW t \in Actors, wait_for_readers(t)
  PROVE  RInv'
<1> USE DEF wait_for_readers, At, Goto, Turn, shared, local, client, bounds
<1>1. TypeOK'
  BY DEF RInv, TypeOK, Labels
<1>2. Readers'
  BY DEF RInv, TypeOK, Readers, Updating
<1>3. Grouped'
  BY DEF RInv, TypeOK, Readers, Grouped, Labels
<1>4. GraceUnderWay'
  BY DEF RInv, TypeOK, Readers, Grouped, GraceUnderWay, Updating
<1>5. GraceOver'
  BY DEF RInv, TypeOK, Readers, Grouped, GraceUnderWay, GraceOver, Over, Updating
<1>6. GracePeriod'
  BY DEF RInv, TypeOK, Readers, GraceOver, Over, GracePeriod
<1>7. QED BY <1>1, <1>2, <1>3, <1>4, <1>5, <1>6 DEF RInv

\* A leader wakes one of its group.
LEMMA WakeRInv ==
  ASSUME NoActor \notin Actors, RInv, NEW t \in Actors, Wake(t)
  PROVE  RInv'
<1> USE DEF Wake, At, Goto, Turn, shared, local, client, bounds
<1>1. TypeOK'
  <2>1. CASE group[t] = {} /\ pc' = [pc EXCEPT ![t] = "return"] /\ UNCHANGED <<group, waiting>>
    BY <2>1 DEF RInv, TypeOK, Labels
  <2>2. ASSUME NEW u \in group[t], UNCHANGED pc,
               group' = [group EXCEPT ![t] = group[t] \ {u}],
               waiting' = [waiting EXCEPT ![u] = FALSE]
        PROVE  TypeOK'
    <3>1. group[t] \ {u} \in SUBSET Actors
      BY DEF RInv, TypeOK
    <3>2. group' \in [Actors -> SUBSET Actors] /\ waiting' \in [Actors -> BOOLEAN]
      BY <2>2, <3>1 DEF RInv, TypeOK
    <3>3. QED BY <2>2, <3>2 DEF RInv, TypeOK
  <2>3. QED BY <2>1, <2>2
<1>2. Readers'
  BY DEF RInv, TypeOK, Readers, Updating
<1>3. Grouped'
  BY DEF RInv, TypeOK, Readers, Grouped, Labels
<1>4. GraceUnderWay'
  BY DEF RInv, TypeOK, Readers, Grouped, GraceUnderWay, Updating
<1>5. GraceOver'
  BY DEF RInv, TypeOK, Readers, Grouped, GraceUnderWay, GraceOver, Over, Updating
<1>6. GracePeriod'
  BY DEF RInv, TypeOK, Readers, GraceOver, Over, GracePeriod
<1>7. QED BY <1>1, <1>2, <1>3, <1>4, <1>5, <1>6 DEF RInv

\* An updater has been woken.
LEMMA busy_waitRInv ==
  ASSUME NoActor \notin Actors, RInv, NEW t \in Actors, busy_wait(t)
  PROVE  RInv'
<1> USE DEF busy_wait, At, Goto, Turn, shared, local, client, bounds
<1>1. TypeOK'
  BY DEF RInv, TypeOK, Labels
<1>2. Readers'
  BY DEF RInv, TypeOK, Readers, Updating
<1>3. Grouped'
  BY DEF RInv, TypeOK, Readers, Grouped, Labels
<1>4. GraceUnderWay'
  BY DEF RInv, TypeOK, Readers, Grouped, GraceUnderWay, Updating
<1>5. GraceOver'
  BY DEF RInv, TypeOK, Readers, Grouped, GraceUnderWay, GraceOver, Over, Updating
<1>6. GracePeriod'
  BY DEF RInv, TypeOK, Readers, GraceOver, Over, GracePeriod
<1>7. QED BY <1>1, <1>2, <1>3, <1>4, <1>5, <1>6 DEF RInv

\* An updater frees the version it replaced.
LEMMA ReturnRInv ==
  ASSUME NoActor \notin Actors, RInv, NEW t \in Actors, Return(t)
  PROVE  RInv'
<1> USE DEF Return, At, Goto, Turn, shared, local, client, bounds
<1>1. TypeOK'
  BY DEF RInv, TypeOK, Labels
<1>2. Readers'
  BY DEF RInv, TypeOK, Readers, Updating
<1>3. Grouped'
  BY DEF RInv, TypeOK, Readers, Grouped, Labels
<1>4. GraceUnderWay'
  BY DEF RInv, TypeOK, Readers, Grouped, GraceUnderWay, Updating
<1>5. GraceOver'
  BY DEF RInv, TypeOK, Readers, Grouped, GraceUnderWay, GraceOver, Over, Updating
<1>6. GracePeriod'
  BY DEF RInv, TypeOK, Readers, GraceOver, Over, GracePeriod
<1>7. QED BY <1>1, <1>2, <1>3, <1>4, <1>5, <1>6 DEF RInv

(***************************************************************************)
(* The theorem.                                                            *)
(***************************************************************************)

\* At first nobody is attached.
LEMMA InitRInv ==
  ASSUME Init
  PROVE  RInv
<1>1. TypeOK
  BY DEF Init, TypeOK, Labels
<1>2. Readers /\ Grouped /\ GraceUnderWay /\ GraceOver /\ GracePeriod
  BY DEF Init, Readers, Grouped, GraceUnderWay, GraceOver, GracePeriod, Updating, Over
<1>3. QED BY <1>1, <1>2 DEF RInv

\* Every step keeps the invariant.
LEMMA NextRInv ==
  ASSUME NoActor \notin Actors, RInv, [Next]_vars
  PROVE  RInv'
<1>1. CASE UNCHANGED vars
  BY <1>1 DEF vars, shared, local, client, bounds, RInv, TypeOK, Readers, Grouped,
              GraceUnderWay, GraceOver, GracePeriod, Updating, Over
<1>2. ASSUME NEW t \in Actors, Step(t) PROVE RInv'
  BY <1>2, LoadCountRInv, StoreCountRInv, PushRInv, LeadRInv, wait_for_readersRInv,
     WakeRInv, busy_waitRInv, ReturnRInv DEF Step
<1>3. ASSUME NEW t \in Actors, Begin(t) PROVE RInv'
  BY <1>3, attachRInv, ReadRInv, yieldRInv, suspendRInv, resumeRInv, detachRInv,
     synchronizeRInv DEF Begin
<1>4. QED BY <1>1, <1>2, <1>3 DEF Next

\* synchronize: a version is freed only when no reader holds it any more,
\* whichever updaters share its grace period and whoever comes and goes.
THEOREM GracePeriodHolds ==
  ASSUME NoActor \notin Actors
  PROVE  Spec => []GracePeriod
<1>1. Init => RInv
  BY InitRInv
<1>2. RInv /\ [Next]_vars => RInv'
  BY NextRInv
<1>3. RInv => GracePeriod
  BY DEF RInv
<1>4. QED BY <1>1, <1>2, <1>3, PTL DEF Spec
=============================================================================
