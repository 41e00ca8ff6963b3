------------------------- MODULE StampedLockProofs -------------------------
(***************************************************************************)
(* Proofs about StampedLock, for every finite set of threads, every width  *)
(* of the version and of the count, and every set of operations without    *)
(* unlock_shared, whose store loses the version.                           *)
(***************************************************************************)
EXTENDS StampedLock, FiniteSetTheorems, TLAPS

(***************************************************************************)
(* What an operation is about to do.  Gains and Drops tell the operations  *)
(* that make their caller a shared holder from those that make it one no   *)
(* longer.                                                                 *)
(***************************************************************************)
Gains(o, m) == Grants(o) = "shared" /\ m \in {"none", "opt"}
Drops(o, m) == Grants(o) \in {"none", "opt"} /\ m = "shared"

\* The compare-and-swaps: a free word is claimed, the only shared holder
\* claims it, a holder is added below the limit, or one is taken away.
Claims(o, m, w, n) ==
  /\ Grants(o) = "excl" /\ m \in {"none", "opt"}
  /\ Free(w) /\ n = Exclusive(w)
Upgrades(o, m, w, n) ==
  /\ Grants(o) = "excl" /\ m = "shared"
  /\ ~w.ex /\ w.count = 1 /\ n = Exclusive(Plus(w, -1))
Adds(o, m, w, n) ==
  Gains(o, m) /\ ~w.ex /\ w.count < SharedMax /\ n = Plus(w, 1)
Removes(o, m, w, n) ==
  Drops(o, m) /\ ~w.ex /\ w.count > 0 /\ w.count < SharedMax /\ n = Plus(w, -1)
Swaps(o, m, w, n) ==
  Claims(o, m, w, n) \/ Upgrades(o, m, w, n) \/ Adds(o, m, w, n) \/ Removes(o, m, w, n)

\* The stores of an exclusive holder.
Leaves(o, m, w, n) ==
  /\ m = "excl" /\ w.ex
  /\ \/ Grants(o) \in {"none", "opt"} /\ n = unlock_state(w)
     \/ Grants(o) = "shared" /\ n = Plus(unlock_state(w), 1)

\* The operations that succeed without a store.
Keeps(o, m, g, w) ==
  \/ Grants(o) = "excl" /\ m = "excl"
  \/ Grants(o) = "shared" /\ m = "shared"
  \/ Grants(o) = "opt" /\ m = "none" /\ ~w.ex /\ o = "try_access_shared"
  \/ Grants(o) = "opt" /\ m = "opt" /\ ~w.ex /\ o # "try_access_shared" /\ g.ver = w.ver

(***************************************************************************)
(* The inductive invariant.                                                *)
(***************************************************************************)
AtLimit(w) == ~w.ex /\ w.count = SharedMax

StampShape(m, g) ==
  /\ m = "opt" => Free(g)
  /\ m = "shared" => ~g.ex /\ g.count > 0
  /\ m = "excl" => g.ex /\ g.count = 0

\* What t's own variables say about each other: the word it wants to store
\* is the one its operation makes of its local s.
Local(t) ==
  /\ pc[t] = "idle" <=> op[t] = "none"
  /\ pc[t] # "idle" => op[t] \in Ops /\ Allowed(op[t], mode[t])
  /\ s[t].ex => s[t].count = 0
  /\ StampShape(mode[t], stamp[t])
  /\ pc[t] = "cas" => Swaps(op[t], mode[t], s[t], next[t])
  /\ pc[t] = "store" => s[t] = stamp[t] /\ Leaves(op[t], mode[t], s[t], next[t])
  /\ pc[t] \in {"inc", "incr"} => Gains(op[t], mode[t]) /\ AtLimit(s[t])
  /\ pc[t] \in {"dec", "decr"} => Drops(op[t], mode[t]) /\ AtLimit(s[t])
  /\ pc[t] = "restore" =>
       /\ Gains(op[t], mode[t]) \/ Drops(op[t], mode[t])
       /\ ~next[t].ex /\ next[t].count \in 1 .. SharedMax

\* The word is exclusive exactly while somebody holds it so, with its stamp.
Owned ==
  /\ state.ex => state.count = 0
  /\ state.ex => \E t \in Threads : mode[t] = "excl"
  /\ \A t \in Threads : mode[t] = "excl" => state = stamp[t]
  /\ \A t, u \in Threads : mode[t] = "excl" /\ mode[u] = "excl" => t = u

Inside(t) == pc[t] \in {"incr", "decr", "restore"}
Sharers == Cardinality(Holders("shared"))

\* The all-ones count is a lock with one holder, who knows the number of
\* shared holders from before and after its change of the counter.
Counted ==
  /\ \A t \in Threads : Inside(t) => ~state.ex /\ state.count = SharedMask
  /\ \A t, u \in Threads : Inside(t) /\ Inside(u) => t = u
  /\ state.count = SharedMask => Busy
  /\ SharedCount
  /\ \A t \in Threads :
       pc[t] \in {"incr", "decr"} => SharedMax + overflow = Sharers /\ s[t].ver = state.ver
  /\ \A t \in Threads : pc[t] = "restore" =>
       /\ next[t].count + overflow
            = IF Gains(op[t], mode[t]) THEN Sharers + 1 ELSE Sharers - 1
       /\ overflow > 0 => next[t].count = SharedMax
       /\ next[t].ver = state.ver

\* The version after k exclusive acquisitions: it skips 0 when it wraps.
VerAt(k) ==
  IF InitVersion + k < Versions THEN InitVersion + k
                                ELSE InitVersion + k - (Versions - 1)

Writers == {t \in Threads : op[t] \in {"try_lock", "to_exclusive"}}

\* The version counts the exclusive acquisitions that are over.
Versioned ==
  /\ writes + Cardinality(Writers) <= MaxWrites
  /\ state.ex => writes > 0
  /\ state.ver = VerAt(IF state.ex THEN writes - 1 ELSE writes)
  /\ \A t \in Threads : mode[t] = "opt" => since[t] <= writes /\ stamp[t].ver = VerAt(since[t])

SoundOps == "unlock_shared" \notin Ops

LInv ==
  /\ SoundOps
  /\ TypeOK
  /\ \A t \in Threads : Local(t)
  /\ Owned
  /\ Counted
  /\ Versioned

(***************************************************************************)
(* Words and versions.                                                     *)
(***************************************************************************)

\* The word after the elementary changes.
LEMMA WordOps ==
  ASSUME NEW w \in Word
  PROVE  /\ Exclusive(w) \in Word
         /\ Exclusive(w).ver = w.ver /\ Exclusive(w).ex /\ Exclusive(w).count = w.count
         /\ stamp_of(w) \in Word
         /\ stamp_of(w).ver = w.ver /\ stamp_of(w).ex = w.ex /\ stamp_of(w).count = 0
         /\ \A n \in Int : /\ w.count + n \in 0 .. SharedMask => Plus(w, n) \in Word
                           /\ Plus(w, n).ver = w.ver /\ Plus(w, n).ex = w.ex
                           /\ Plus(w, n).count = w.count + n
         /\ w.count < SharedMask => Plus(w, 1) \in Word
         /\ w.count > 0 => Plus(w, -1) \in Word
<1>1. w.ver \in 0 .. Versions - 1 /\ w.ex \in BOOLEAN /\ w.count \in 0 .. SharedMask
  BY DEF Word
<1>2. SharedMask \in Nat /\ 0 \in 0 .. SharedMask
  BY LockAssumption
<1>3. /\ Exclusive(w) \in Word
      /\ Exclusive(w).ver = w.ver /\ Exclusive(w).ex /\ Exclusive(w).count = w.count
  BY <1>1 DEF Word, Exclusive
<1>4. /\ stamp_of(w) \in Word
      /\ stamp_of(w).ver = w.ver /\ stamp_of(w).ex = w.ex /\ stamp_of(w).count = 0
  BY <1>1, <1>2 DEF Word, stamp_of
<1>5. \A n \in Int : /\ w.count + n \in 0 .. SharedMask => Plus(w, n) \in Word
                     /\ Plus(w, n).ver = w.ver /\ Plus(w, n).ex = w.ex
                     /\ Plus(w, n).count = w.count + n
  BY <1>1 DEF Word, Plus
<1>6. w.count < SharedMask => w.count + 1 \in 0 .. SharedMask
  BY <1>1, <1>2
<1>7. w.count > 0 => w.count + (-1) \in 0 .. SharedMask
  BY <1>1, <1>2
<1>8. 1 \in Int /\ -1 \in Int
  OBVIOUS
<1>9. QED BY <1>3, <1>4, <1>5, <1>6, <1>7, <1>8

\* Unlocking an exclusive word moves its version on, past 0.
LEMMA UnlockWord ==
  ASSUME NEW w \in Word, w.count = 0
  PROVE  unlock_state(w) =
           MakeWord(IF w.ver = Versions - 1 THEN 1 ELSE w.ver + 1, FALSE, 0)
<1>1. w.ver \in 0 .. Versions - 1 /\ Versions \in Nat /\ Versions > 2
  BY LockAssumption DEF Word
<1>2. w.ver # Versions - 1 => (w.ver + 1) % Versions = w.ver + 1
  <2> SUFFICES ASSUME w.ver # Versions - 1 PROVE (w.ver + 1) % Versions = w.ver + 1
    OBVIOUS
  <2>1. w.ver + 1 \in 0 .. Versions - 1
    BY <1>1
  <2>2. QED BY <1>1, <2>1, SMT
<1>3. QED BY <1>1, <1>2 DEF unlock_state, MakeWord

\* It is the next version of the history.
LEMMA NextVersion ==
  ASSUME NEW k \in Nat, k < MaxWrites
  PROVE  VerAt(k + 1) = IF VerAt(k) = Versions - 1 THEN 1 ELSE VerAt(k) + 1
  BY LockAssumption DEF VerAt

\* Different numbers of acquisitions show as different versions.
LEMMA VersionsDiffer ==
  ASSUME NEW j \in Nat, NEW k \in Nat, j <= MaxWrites, k <= MaxWrites, VerAt(j) = VerAt(k)
  PROVE  j = k
  BY LockAssumption DEF VerAt

(***************************************************************************)
(* What the operations decide.                                             *)
(***************************************************************************)

\* The word an operation stores is one of the few that its caller may store.
LEMMA DecideFacts ==
  ASSUME SoundOps, NEW o \in Ops, NEW m \in Modes, Allowed(o, m),
         NEW w \in Word, w.ex => w.count = 0, NEW g \in Word, StampShape(m, g),
         m = "excl" => w = g
  PROVE  LET d == Decide(o, g, w)
         IN  /\ d.word \in Word
             /\ d.what = "cas" => Swaps(o, m, w, d.word)
             /\ d.what = "store" => Leaves(o, m, w, d.word) /\ m = "excl"
             /\ d.what = "inc" => Gains(o, m)
             /\ d.what = "dec" => Drops(o, m)
             /\ d.what = "keep" => Keeps(o, m, g, w)
<1>0. o \in AllOps /\ o # "unlock_shared"
  BY LockAssumption DEF SoundOps
<1>1. SharedMask \in Nat /\ SharedMask > 2 /\ SharedMax = SharedMask - 1 /\ SharedMax \in Nat
  BY LockAssumption DEF SharedMax
<1>2. w.ver \in 0 .. Versions - 1 /\ w.ex \in BOOLEAN /\ w.count \in 0 .. SharedMask
  BY DEF Word
<1>3. g.ver \in 0 .. Versions - 1 /\ g.ex \in BOOLEAN /\ g.count \in 0 .. SharedMask
  BY DEF Word
<1>4. \A x \in Word : /\ Exclusive(x) \in Word
                      /\ x.count < SharedMask => Plus(x, 1) \in Word
                      /\ x.count > 0 => Plus(x, -1) \in Word
  BY WordOps
<1>5. m = "excl" => /\ w.count = 0 /\ unlock_state(w) \in Word
                    /\ unlock_state(w).count = 0 /\ Plus(unlock_state(w), 1) \in Word
  <2> SUFFICES ASSUME m = "excl"
               PROVE  /\ w.count = 0 /\ unlock_state(w) \in Word
                      /\ unlock_state(w).count = 0 /\ Plus(unlock_state(w), 1) \in Word
    OBVIOUS
  <2>1. w.count = 0
    BY DEF StampShape
  <2>2. unlock_state(w) \in Word /\ unlock_state(w).count = 0
    <3>1. (IF w.ver = Versions - 1 THEN 1 ELSE w.ver + 1) \in 0 .. Versions - 1
      BY <1>2, LockAssumption
    <3>2. 0 \in 0 .. SharedMask
      BY <1>1
    <3> DEFINE v == IF w.ver = Versions - 1 THEN 1 ELSE w.ver + 1
    <3>3. unlock_state(w) = MakeWord(v, FALSE, 0)
      BY <2>1, UnlockWord
    <3> HIDE DEF v
    <3>4. MakeWord(v, FALSE, 0) \in Word /\ MakeWord(v, FALSE, 0).count = 0
      BY <3>1, <3>2 DEF Word, MakeWord, v
    <3>5. QED BY <3>3, <3>4
  <2>3. QED BY <1>1, <1>4, <2>1, <2>2
<1>6. stamp_of(w) = stamp_of(g) => w.ver = g.ver /\ w.ex = g.ex
  BY DEF stamp_of, Word
<1> USE DEF Do, Allowed, Grants, StampShape, Free
<1>7. CASE o = "try_lock"
  BY <1>2, <1>4, <1>7 DEF Decide, TryLock, Swaps, Claims, Modes
<1>8. CASE o = "try_lock_shared"
  BY <1>1, <1>2, <1>4, <1>8 DEF Decide, TryLockShared, Acquire, Swaps, Adds, Gains, Modes
<1>9. CASE o = "try_access_shared"
  BY <1>2, <1>9 DEF Decide, TryAccessShared, Keeps, Modes
<1>10. CASE o = "to_exclusive"
  <2>1. Decide(o, g, w) = ToExclusive(g, w)
    BY <1>10 DEF Decide
  <2>2. w.count = 1 => Exclusive(Plus(w, -1)) \in Word
    BY <1>4, <1>2
  <2>3. QED BY <1>2, <1>3, <1>4, <1>6, <1>10, <2>1, <2>2
            DEF ToExclusive, Swaps, Claims, Upgrades, Keeps, Modes
<1>11. CASE o = "to_shared"
  <2>1. Decide(o, g, w) = ToShared(g, w)
    BY <1>11 DEF Decide
  <2>2. QED BY <1>1, <1>2, <1>3, <1>4, <1>5, <1>6, <1>11, <2>1
            DEF ToShared, Acquire, Swaps, Adds, Gains, Leaves, Keeps, Modes
<1>12. CASE o = "to_shared_access"
  <2>1. Decide(o, g, w) = ToSharedAccess(g, w)
    BY <1>12 DEF Decide
  <2>2. QED BY <1>1, <1>2, <1>3, <1>4, <1>5, <1>6, <1>12, <2>1
            DEF ToSharedAccess, Release, Swaps, Removes, Drops, Leaves, Keeps, Modes
<1>13. CASE o = "unlock"
  BY <1>5, <1>13 DEF Decide, Unlock, Leaves, Modes
<1>14. CASE o = "try_unlock"
  BY <1>5, <1>14 DEF Decide, TryUnlock, Leaves, Modes
<1>15. CASE o = "try_unlock_shared"
  BY <1>1, <1>2, <1>4, <1>15 DEF Decide, TryUnlockShared, Release, Swaps, Removes, Drops, Modes
<1>16. QED BY <1>0, <1>7, <1>8, <1>9, <1>10, <1>11, <1>12, <1>13, <1>14, <1>15 DEF AllOps

(***************************************************************************)
(* Counting holders and writers.                                           *)
(***************************************************************************)

\* Both counts are numbers.
LEMMA CountsType ==
  /\ IsFiniteSet(Holders("shared")) /\ Sharers \in Nat
  /\ IsFiniteSet(Writers) /\ Cardinality(Writers) \in Nat
<1>1. Holders("shared") \in SUBSET Threads /\ Writers \in SUBSET Threads
  BY DEF Holders, Writers
<1>2. IsFiniteSet(Holders("shared")) /\ IsFiniteSet(Writers)
  BY <1>1, LockAssumption, FS_Subset
<1>3. QED BY <1>2, FS_CardinalityType DEF Sharers

\* One thread that changes what it holds changes the number of shared
\* holders by at most one.
LEMMA SharersChange ==
  ASSUME TypeOK, NEW t \in Threads, NEW m, mode' = [mode EXCEPT ![t] = m]
  PROVE  /\ (mode[t] = "shared" <=> m = "shared") => Sharers' = Sharers
         /\ mode[t] # "shared" /\ m = "shared" => Sharers' = Sharers + 1
         /\ mode[t] = "shared" /\ m # "shared" => Sharers' = Sharers - 1 /\ Sharers > 0
<1>1. \A u \in Threads : mode'[u] = IF u = t THEN m ELSE mode[u]
  BY DEF TypeOK
<1>2. ASSUME mode[t] = "shared" <=> m = "shared" PROVE Sharers' = Sharers
  <2>1. Holders("shared")' = Holders("shared")
    BY <1>1, <1>2 DEF Holders
  <2>2. QED BY <2>1 DEF Sharers
<1>3. ASSUME mode[t] # "shared", m = "shared" PROVE Sharers' = Sharers + 1
  <2>1. Holders("shared")' = Holders("shared") \cup {t} /\ t \notin Holders("shared")
    BY <1>1, <1>3 DEF Holders
  <2>2. QED BY <2>1, CountsType, FS_AddElement DEF Sharers
<1>4. ASSUME mode[t] = "shared", m # "shared"
      PROVE  Sharers' = Sharers - 1 /\ Sharers > 0
  <2>1. Holders("shared")' = Holders("shared") \ {t} /\ t \in Holders("shared")
    BY <1>1, <1>4 DEF Holders
  <2>2. Sharers' = Sharers - 1
    BY <2>1, CountsType, FS_RemoveElement DEF Sharers
  <2>3. Sharers # 0
    BY <2>1, CountsType, FS_EmptySet DEF Sharers
  <2>4. QED BY <2>2, <2>3, CountsType
<1>5. QED BY <1>2, <1>3, <1>4

\* An operation that ends gives its claim up.
LEMMA WritersEnd ==
  ASSUME TypeOK, NEW t \in Threads, op' = [op EXCEPT ![t] = "none"]
  PROVE  /\ Cardinality(Writers') <= Cardinality(Writers)
         /\ op[t] \in {"try_lock", "to_exclusive"} =>
              Cardinality(Writers') = Cardinality(Writers) - 1
<1>1. Writers' = Writers \ {t}
  BY DEF TypeOK, Writers
<1>2. t \in Writers <=> op[t] \in {"try_lock", "to_exclusive"}
  BY DEF Writers
<1>3. Cardinality(Writers') = IF t \in Writers THEN Cardinality(Writers) - 1
                                              ELSE Cardinality(Writers)
  BY <1>1, CountsType, FS_RemoveElement
<1>4. QED BY <1>2, <1>3, CountsType

(***************************************************************************)
(* Steps that change one thread's local variables only.                    *)
(***************************************************************************)
OthersRest(t) ==
  \A u \in Threads : u # t => /\ pc'[u] = pc[u] /\ op'[u] = op[u]
                              /\ s'[u] = s[u] /\ next'[u] = next[u]

\* The counts stay right when the word, the counter and the number of shared
\* holders do.
LEMMA CountedSame ==
  ASSUME LInv, NEW t \in Threads, UNCHANGED <<state, overflow>>, OthersRest(t),
         \A u \in Threads : u # t => mode'[u] = mode[u],
         Sharers' = Sharers, ~Inside(t), ~Inside(t)'
  PROVE  Counted'
<1>1. \A u \in Threads : Inside(u)' <=> Inside(u)
  BY DEF OthersRest, Inside
<1>2. Busy' <=> Busy
  BY <1>1 DEF Busy, Inside
<1>3. /\ \A u \in Threads : Inside(u) => ~state.ex /\ state.count = SharedMask
      /\ \A u, v \in Threads : Inside(u) /\ Inside(v) => u = v
      /\ state.count = SharedMask => Busy
  BY DEF LInv, Counted
<1>4. SharedCount'
  BY <1>2 DEF LInv, Counted, SharedCount, Sharers, SharedMax
<1>5. \A u \in Threads :
        pc'[u] \in {"incr", "decr"} => SharedMax + overflow = Sharers /\ s'[u].ver = state.ver
  BY <1>1 DEF LInv, Counted, OthersRest, Inside
<1>6. \A u \in Threads : pc'[u] = "restore" =>
        /\ next'[u].count + overflow
             = IF Gains(op'[u], mode'[u]) THEN Sharers + 1 ELSE Sharers - 1
        /\ overflow > 0 => next'[u].count = SharedMax
        /\ next'[u].ver = state.ver
  <2> TAKE u \in Threads
  <2>1. pc'[u] = "restore" => u # t
    BY DEF Inside
  <2>2. QED BY <2>1 DEF LInv, Counted, OthersRest
<1>7. QED BY <1>1, <1>2, <1>3, <1>4, <1>5, <1>6 DEF Counted, SharedMax, Gains

\* They are right when nobody is inside and the word says so.
LEMMA CountedFree ==
  ASSUME NEW t \in Threads, \A u \in Threads : u # t => ~Inside(u),
         OthersRest(t), ~Inside(t)', state'.count # SharedMask,
         state'.count + overflow' = Sharers', overflow' > 0 => state'.count = SharedMax
  PROVE  Counted'
<1>1. \A u \in Threads : ~Inside(u)'
  BY DEF OthersRest, Inside
<1>2. SharedCount'
  BY DEF SharedCount, Sharers, SharedMax
<1>3. QED BY <1>1, <1>2 DEF Counted, Inside

\* Looking at the word, giving up and going on leave the lock as it is.
LEMMA Quiet ==
  ASSUME LInv, NEW t \in Threads, TypeOK',
         UNCHANGED <<state, overflow, mode, stamp, writes, since>>,
         OthersRest(t), Local(t)', ~Inside(t), ~Inside(t)',
         writes + Cardinality(Writers') <= MaxWrites
  PROVE  LInv'
<1>1. \A u \in Threads : Local(u)'
  BY DEF LInv, Local, OthersRest
<1>2. Owned'
  BY DEF LInv, Owned
<1>3. Sharers' = Sharers
  BY DEF Sharers, Holders
<1>4. Counted'
  BY <1>3, CountedSame
<1>5. Versioned'
  BY DEF LInv, Versioned
<1>6. QED BY <1>1, <1>2, <1>4, <1>5 DEF LInv, SoundOps

\* An operation begins.
LEMMA BeginLInv ==
  ASSUME LInv, NEW t \in Threads, NEW o \in Ops, Begin(t, o)
  PROVE  LInv'
<1> USE DEF Begin, held
<1>1. /\ pc[t] = "idle" /\ op[t] = "none" /\ o \in AllOps /\ o # "none"
      /\ pc' = [pc EXCEPT ![t] = "load"] /\ op' = [op EXCEPT ![t] = o]
      /\ fuel' = [fuel EXCEPT ![t] = @ - 1] /\ fuel[t] > 0
      /\ UNCHANGED <<state, overflow, s, next, mode, stamp, writes, since, thrown>>
  BY LockAssumption DEF LInv, Local, AllOps
<1>2. TypeOK'
  BY <1>1 DEF LInv, TypeOK, Labels
<1>3. OthersRest(t) /\ Local(t)'
  <2>1. pc'[t] = "load" /\ op'[t] = o
    BY <1>1 DEF LInv, TypeOK
  <2>2. Local(t)
    BY DEF LInv
  <2>3. OthersRest(t)
    BY <1>1 DEF LInv, TypeOK, OthersRest
  <2>4. QED BY <1>1, <2>1, <2>2, <2>3 DEF Local
<1>4. ~Inside(t) /\ ~Inside(t)'
  BY <1>1 DEF LInv, TypeOK, Inside
<1>5. writes + Cardinality(Writers') <= MaxWrites
  <2>1. writes + Cardinality(Writers) <= MaxWrites
    BY DEF LInv, Versioned
  <2>2. CASE o \in {"try_lock", "to_exclusive"}
    <3>1. Writers' = Writers \cup {t} /\ t \notin Writers
      BY <1>1, <2>2 DEF LInv, TypeOK, Writers
    <3>2. Cardinality(Writers') = Cardinality(Writers) + 1
      BY <3>1, CountsType, FS_AddElement
    <3>3. writes + Cardinality(Writers) < MaxWrites
      BY <2>2 DEF Claimed, Writers
    <3>4. QED BY <3>2, <3>3, CountsType, LockAssumption DEF LInv, TypeOK
  <2>3. CASE o \notin {"try_lock", "to_exclusive"}
    <3>1. Writers' = Writers
      BY <1>1, <2>3 DEF LInv, TypeOK, Writers
    <3>2. QED BY <2>1, <3>1
  <2>4. QED BY <2>2, <2>3
<1>6. QED BY <1>1, <1>2, <1>3, <1>4, <1>5, Quiet

\* An operation fails.
LEMMA FailLInv ==
  ASSUME LInv, NEW t \in Threads, NEW x \in BOOLEAN, Fail(t, x), ~Inside(t),
         UNCHANGED <<state, overflow, fuel>>
  PROVE  LInv'
<1>1. /\ pc' = [pc EXCEPT ![t] = "idle"] /\ op' = [op EXCEPT ![t] = "none"]
      /\ s' = [s EXCEPT ![t] = Zero] /\ next' = [next EXCEPT ![t] = Zero]
      /\ thrown' = [thrown EXCEPT ![t] = x]
      /\ UNCHANGED <<mode, stamp, writes, since>>
  BY DEF Fail, End
<1>2. Zero \in Word /\ ~Zero.ex
  BY LockAssumption DEF Zero, MakeWord, Word
<1>3. TypeOK'
  BY <1>1, <1>2 DEF LInv, TypeOK, Labels
<1>4. OthersRest(t)
  BY <1>1 DEF LInv, TypeOK, OthersRest
<1>5. pc'[t] = "idle" /\ op'[t] = "none" /\ s'[t] = Zero
  BY <1>1 DEF LInv, TypeOK
<1>6. Local(t)'
  BY <1>1, <1>2, <1>5 DEF LInv, Local
<1>7. ~Inside(t)'
  BY <1>5 DEF Inside
<1>8. writes + Cardinality(Writers') <= MaxWrites
  <2>1. Cardinality(Writers') <= Cardinality(Writers)
    BY <1>1, WritersEnd DEF LInv
  <2>2. Cardinality(Writers') \in Nat
    <3>1. Writers' \in SUBSET Threads
      BY DEF Writers
    <3>2. QED BY <3>1, LockAssumption, FS_Subset, FS_CardinalityType
  <2>3. QED BY <2>1, <2>2, CountsType, LockAssumption DEF LInv, Versioned, TypeOK
<1>9. QED BY <1>1, <1>3, <1>4, <1>6, <1>7, <1>8, Quiet

\* An operation goes on to its next access, outside the overflow counter.
LEMMA GotoLInv ==
  ASSUME LInv, NEW t \in Threads, NEW label, NEW w \in Word, NEW n \in Word,
         Goto(t, label, w, n), pc[t] # "idle", ~Inside(t),
         UNCHANGED <<state, overflow, fuel>>, w.ex => w.count = 0,
         \/ label = "load"
         \/ label = "cas" /\ Swaps(op[t], mode[t], w, n)
         \/ label = "store" /\ w = stamp[t] /\ Leaves(op[t], mode[t], w, n)
         \/ label = "inc" /\ Gains(op[t], mode[t]) /\ AtLimit(w)
         \/ label = "dec" /\ Drops(op[t], mode[t]) /\ AtLimit(w)
  PROVE  LInv'
<1>1. /\ pc' = [pc EXCEPT ![t] = label] /\ s' = [s EXCEPT ![t] = w]
      /\ next' = [next EXCEPT ![t] = n]
      /\ UNCHANGED <<op, mode, stamp, writes, since, thrown>>
  BY DEF Goto, held
<1>2. label \in {"load", "cas", "store", "inc", "dec"}
  OBVIOUS
<1>3. TypeOK'
  BY <1>1, <1>2 DEF LInv, TypeOK, Labels
<1>4. OthersRest(t)
  BY <1>1 DEF LInv, TypeOK, OthersRest
<1>5. pc'[t] = label /\ s'[t] = w /\ next'[t] = n
  BY <1>1 DEF LInv, TypeOK
<1>6. Local(t)'
  <2>1. Local(t)
    BY DEF LInv
  <2>2. \/ label = "load"
        \/ label = "cas" /\ Swaps(op'[t], mode'[t], w, n)
        \/ label = "store" /\ w = stamp'[t] /\ Leaves(op'[t], mode'[t], w, n)
        \/ label = "inc" /\ Gains(op'[t], mode'[t]) /\ AtLimit(w)
        \/ label = "dec" /\ Drops(op'[t], mode'[t]) /\ AtLimit(w)
    BY <1>1
  <2>3. Swaps(op[t], mode[t], w, n)' <=> Swaps(op'[t], mode'[t], w, n)
    BY DEF Swaps, Claims, Upgrades, Adds, Removes, Gains, Drops
  <2>4. QED BY <1>1, <1>2, <1>5, <2>1, <2>2, <2>3 DEF Local, AtLimit
<1>7. ~Inside(t)'
  BY <1>2, <1>5 DEF Inside
<1>8. writes + Cardinality(Writers') <= MaxWrites
  <2>1. Writers' = Writers
    BY <1>1 DEF Writers
  <2>2. QED BY <2>1 DEF LInv, Versioned
<1>9. QED BY <1>1, <1>3, <1>4, <1>6, <1>7, <1>8, Quiet

(***************************************************************************)
(* Steps with which an operation succeeds.                                 *)
(***************************************************************************)

\* What success with the stamp g does to the thread that has it, and leaves to
\* the others.
Succeeded(t, g) ==
  /\ pc' \in [Threads -> Labels] /\ op' \in [Threads -> AllOps \cup {"none"}]
  /\ s' \in [Threads -> Word] /\ next' \in [Threads -> Word]
  /\ mode' \in [Threads -> Modes] /\ stamp' \in [Threads -> Word]
  /\ writes' \in Nat /\ since' \in [Threads -> Nat] /\ thrown' \in [Threads -> BOOLEAN]
  /\ OthersRest(t) /\ ~Inside(t)'
  /\ \A u \in Threads : Local(u)'
  /\ mode' = [mode EXCEPT ![t] = Grants(op[t])]
  /\ writes' = IF Grants(op[t]) = "excl" /\ mode[t] # "excl" THEN writes + 1 ELSE writes
  /\ writes' + Cardinality(Writers') <= MaxWrites
  /\ Grants(op[t]) = "excl" => stamp'[t] = g
  /\ \A u \in Threads : u # t => stamp'[u] = stamp[u]
  /\ \A u \in Threads : mode'[u] = "opt" =>
       since'[u] <= writes' /\ stamp'[u].ver = VerAt(since'[u])

\* That is what it does when the stamp fits what the operation grants.
LEMMA Success ==
  ASSUME LInv, NEW t \in Threads, NEW g \in Word, Succeed(t, g), pc[t] # "idle",
         Grants(op[t]) = "shared" => ~g.ex /\ g.count > 0,
         Grants(op[t]) = "excl" => g.ex /\ g.count = 0,
         Grants(op[t]) = "opt" => ~g.ex /\ g.ver = VerAt(writes)
  PROVE  Succeeded(t, g)
<1> DEFINE m == Grants(op[t])
<1> DEFINE h == IF m = "none" THEN Zero ELSE IF m = "opt" THEN stamp_of(g) ELSE g
<1> DEFINE n == IF m = "excl" /\ mode[t] # "excl" THEN writes + 1 ELSE writes
<1> DEFINE k == IF m = "none" THEN 0 ELSE n
<1>1. /\ pc' = [pc EXCEPT ![t] = "idle"] /\ op' = [op EXCEPT ![t] = "none"]
      /\ s' = [s EXCEPT ![t] = Zero] /\ next' = [next EXCEPT ![t] = Zero]
      /\ mode' = [mode EXCEPT ![t] = m] /\ stamp' = [stamp EXCEPT ![t] = h]
      /\ writes' = n /\ since' = [since EXCEPT ![t] = k]
      /\ thrown' = [thrown EXCEPT ![t] = FALSE]
  BY DEF Succeed, End
<1>2. Zero \in Word /\ ~Zero.ex
  BY LockAssumption DEF Zero, MakeWord, Word
<1>3. m \in Modes
  BY DEF Grants, Modes
<1>4. h \in Word /\ StampShape(m, h) /\ (m = "opt" => h.ver = VerAt(writes))
  BY <1>2, <1>3, WordOps DEF StampShape, Free, Modes
<1>5. n \in Nat /\ k \in Nat /\ writes \in Nat
  BY DEF LInv, TypeOK
<1>6. (m = "excl" => h = g) /\ (m = "opt" => k = writes /\ n = writes)
  OBVIOUS
<1> HIDE DEF h, k
<1>7. /\ pc' \in [Threads -> Labels] /\ op' \in [Threads -> AllOps \cup {"none"}]
      /\ s' \in [Threads -> Word] /\ next' \in [Threads -> Word]
      /\ mode' \in [Threads -> Modes] /\ stamp' \in [Threads -> Word]
      /\ writes' \in Nat /\ since' \in [Threads -> Nat] /\ thrown' \in [Threads -> BOOLEAN]
  <2> HIDE DEF m, n
  <2>1. QED BY <1>1, <1>2, <1>3, <1>4, <1>5 DEF LInv, TypeOK, Labels
<1>8. /\ pc'[t] = "idle" /\ op'[t] = "none" /\ s'[t] = Zero
      /\ mode'[t] = m /\ stamp'[t] = h /\ since'[t] = k
  <2> HIDE DEF m, n
  <2>1. QED BY <1>1 DEF LInv, TypeOK
<1>9. /\ OthersRest(t)
      /\ \A u \in Threads : u # t => /\ mode'[u] = mode[u] /\ stamp'[u] = stamp[u]
                                     /\ since'[u] = since[u]
  <2> HIDE DEF m, n
  <2>1. QED BY <1>1 DEF LInv, TypeOK, OthersRest
<1>10. \A u \in Threads : Local(u)'
  <2> HIDE DEF m, n
  <2>1. Local(t)'
    BY <1>2, <1>4, <1>8 DEF Local, StampShape, Free
  <2>2. ASSUME NEW u \in Threads, u # t PROVE Local(u)'
    BY <1>9, <2>2 DEF LInv, Local, OthersRest
  <2>3. QED BY <2>1, <2>2
<1>11. n + Cardinality(Writers') <= MaxWrites
  <2>1. writes + Cardinality(Writers) <= MaxWrites
    BY DEF LInv, Versioned
  <2>2. /\ Cardinality(Writers') <= Cardinality(Writers)
        /\ op[t] \in {"try_lock", "to_exclusive"} =>
              Cardinality(Writers') = Cardinality(Writers) - 1
    BY <1>1, WritersEnd DEF LInv
  <2>3. Cardinality(Writers') \in Nat
    <3>1. Writers' \in SUBSET Threads
      BY DEF Writers
    <3>2. QED BY <3>1, LockAssumption, FS_Subset, FS_CardinalityType
  <2>4. m = "excl" => op[t] \in {"try_lock", "to_exclusive"}
    BY DEF Grants
  <2>5. MaxWrites \in Nat /\ Cardinality(Writers) \in Nat
    BY LockAssumption, CountsType
  <2> HIDE DEF m
  <2>6. QED BY <1>5, <2>1, <2>2, <2>3, <2>4, <2>5
<1>12. \A u \in Threads : mode'[u] = "opt" =>
         since'[u] <= n /\ stamp'[u].ver = VerAt(since'[u])
  <2> TAKE u \in Threads
  <2>1. CASE u = t
    <3> HIDE DEF m, n
    <3>1. QED BY <1>4, <1>5, <1>6, <1>8, <2>1
  <2>2. CASE u # t
    <3>1. mode[u] = "opt" => since[u] <= writes /\ stamp[u].ver = VerAt(since[u])
      BY DEF LInv, Versioned
    <3>2. since[u] \in Nat
      BY DEF LInv, TypeOK
    <3>3. writes <= n
      BY <1>5
    <3> HIDE DEF m, n
    <3>4. QED BY <1>5, <1>9, <2>2, <3>1, <3>2, <3>3
  <2>3. QED BY <2>1, <2>2
<1>13. ~Inside(t)'
  BY <1>8 DEF Inside
<1>14. QED
  BY <1>1, <1>6, <1>7, <1>8, <1>9, <1>10, <1>11, <1>12, <1>13 DEF Succeeded

\* An operation succeeds without writing the word.
LEMMA KeepLInv ==
  ASSUME LInv, NEW t \in Threads, NEW g \in Word, Succeed(t, g), pc[t] # "idle",
         ~Inside(t), UNCHANGED <<state, overflow, fuel>>,
         Keeps(op[t], mode[t], stamp[t], state),
         g = IF op[t] = "try_access_shared" THEN state ELSE stamp[t]
  PROVE  LInv'
<1>1. TypeOK /\ Local(t) /\ Owned /\ Counted /\ Versioned
  BY DEF LInv
<1>2. op[t] = "try_access_shared" => Grants(op[t]) = "opt"
  BY DEF Grants
<1>3. Grants(op[t]) = "shared" => mode[t] = "shared" /\ g = stamp[t] /\ ~g.ex /\ g.count > 0
  BY <1>1, <1>2 DEF Keeps, Local, StampShape
<1>4. Grants(op[t]) = "excl" => mode[t] = "excl" /\ g = stamp[t] /\ g.ex /\ g.count = 0
  BY <1>1, <1>2 DEF Keeps, Local, StampShape
<1>5. Grants(op[t]) = "opt" => /\ mode[t] \in {"none", "opt"} /\ ~state.ex
                               /\ ~g.ex /\ g.ver = state.ver
  BY <1>1 DEF Keeps, Local, StampShape, Free
<1>6. ~state.ex => state.ver = VerAt(writes)
  BY <1>1 DEF Versioned
<1>7. Grants(op[t]) # "none"
  BY DEF Keeps
<1>8. Succeeded(t, g)
  BY <1>3, <1>4, <1>5, <1>6, Success
<1>9. TypeOK'
  BY <1>1, <1>8 DEF TypeOK, Succeeded
<1>10. writes' = writes
  BY <1>4, <1>8 DEF Succeeded
<1>11. \A u \in Threads : mode'[u] = IF u = t THEN Grants(op[t]) ELSE mode[u]
  BY <1>1, <1>8 DEF TypeOK, Succeeded
<1>12. \A u \in Threads : mode'[u] = "excl" <=> mode[u] = "excl"
  <2>1. mode[t] = "excl" => Grants(op[t]) = "excl"
    BY <1>3, <1>5, <1>7 DEF Keeps
  <2>2. QED BY <1>4, <1>11, <2>1
<1>13. Owned'
  <2>1. \A u \in Threads : mode[u] = "excl" => stamp'[u] = stamp[u]
    BY <1>4, <1>8, <1>11, <1>12 DEF Succeeded
  <2>2. QED BY <1>1, <1>12, <2>1 DEF Owned
<1>14. Sharers' = Sharers
  <2>1. mode[t] = "shared" <=> Grants(op[t]) = "shared"
    BY <1>3, <1>4, <1>5, <1>7 DEF Keeps
  <2>2. QED BY <1>1, <1>8, <2>1, SharersChange DEF Succeeded
<1>15. Counted'
  BY <1>8, <1>11, <1>14, CountedSame DEF Succeeded
<1>16. Versioned'
  BY <1>1, <1>8, <1>10 DEF Versioned, Succeeded
<1>17. QED BY <1>8, <1>9, <1>13, <1>15, <1>16 DEF LInv, SoundOps, Succeeded

\* An optimistic stamp is forgotten.
LEMMA ForgetLInv ==
  ASSUME LInv, NEW t \in Threads, Forget(t)
  PROVE  LInv'
<1>1. TypeOK /\ Owned /\ Counted /\ Versioned /\ (\A u \in Threads : Local(u))
  BY DEF LInv
<1>2. /\ pc[t] = "idle" /\ mode[t] = "opt"
      /\ mode' = [mode EXCEPT ![t] = "none"] /\ stamp' = [stamp EXCEPT ![t] = Zero]
      /\ since' = [since EXCEPT ![t] = 0]
      /\ UNCHANGED <<state, overflow, pc, op, s, next, fuel, writes, thrown>>
  BY DEF Forget, local
<1>3. Zero \in Word
  BY LockAssumption DEF Zero, MakeWord, Word
<1>4. TypeOK'
  BY <1>1, <1>2, <1>3 DEF TypeOK, Modes
<1>5. /\ mode'[t] = "none"
      /\ \A u \in Threads : u # t => /\ mode'[u] = mode[u] /\ stamp'[u] = stamp[u]
                                     /\ since'[u] = since[u]
  BY <1>1, <1>2 DEF TypeOK
<1>6. \A u \in Threads : Local(u)'
  <2>1. Local(t)'
    BY <1>1, <1>2, <1>5 DEF Local, StampShape
  <2>2. ASSUME NEW u \in Threads, u # t PROVE Local(u)'
    BY <1>1, <1>2, <1>5, <2>2 DEF Local
  <2>3. QED BY <2>1, <2>2
<1>7. Owned'
  BY <1>1, <1>2, <1>5 DEF Owned
<1>8. Counted'
  <2>1. Sharers' = Sharers
    <3> DEFINE m == "none"
    <3>1. mode' = [mode EXCEPT ![t] = m] /\ mode[t] # "shared" /\ m # "shared"
      BY <1>2
    <3> HIDE DEF m
    <3>2. QED BY <1>1, <3>1, SharersChange
  <2>2. OthersRest(t) /\ ~Inside(t) /\ ~Inside(t)'
    BY <1>2 DEF OthersRest, Inside
  <2>3. QED BY <1>2, <1>5, <2>1, <2>2, CountedSame
<1>9. Versioned'
  <2>1. Writers' = Writers
    BY <1>2 DEF Writers
  <2>2. \A u \in Threads : mode'[u] = "opt" =>
          since'[u] <= writes /\ stamp'[u].ver = VerAt(since'[u])
    BY <1>1, <1>5 DEF Versioned
  <2>3. QED BY <1>1, <1>2, <2>1, <2>2 DEF Versioned
<1>10. QED BY <1>4, <1>6, <1>7, <1>8, <1>9 DEF LInv, SoundOps

\* The loop body, on the word in memory.
LEMMA LoopLInv ==
  ASSUME LInv, NEW t \in Threads, pc[t] \in {"load", "cas"}, Loop(t, state),
         UNCHANGED <<state, overflow, fuel>>
  PROVE  LInv'
<1> DEFINE d == Decide(op[t], stamp[t], state)
<1>1. TypeOK /\ Local(t) /\ Owned
  BY DEF LInv
<1>2. /\ op[t] \in Ops /\ mode[t] \in Modes /\ Allowed(op[t], mode[t])
      /\ state \in Word /\ (state.ex => state.count = 0)
      /\ stamp[t] \in Word /\ StampShape(mode[t], stamp[t])
      /\ (mode[t] = "excl" => state = stamp[t])
  BY <1>1 DEF TypeOK, Local, Owned
<1>3. /\ d.word \in Word
      /\ d.what = "cas" => Swaps(op[t], mode[t], state, d.word)
      /\ d.what = "store" => Leaves(op[t], mode[t], state, d.word) /\ mode[t] = "excl"
      /\ d.what = "inc" => Gains(op[t], mode[t])
      /\ d.what = "dec" => Drops(op[t], mode[t])
      /\ d.what = "keep" => Keeps(op[t], mode[t], stamp[t], state)
  BY <1>2, DecideFacts DEF LInv
<1>4. ~Inside(t) /\ pc[t] # "idle"
  BY DEF Inside
<1>5. Zero \in Word /\ ~Zero.ex
  BY LockAssumption DEF Zero, MakeWord, Word
<1>6. \/ Fail(t, FALSE) \/ Fail(t, TRUE)
      \/ d.what = "keep"
         /\ Succeed(t, IF op[t] = "try_access_shared" THEN state ELSE stamp[t])
      \/ d.what \in {"cas", "store"} /\ Goto(t, d.what, state, d.word)
      \/ d.what \in {"inc", "dec"} /\ AtLimit(state) /\ Goto(t, d.what, state, Zero)
      \/ Goto(t, "load", Zero, Zero)
  BY DEF Loop, AtLimit
<1> HIDE DEF d
<1>7. CASE Fail(t, FALSE) \/ Fail(t, TRUE)
  BY <1>4, <1>7, FailLInv
<1>8. CASE /\ d.what = "keep"
           /\ Succeed(t, IF op[t] = "try_access_shared" THEN state ELSE stamp[t])
  BY <1>2, <1>3, <1>4, <1>8, KeepLInv
<1>9. CASE d.what \in {"cas", "store"} /\ Goto(t, d.what, state, d.word)
  BY <1>2, <1>3, <1>4, <1>9, GotoLInv
<1>10. CASE d.what \in {"inc", "dec"} /\ AtLimit(state) /\ Goto(t, d.what, state, Zero)
  BY <1>2, <1>3, <1>4, <1>5, <1>10, GotoLInv
<1>11. CASE Goto(t, "load", Zero, Zero)
  BY <1>4, <1>5, <1>11, GotoLInv
<1>12. QED BY <1>6, <1>7, <1>8, <1>9, <1>10, <1>11

\* A load, and a compare-and-swap that fails.
LEMMA LoadLInv ==
  ASSUME LInv, NEW t \in Threads, Load(t)
  PROVE  LInv'
BY LoopLInv DEF Load

\* A compare-and-swap that succeeds: the snapshot is the word, so nobody is
\* inside and the counter is 0.
LEMMA SwapLInv ==
  ASSUME LInv, NEW t \in Threads, pc[t] = "cas", state = s[t], state' = next[t],
         Succeed(t, next[t]), UNCHANGED <<overflow, fuel>>
  PROVE  LInv'
<1> DEFINE n == next[t]
<1>1. TypeOK /\ Local(t) /\ Owned /\ Counted /\ Versioned
  BY DEF LInv
<1>2. Swaps(op[t], mode[t], state, n)
  BY <1>1 DEF Local
<1>3. /\ state \in Word /\ n \in Word /\ mode[t] \in Modes /\ writes \in Nat /\ overflow \in Nat
      /\ state.count \in 0 .. SharedMask /\ state.ex \in BOOLEAN
  BY <1>1 DEF TypeOK, Word
<1>4. SharedMask \in Nat /\ SharedMask > 2 /\ SharedMax = SharedMask - 1
  BY LockAssumption DEF SharedMax
<1>5. ~state.ex /\ state.count < SharedMax /\ n.ver = state.ver
  BY <1>2, <1>3, <1>4, WordOps DEF Swaps, Claims, Upgrades, Adds, Removes, Free
<1>6. ~Busy /\ (\A u \in Threads : ~Inside(u))
  BY <1>1, <1>3, <1>4, <1>5 DEF Counted, Busy, Inside
<1>7. state.count = Sharers /\ overflow = 0
  <2>1. state.count + overflow = Sharers /\ (overflow > 0 => state.count = SharedMax)
    BY <1>1, <1>6 DEF Counted, SharedCount, Sharers
  <2>2. QED BY <1>3, <1>4, <1>5, <2>1
<1>8. state.ver = VerAt(writes)
  BY <1>1, <1>5 DEF Versioned
<1>9. \A u \in Threads : mode[u] # "excl"
  BY <1>1, <1>5 DEF LInv, Owned, Local, StampShape
<1>10. /\ Grants(op[t]) = "shared" => ~n.ex /\ n.count = state.count + 1 /\ mode[t] # "shared"
       /\ Grants(op[t]) = "excl" => /\ n.ex /\ n.count = 0
                                    /\ state.count = IF mode[t] = "shared" THEN 1 ELSE 0
       /\ Grants(op[t]) \in {"none", "opt"} =>
            ~n.ex /\ n.count = state.count - 1 /\ mode[t] = "shared"
  <2>1. CASE Claims(op[t], mode[t], state, n)
    BY <1>3, <2>1, WordOps DEF Claims, Free
  <2>2. CASE Upgrades(op[t], mode[t], state, n)
    <3>1. Plus(state, -1) \in Word /\ Plus(state, -1).count = 0
      BY <1>3, <2>2, WordOps DEF Upgrades
    <3>2. QED BY <2>2, <3>1, WordOps DEF Upgrades
  <2>3. CASE Adds(op[t], mode[t], state, n)
    BY <1>3, <2>3, WordOps DEF Adds, Gains
  <2>4. CASE Removes(op[t], mode[t], state, n)
    BY <1>3, <2>4, WordOps DEF Removes, Drops
  <2>5. QED BY <1>2, <2>1, <2>2, <2>3, <2>4 DEF Swaps
<1>11. Grants(op[t]) \in Modes
  BY DEF Grants, Modes
<1>12. pc[t] # "idle" /\ (Grants(op[t]) = "shared" => n.count > 0)
  BY <1>3, <1>10
<1> HIDE DEF n
<1>13. Succeed(t, n) /\ state' = n
  BY DEF n
<1>14. Succeeded(t, n)
  BY <1>3, <1>5, <1>8, <1>10, <1>12, <1>13, Success
<1>15. TypeOK'
  BY <1>1, <1>3, <1>13, <1>14 DEF TypeOK, Succeeded
<1>16. \A u \in Threads : mode'[u] = IF u = t THEN Grants(op[t]) ELSE mode[u]
  BY <1>1, <1>14 DEF TypeOK, Succeeded
<1>17. Owned'
  <2>1. n.ex <=> Grants(op[t]) = "excl"
    BY <1>10, <1>11 DEF Modes
  <2>2. \A u \in Threads : mode'[u] = "excl" => u = t
    BY <1>9, <1>16
  <2>3. QED BY <1>10, <1>13, <1>14, <1>16, <2>1, <2>2 DEF Owned, Succeeded
<1>18. Counted'
  <2>1. n.count = Sharers'
    <3>1. CASE Grants(op[t]) = "shared"
      BY <1>1, <1>7, <1>10, <1>14, <3>1, SharersChange DEF Succeeded
    <3>2. CASE Grants(op[t]) \in {"none", "opt"}
      BY <1>1, <1>7, <1>10, <1>14, <3>2, SharersChange DEF Succeeded
    <3>3. CASE Grants(op[t]) = "excl"
      <4>1. CASE mode[t] = "shared"
        <5>1. Grants(op[t]) # "shared"
          BY <3>3
        <5>2. Sharers' = Sharers - 1
          BY <1>1, <1>14, <4>1, <5>1, SharersChange DEF Succeeded
        <5>3. QED BY <1>7, <1>10, <3>3, <4>1, <5>2
      <4>2. CASE mode[t] # "shared"
        BY <1>1, <1>7, <1>10, <1>14, <3>3, <4>2, SharersChange DEF Succeeded
      <4>3. QED BY <4>1, <4>2
    <3>4. QED BY <1>11, <3>1, <3>2, <3>3 DEF Modes
  <2>2. n.count # SharedMask
    BY <1>3, <1>4, <1>5, <1>10, <1>11 DEF Modes
  <2>3. n.count + overflow' = Sharers' /\ ~(overflow' > 0)
    BY <1>3, <1>7, <2>1 DEF Word
  <2>4. QED BY <1>6, <1>13, <1>14, <2>2, <2>3, CountedFree DEF Succeeded
<1>19. Versioned'
  <2>1. n.ex <=> Grants(op[t]) = "excl"
    BY <1>10, <1>11 DEF Modes
  <2>2. n.ver = VerAt(IF n.ex THEN writes' - 1 ELSE writes') /\ (n.ex => writes' > 0)
    BY <1>3, <1>5, <1>8, <1>9, <1>14, <2>1 DEF Succeeded
  <2>3. QED BY <1>13, <1>14, <2>2 DEF Versioned, Succeeded
<1>20. QED BY <1>14, <1>15, <1>17, <1>18, <1>19 DEF LInv, SoundOps, Succeeded

\* A compare-and-swap, whether it succeeds or not.
LEMMA CasLInv ==
  ASSUME LInv, NEW t \in Threads, Cas(t)
  PROVE  LInv'
<1>1. CASE state = s[t] /\ state' = next[t] /\ Succeed(t, next[t])
  BY <1>1, SwapLInv DEF Cas
<1>2. CASE UNCHANGED state /\ Fail(t, FALSE)
  BY <1>2, FailLInv DEF Cas, Inside
<1>3. CASE UNCHANGED state /\ Goto(t, "load", Zero, Zero)
  <2>1. Zero \in Word /\ ~Zero.ex
    BY LockAssumption DEF Zero, MakeWord, Word
  <2>2. QED BY <1>3, <2>1, GotoLInv DEF Cas, Inside
<1>4. CASE UNCHANGED state /\ Loop(t, state)
  BY <1>4, LoopLInv DEF Cas
<1>5. QED BY <1>1, <1>2, <1>3, <1>4 DEF Cas

\* The exclusive holder stores the unlocked word: it is the next version.
LEMMA StoreLInv ==
  ASSUME LInv, NEW t \in Threads, Store(t)
  PROVE  LInv'
<1> DEFINE n == next[t]
<1>1. TypeOK /\ Local(t) /\ Owned /\ Counted /\ Versioned
  BY DEF LInv
<1>2. /\ pc[t] = "store" /\ state' = n /\ Succeed(t, n) /\ UNCHANGED <<overflow, fuel>>
  BY DEF Store
<1>3. /\ s[t] = stamp[t] /\ mode[t] = "excl" /\ state = stamp[t] /\ state.ex /\ state.count = 0
      /\ Leaves(op[t], mode[t], state, n)
  BY <1>1, <1>2 DEF Local, Owned, Leaves, StampShape
<1>4. /\ state \in Word /\ n \in Word /\ writes \in Nat /\ overflow \in Nat
      /\ state.ver \in 0 .. Versions - 1
  BY <1>1 DEF TypeOK, Word
<1>5. SharedMask \in Nat /\ SharedMask > 2 /\ SharedMax = SharedMask - 1 /\ Versions \in Nat
  BY LockAssumption DEF SharedMax
<1>6. ~Busy /\ (\A u \in Threads : ~Inside(u))
  BY <1>1, <1>3, <1>5 DEF Counted, Busy, Inside
<1>7. Sharers = 0 /\ overflow = 0
  <2>1. state.count + overflow = Sharers /\ (overflow > 0 => state.count = SharedMax)
    BY <1>1, <1>6 DEF Counted, SharedCount, Sharers
  <2>2. QED BY <1>3, <1>4, <1>5, <2>1
<1>8. writes > 0 /\ state.ver = VerAt(writes - 1)
  BY <1>1, <1>3 DEF Versioned
<1>9. \A u \in Threads : mode[u] = "excl" => u = t
  BY <1>1, <1>3 DEF Owned
<1>10. writes <= MaxWrites /\ MaxWrites \in Nat
  BY <1>1, <1>4, CountsType, LockAssumption DEF Versioned
<1>11. unlock_state(state) = MakeWord(VerAt(writes), FALSE, 0)
  <2> DEFINE k == writes - 1
  <2>1. k \in Nat /\ k < MaxWrites /\ k + 1 = writes
    BY <1>4, <1>8, <1>10
  <2> HIDE DEF k
  <2>2. VerAt(k + 1) = IF VerAt(k) = Versions - 1 THEN 1 ELSE VerAt(k) + 1
    BY <2>1, NextVersion
  <2>3. state.ver = VerAt(k)
    BY <1>8 DEF k
  <2>4. QED BY <1>3, <1>4, <2>1, <2>2, <2>3, UnlockWord
<1>12. /\ ~n.ex /\ n.ver = VerAt(writes)
       /\ Grants(op[t]) = "shared" => n.count = 1
       /\ Grants(op[t]) \in {"none", "opt"} => n.count = 0
       /\ Grants(op[t]) \in {"none", "opt", "shared"}
  <2>1. /\ MakeWord(VerAt(writes), FALSE, 0).ver = VerAt(writes)
        /\ ~MakeWord(VerAt(writes), FALSE, 0).ex
        /\ MakeWord(VerAt(writes), FALSE, 0).count = 0
    BY DEF MakeWord
  <2>2. /\ Plus(MakeWord(VerAt(writes), FALSE, 0), 1).ver = VerAt(writes)
        /\ ~Plus(MakeWord(VerAt(writes), FALSE, 0), 1).ex
        /\ Plus(MakeWord(VerAt(writes), FALSE, 0), 1).count = 1
    BY DEF MakeWord, Plus
  <2>3. QED BY <1>3, <1>11, <2>1, <2>2 DEF Leaves
<1>13. pc[t] # "idle"
  BY <1>2
<1> HIDE DEF n
<1>14. Succeeded(t, n)
  BY <1>2, <1>4, <1>12, <1>13, Success
<1>15. TypeOK'
  BY <1>1, <1>2, <1>4, <1>14 DEF TypeOK, Succeeded
<1>16. \A u \in Threads : mode'[u] = IF u = t THEN Grants(op[t]) ELSE mode[u]
  BY <1>1, <1>14 DEF TypeOK, Succeeded
<1>17. Owned'
  <2>1. \A u \in Threads : mode'[u] # "excl"
    BY <1>9, <1>12, <1>16
  <2>2. QED BY <1>2, <1>12, <2>1 DEF Owned
<1>18. Counted'
  <2>1. n.count = Sharers'
    <3>1. CASE Grants(op[t]) = "shared"
      <4>1. mode[t] # "shared"
        BY <1>3
      <4>2. Sharers' = Sharers + 1
        BY <1>1, <1>14, <3>1, <4>1, SharersChange DEF Succeeded
      <4>3. QED BY <1>7, <1>12, <3>1, <4>2
    <3>2. CASE Grants(op[t]) # "shared"
      <4>1. mode[t] # "shared"
        BY <1>3
      <4>2. Sharers' = Sharers
        BY <1>1, <1>14, <3>2, <4>1, SharersChange DEF Succeeded
      <4>3. QED BY <1>7, <1>12, <3>2, <4>2
    <3>3. QED BY <3>1, <3>2
  <2>2. n.count # SharedMask
    BY <1>5, <1>12
  <2>3. n.count + overflow' = Sharers' /\ ~(overflow' > 0)
    BY <1>2, <1>7, <1>12, <2>1
  <2>4. QED BY <1>2, <1>6, <1>14, <2>2, <2>3, CountedFree DEF Succeeded
<1>19. Versioned'
  <2>1. writes' = writes
    BY <1>12, <1>14 DEF Succeeded
  <2>2. QED BY <1>2, <1>12, <1>14, <2>1 DEF Versioned, Succeeded
<1>20. QED BY <1>14, <1>15, <1>17, <1>18, <1>19 DEF LInv, SoundOps, Succeeded

(***************************************************************************)
(* The overflow counter.                                                   *)
(***************************************************************************)

\* The compare-and-swap that locks the counter, and its failure.
LEMMA LockLInv ==
  ASSUME LInv, NEW t \in Threads, LockOverflow(t)
  PROVE  LInv'
<1>1. TypeOK /\ Local(t) /\ Owned /\ Counted /\ Versioned
  BY DEF LInv
<1>2. Zero \in Word /\ ~Zero.ex
  BY LockAssumption DEF Zero, MakeWord, Word
<1>3. CASE UNCHANGED state /\ Goto(t, "load", Zero, Zero)
  BY <1>2, <1>3, GotoLInv DEF LockOverflow, Inside
<1>4. CASE /\ state = s[t] /\ state' = [state EXCEPT !.count = SharedMask]
           /\ Goto(t, IF pc[t] = "inc" THEN "incr" ELSE "decr", s[t], Zero)
  <2> DEFINE label == IF pc[t] = "inc" THEN "incr" ELSE "decr"
  <2>1. /\ pc[t] \in {"inc", "dec"} /\ UNCHANGED <<overflow, fuel>>
        /\ pc' = [pc EXCEPT ![t] = label] /\ s' = [s EXCEPT ![t] = s[t]]
        /\ next' = [next EXCEPT ![t] = Zero]
        /\ UNCHANGED <<op, mode, stamp, writes, since, thrown>>
    BY <1>4 DEF LockOverflow, Goto, held
  <2>2. label \in {"incr", "decr"} /\ (pc[t] = "inc" <=> label = "incr")
    BY <2>1
  <2> HIDE DEF label
  <2>3. SharedMask \in Nat /\ SharedMask > 2 /\ SharedMax = SharedMask - 1
    BY LockAssumption DEF SharedMax
  <2>4. AtLimit(state)
    BY <1>1, <1>4, <2>1 DEF Local
  <2>5. state' \in Word /\ state'.ver = state.ver /\ ~state'.ex /\ state'.count = SharedMask
    BY <1>1, <1>4, <2>3, <2>4 DEF TypeOK, Word, AtLimit
  <2>6. TypeOK'
    BY <1>1, <1>2, <2>1, <2>2, <2>5 DEF TypeOK, Labels
  <2>7. /\ pc'[t] = label /\ s'[t] = s[t]
        /\ OthersRest(t) /\ ~Inside(t)
    BY <1>1, <2>1 DEF TypeOK, OthersRest, Inside
  <2>8. \A u \in Threads : Local(u)'
    <3>1. Local(t)'
      BY <1>1, <2>1, <2>2, <2>7 DEF Local, AtLimit, SharedMax, Gains, Drops
    <3>2. ASSUME NEW u \in Threads, u # t PROVE Local(u)'
      BY <2>1, <2>7, <3>2 DEF LInv, Local, OthersRest
    <3>3. QED BY <3>1, <3>2
  <2>9. \A u \in Threads : mode[u] # "excl"
    BY <2>4 DEF LInv, Owned, Local, StampShape, AtLimit
  <2>10. Owned'
    BY <2>1, <2>5, <2>9 DEF Owned
  <2>11. ~Busy /\ (\A u \in Threads : ~Inside(u))
    BY <1>1, <2>3, <2>4 DEF Counted, Busy, Inside, AtLimit
  <2>12. SharedMax + overflow = Sharers
    BY <1>1, <2>4, <2>11 DEF Counted, SharedCount, Sharers, AtLimit
  <2>13. Counted'
    <3>1. \A u \in Threads : Inside(u)' <=> u = t
      BY <2>2, <2>7, <2>11 DEF OthersRest, Inside
    <3>2. Busy'
      BY <2>2, <2>7 DEF Busy
    <3>3. Sharers' = Sharers
      BY <2>1 DEF Sharers, Holders
    <3>4. s'[t].ver = state'.ver
      BY <1>4, <2>5, <2>7
    <3>5. \A u \in Threads : pc'[u] \in {"incr", "decr"} =>
            SharedMax + overflow' = Sharers' /\ s'[u].ver = state'.ver
      BY <2>1, <2>12, <3>1, <3>3, <3>4 DEF Inside
    <3>6. \A u \in Threads : pc'[u] # "restore"
      BY <2>2, <2>7, <3>1 DEF Inside
    <3>7. QED BY <2>5, <3>1, <3>2, <3>5, <3>6 DEF Counted, SharedCount, SharedMax
  <2>14. Versioned'
    <3>1. Writers' = Writers
      BY <2>1 DEF Writers
    <3>2. QED BY <1>1, <2>1, <2>4, <2>5, <3>1 DEF Versioned, AtLimit
  <2>15. QED BY <2>6, <2>8, <2>10, <2>13, <2>14 DEF LInv, SoundOps
<1>5. QED BY <1>3, <1>4 DEF LockOverflow

\* The counter is changed, or the count when the counter is 0.
LEMMA ChangeLInv ==
  ASSUME LInv, NEW t \in Threads, ChangeOverflow(t)
  PROVE  LInv'
<1>1. TypeOK /\ Local(t) /\ Owned /\ Counted /\ Versioned
  BY DEF LInv
<1>2. SharedMask \in Nat /\ SharedMask > 2 /\ SharedMax = SharedMask - 1
  BY LockAssumption DEF SharedMax
<1>3. pc[t] \in {"incr", "decr"} /\ UNCHANGED <<state, fuel>> /\ overflow \in Nat
  BY <1>1 DEF ChangeOverflow, TypeOK
<1>4. s[t] \in Word /\ AtLimit(s[t])
  BY <1>1, <1>3 DEF TypeOK, Local
<1>5. SharedMax + overflow = Sharers /\ s[t].ver = state.ver
  BY <1>1, <1>3 DEF Counted
<1>6. \A u \in Threads : Inside(u) <=> u = t
  BY <1>1, <1>3 DEF Counted, Inside
<1>7. pc[t] = "incr" => Gains(op[t], mode[t])
  BY <1>1 DEF Local
<1>8. pc[t] = "decr" => Drops(op[t], mode[t]) /\ ~Gains(op[t], mode[t])
  BY <1>1 DEF Local, Drops, Gains
<1>9. \E n \in Word :
        /\ Goto(t, "restore", s[t], n)
        /\ n.ver = s[t].ver /\ ~n.ex /\ n.count \in 1 .. SharedMax /\ overflow' \in Nat
        /\ overflow' > 0 => n.count = SharedMax
        /\ n.count + overflow' = IF Gains(op[t], mode[t]) THEN Sharers + 1 ELSE Sharers - 1
  <2>1. CASE pc[t] = "incr" /\ overflow' = overflow + 1 /\ Goto(t, "restore", s[t], s[t])
    BY <1>2, <1>3, <1>4, <1>5, <1>7, <2>1 DEF AtLimit
  <2>2. CASE /\ pc[t] = "decr" /\ overflow > 0 /\ overflow' = overflow - 1
             /\ Goto(t, "restore", s[t], s[t])
    BY <1>2, <1>3, <1>4, <1>5, <1>8, <2>2 DEF AtLimit
  <2>3. CASE /\ pc[t] = "decr" /\ overflow = 0 /\ overflow' = overflow
             /\ Goto(t, "restore", s[t], Plus(s[t], -1))
    <3> DEFINE n == Plus(s[t], -1)
    <3>1. n \in Word /\ n.ver = s[t].ver /\ ~n.ex /\ n.count = SharedMax - 1
      BY <1>2, <1>4, WordOps DEF AtLimit
    <3>2. Goto(t, "restore", s[t], n)
      BY <2>3
    <3> HIDE DEF n
    <3>3. n.count \in 1 .. SharedMax /\ n.count + overflow' = Sharers - 1 /\ ~(overflow' > 0)
      BY <1>2, <1>5, <2>3, <3>1
    <3>4. QED BY <1>3, <1>8, <2>3, <3>1, <3>2, <3>3
  <2>4. QED BY <2>1, <2>2, <2>3 DEF ChangeOverflow
<1>10. PICK n \in Word :
        /\ Goto(t, "restore", s[t], n)
        /\ n.ver = s[t].ver /\ ~n.ex /\ n.count \in 1 .. SharedMax /\ overflow' \in Nat
        /\ overflow' > 0 => n.count = SharedMax
        /\ n.count + overflow' = IF Gains(op[t], mode[t]) THEN Sharers + 1 ELSE Sharers - 1
  BY <1>9
<1>11. /\ pc' = [pc EXCEPT ![t] = "restore"] /\ s' = [s EXCEPT ![t] = s[t]]
       /\ next' = [next EXCEPT ![t] = n]
       /\ UNCHANGED <<op, mode, stamp, writes, since, thrown>>
  BY <1>10 DEF Goto, held
<1>12. TypeOK'
  BY <1>1, <1>3, <1>10, <1>11 DEF TypeOK, Labels
<1>13. pc'[t] = "restore" /\ next'[t] = n /\ s'[t] = s[t] /\ OthersRest(t)
  BY <1>1, <1>11 DEF TypeOK, OthersRest
<1>14. \A u \in Threads : Local(u)'
  <2>1. Gains(op[t], mode[t]) \/ Drops(op[t], mode[t])
    BY <1>3, <1>7, <1>8
  <2>2. Local(t)'
    BY <1>1, <1>3, <1>10, <1>11, <1>13, <2>1 DEF Local, SharedMax, Gains, Drops
  <2>3. ASSUME NEW u \in Threads, u # t PROVE Local(u)'
    BY <1>11, <1>13, <2>3 DEF LInv, Local, OthersRest
  <2>4. QED BY <2>2, <2>3
<1>15. Owned'
  BY <1>1, <1>3, <1>11 DEF Owned
<1>16. Counted'
  <2>1. \A u \in Threads : Inside(u)' <=> u = t
    BY <1>6, <1>13 DEF OthersRest, Inside
  <2>2. Busy'
    BY <1>13 DEF Busy
  <2>3. Sharers' = Sharers
    BY <1>11 DEF Sharers, Holders
  <2>4. ~state.ex /\ state.count = SharedMask
    BY <1>1, <1>6 DEF Counted
  <2>5. \A u \in Threads : pc'[u] \notin {"incr", "decr"}
    BY <1>13, <2>1 DEF Inside
  <2>6. \A u \in Threads : pc'[u] = "restore" => u = t
    BY <2>1 DEF Inside
  <2>7. next'[t].ver = state'.ver
    BY <1>3, <1>5, <1>10, <1>13
  <2>8. Gains(op[t], mode[t])' <=> Gains(op[t], mode[t])
    BY <1>11 DEF Gains
  <2>9. QED BY <1>3, <1>10, <1>13, <2>1, <2>2, <2>3, <2>4, <2>5, <2>6, <2>7, <2>8
            DEF Counted, SharedCount, SharedMax
<1>17. Versioned'
  <2>1. Writers' = Writers
    BY <1>11 DEF Writers
  <2>2. QED BY <1>1, <1>3, <1>11, <2>1 DEF Versioned
<1>18. QED BY <1>12, <1>14, <1>15, <1>16, <1>17 DEF LInv, SoundOps

\* The word is restored, with the count that belongs to the new counter.
LEMMA RestoreLInv ==
  ASSUME LInv, NEW t \in Threads, Restore(t)
  PROVE  LInv'
<1> DEFINE n == next[t]
<1>1. TypeOK /\ Local(t) /\ Owned /\ Counted /\ Versioned
  BY DEF LInv
<1>2. pc[t] = "restore" /\ state' = n /\ Succeed(t, n) /\ UNCHANGED <<overflow, fuel>>
  BY DEF Restore
<1>3. n \in Word /\ overflow \in Nat /\ writes \in Nat
  BY <1>1 DEF TypeOK
<1>4. SharedMask \in Nat /\ SharedMask > 2 /\ SharedMax = SharedMask - 1
  BY LockAssumption DEF SharedMax
<1>5. /\ Gains(op[t], mode[t]) \/ Drops(op[t], mode[t])
      /\ ~n.ex /\ n.count \in 1 .. SharedMax
  BY <1>1, <1>2 DEF Local
<1>6. /\ n.count + overflow = IF Gains(op[t], mode[t]) THEN Sharers + 1 ELSE Sharers - 1
      /\ overflow > 0 => n.count = SharedMax
      /\ n.ver = state.ver
  BY <1>1, <1>2 DEF Counted
<1>7. /\ \A u \in Threads : Inside(u) <=> u = t
      /\ ~state.ex
  BY <1>1, <1>2 DEF Counted, Inside
<1>8. state.ver = VerAt(writes)
  BY <1>1, <1>7 DEF Versioned
<1>9. \A u \in Threads : mode[u] # "excl"
  BY <1>7 DEF LInv, Owned, Local, StampShape
<1>10. Grants(op[t]) \in {"none", "opt", "shared"} /\ pc[t] # "idle"
  BY <1>2, <1>5 DEF Gains, Drops
<1> HIDE DEF n
<1>11. n.count > 0
  BY <1>4, <1>5
<1>12. Succeeded(t, n)
  BY <1>2, <1>3, <1>5, <1>6, <1>8, <1>10, <1>11, Success
<1>13. TypeOK'
  BY <1>1, <1>2, <1>3, <1>12 DEF TypeOK, Succeeded
<1>14. \A u \in Threads : mode'[u] = IF u = t THEN Grants(op[t]) ELSE mode[u]
  BY <1>1, <1>12 DEF TypeOK, Succeeded
<1>15. Owned'
  <2>1. \A u \in Threads : mode'[u] # "excl"
    BY <1>9, <1>10, <1>14
  <2>2. QED BY <1>2, <1>5, <2>1 DEF Owned
<1>16. Counted'
  <2>1. n.count + overflow = Sharers'
    <3>1. CASE Gains(op[t], mode[t])
      <4>1. mode[t] # "shared" /\ Grants(op[t]) = "shared"
        BY <3>1 DEF Gains
      <4>2. Sharers' = Sharers + 1
        BY <1>1, <1>12, <4>1, SharersChange DEF Succeeded
      <4>3. QED BY <1>6, <3>1, <4>2
    <3>2. CASE Drops(op[t], mode[t])
      <4>1. mode[t] = "shared" /\ Grants(op[t]) # "shared" /\ ~Gains(op[t], mode[t])
        BY <3>2 DEF Drops, Gains
      <4>2. Sharers' = Sharers - 1
        BY <1>1, <1>12, <4>1, SharersChange DEF Succeeded
      <4>3. QED BY <1>6, <4>1, <4>2
    <3>3. QED BY <1>5, <3>1, <3>2
  <2>2. n.count # SharedMask
    BY <1>4, <1>5
  <2>3. QED BY <1>2, <1>6, <1>7, <1>12, <2>1, <2>2, CountedFree DEF Succeeded
<1>17. Versioned'
  <2>1. writes' = writes
    BY <1>10, <1>12 DEF Succeeded
  <2>2. QED BY <1>2, <1>5, <1>6, <1>8, <1>12, <2>1 DEF Versioned, Succeeded
<1>18. QED BY <1>12, <1>13, <1>15, <1>16, <1>17 DEF LInv, SoundOps, Succeeded

(***************************************************************************)
(* The theorems.                                                           *)
(***************************************************************************)

\* The lock starts free.
LEMMA InitLInv ==
  ASSUME SoundOps, Init
  PROVE  LInv
<1>1. Zero \in Word /\ ~Zero.ex /\ state \in Word /\ ~state.ex /\ state.count = 0
  BY LockAssumption DEF Init, Zero, MakeWord, Word
<1>2. TypeOK
  BY <1>1, LockAssumption DEF Init, TypeOK, Labels, Modes
<1>3. \A t \in Threads : Local(t)
  BY <1>1 DEF Init, Local, StampShape
<1>4. Owned
  BY <1>1 DEF Init, Owned
<1>5. Counted
  <2>1. \A t \in Threads : pc[t] = "idle"
    BY DEF Init
  <2>2. Holders("shared") = {}
    BY DEF Init, Holders
  <2>3. Cardinality(Holders("shared")) = 0
    BY <2>2, FS_EmptySet
  <2>4. overflow = 0 /\ SharedMask # 0
    BY LockAssumption DEF Init
  <2>5. QED BY <1>1, <2>1, <2>3, <2>4 DEF Counted, SharedCount, Inside
<1>6. Versioned
  <2>1. Writers = {}
    BY DEF Init, Writers
  <2>2. Cardinality(Writers) = 0
    BY <2>1, FS_EmptySet
  <2>3. state.ver = VerAt(0) /\ writes = 0
    BY LockAssumption DEF Init, VerAt, MakeWord
  <2>4. writes + Cardinality(Writers) <= MaxWrites
    BY <2>2, <2>3, LockAssumption
  <2>5. \A t \in Threads : mode[t] = "none"
    BY DEF Init
  <2>6. QED BY <1>1, <2>3, <2>4, <2>5 DEF Versioned
<1>7. QED BY <1>2, <1>3, <1>4, <1>5, <1>6 DEF LInv

\* Every step keeps the invariant.
LEMMA NextLInv ==
  ASSUME LInv, [Next]_vars
  PROVE  LInv'
<1>1. CASE UNCHANGED vars
  <2> USE <1>1 DEF vars, local, held
  <2>0. SoundOps /\ TypeOK /\ Versioned
    BY DEF LInv
  <2>1. SoundOps'
    BY <2>0 DEF SoundOps
  <2>5. TypeOK'
    BY <2>0 DEF TypeOK
  <2>6. Writers' = Writers
    BY DEF Writers
  <2>7. Versioned'
    BY <2>0, <2>6 DEF Versioned
  <2>2. \A t \in Threads : Local(t)'
    BY DEF LInv, Local, SharedMax, StampShape, AtLimit, Swaps, Claims, Upgrades, Adds,
           Removes, Leaves, Gains, Drops
  <2>3. Owned' /\ Counted'
    BY DEF LInv, Owned, Counted, SharedCount, Busy, Inside, Sharers, Holders, Writers,
           SharedMax, AtLimit, Swaps, Claims, Upgrades, Adds, Removes, Leaves, Gains, Drops
  <2>4. QED BY <2>1, <2>2, <2>3, <2>5, <2>7 DEF LInv
<1>2. ASSUME NEW t \in Threads, Run(t) PROVE LInv'
  BY <1>2, LoadLInv, CasLInv, StoreLInv, LockLInv, ChangeLInv, RestoreLInv DEF Run
<1>3. ASSUME NEW t \in Threads, Forget(t) PROVE LInv'
  BY <1>3, ForgetLInv
<1>4. ASSUME NEW t \in Threads, NEW o \in Ops, Begin(t, o) PROVE LInv'
  BY <1>4, BeginLInv
<1>5. QED BY <1>1, <1>2, <1>3, <1>4 DEF Next, Idle

\* The invariant implies what the runs check.
LEMMA LockMeans ==
  ASSUME LInv
  PROVE  TypeOK /\ Exclusion /\ SharedCount /\ StampsFresh
<1>1. TypeOK /\ Owned /\ Counted /\ Versioned
  BY DEF LInv
<1>2. Exclusion
  <2>1. state.ex <=> Holders("excl") # {}
    BY DEF LInv, Owned, Local, StampShape, Holders
  <2>2. ASSUME NEW t \in Holders("excl")
        PROVE  Holders("excl") = {t} /\ Holders("shared") = {} /\ state = stamp[t]
    <3>1. t \in Threads /\ mode[t] = "excl"
      BY DEF Holders
    <3>2. Holders("excl") = {t} /\ state = stamp[t]
      BY <1>1, <3>1 DEF Owned, Holders
    <3>3. state.ex /\ state.count = 0
      BY <1>1, <2>1, <3>1 DEF Owned, Holders
    <3>4. ~Busy
      BY <1>1, <3>3 DEF Counted, Busy, Inside
    <3>5. Cardinality(Holders("shared")) = 0
      <4>1. /\ state.count + overflow = Cardinality(Holders("shared"))
            /\ overflow > 0 => state.count = SharedMax
        BY <1>1, <3>4 DEF Counted, SharedCount
      <4>2. SharedMax # 0 /\ overflow \in Nat
        BY <1>1, LockAssumption DEF TypeOK, SharedMax
      <4>3. QED BY <3>3, <4>1, <4>2
    <3>6. Holders("shared") = {}
      BY <3>5, CountsType, FS_EmptySet
    <3>7. QED BY <3>2, <3>6
  <2>3. QED BY <2>1, <2>2 DEF Exclusion
<1>3. StampsFresh
  <2> SUFFICES ASSUME NEW t \in Holders("opt"), validate(stamp[t])
               PROVE  since[t] = writes
    BY DEF StampsFresh
  <2>1. t \in Threads /\ mode[t] = "opt"
    BY DEF Holders
  <2>2. ~stamp[t].ex
    BY <2>1 DEF LInv, Local, StampShape, Free
  <2>3. stamp[t] \in Word /\ state \in Word /\ since[t] \in Nat /\ writes \in Nat
    BY <1>1, <2>1 DEF TypeOK
  <2>4. state.ver = stamp[t].ver /\ state.ex = stamp[t].ex
    BY <2>3, WordOps DEF validate
  <2>5. since[t] <= writes /\ VerAt(since[t]) = VerAt(writes)
    BY <1>1, <2>1, <2>2, <2>4 DEF Versioned
  <2>6. MaxWrites \in Nat /\ writes <= MaxWrites
    BY <1>1, <2>3, CountsType, LockAssumption DEF Versioned
  <2>7. QED BY <2>3, <2>5, <2>6, VersionsDiffer
<1>4. QED BY <1>1, <1>2, <1>3 DEF Counted

\* Every variable keeps its type, and the overflow counter never goes below
\* zero.
THEOREM LockTypeCorrect ==
  ASSUME SoundOps
  PROVE  Spec => []TypeOK
<1>1. Init => LInv
  BY InitLInv
<1>2. LInv /\ [Next]_vars => LInv'
  BY NextLInv
<1>3. LInv => TypeOK
  BY LockMeans
<1>4. QED BY <1>1, <1>2, <1>3, PTL DEF Spec

\* An exclusive holder is alone, whichever of try_lock and to_exclusive made
\* it one, and the word is its stamp.
THEOREM LockExcludes ==
  ASSUME SoundOps
  PROVE  Spec => []Exclusion
<1>1. Init => LInv
  BY InitLInv
<1>2. LInv /\ [Next]_vars => LInv'
  BY NextLInv
<1>3. LInv => Exclusion
  BY LockMeans
<1>4. QED BY <1>1, <1>2, <1>3, PTL DEF Spec

\* Count and overflow counter together are the number of shared holders,
\* across every locking and unlocking of the counter.
THEOREM LockCounts ==
  ASSUME SoundOps
  PROVE  Spec => []SharedCount
<1>1. Init => LInv
  BY InitLInv
<1>2. LInv /\ [Next]_vars => LInv'
  BY NextLInv
<1>3. LInv => SharedCount
  BY LockMeans
<1>4. QED BY <1>1, <1>2, <1>3, PTL DEF Spec

\* validate: a stamp of an optimistic reader that still validates has seen no
\* exclusive holder since it was taken, the version's wrap included.
THEOREM LockStampsFresh ==
  ASSUME SoundOps
  PROVE  Spec => []StampsFresh
<1>1. Init => LInv
  BY InitLInv
<1>2. LInv /\ [Next]_vars => LInv'
  BY NextLInv
<1>3. LInv => StampsFresh
  BY LockMeans
<1>4. QED BY <1>1, <1>2, <1>3, PTL DEF Spec
=============================================================================
