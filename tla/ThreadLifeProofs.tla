-------------------------- MODULE ThreadLifeProofs --------------------------
(***************************************************************************)
(* The use count of a thread_data is right, for any finite set of handles  *)
(* and any number of calls of this_thread::get.                            *)
(***************************************************************************)
EXTENDS ThreadLife, FiniteSetTheorems, TLAPS

Children == {"none", "seeding", "created", "running", "ending", "ended", "astray"}
Natives  == {"none", "joinable", "joined", "detached"}

TypeOK ==
  /\ tdata \in [Handles -> BOOLEAN] /\ transient \in [Handles -> BOOLEAN]
  /\ use_count \in Int
  /\ data \in {"none", "live", "freed"}
  /\ child \in Children /\ native \in Natives
  /\ terminated \in BOOLEAN /\ gets \in Nat

Used  == {h \in Handles : tdata[h]}
Users == Cardinality(Used) + (IF Attached THEN 1 ELSE 0)

\* Until the program ends the count is that of the handles and the thread,
\* and the data goes with it.  A thread that nobody has joined or detached
\* has a handle that does not come from this_thread::get.
Counts ==
  /\ data = "none" => \A h \in Handles : ~tdata[h] /\ ~transient[h]
  /\ child = "none" <=> data = "none" /\ child # "seeding"
  /\ child = "seeding" => data = "none"
  /\ native = "none" => ~Attached /\ child # "created" /\ \A h \in Handles : ~tdata[h]
  /\ native # "none" => data # "none"
  /\ native = "joined" => child = "ended"
  /\ Alive /\ native # "none" => use_count = Users /\ (data = "live" <=> use_count > 0)
  /\ Alive /\ native = "joinable" => \E h \in Handles : tdata[h] /\ ~transient[h]

TInv == TypeOK /\ Counts /\ DataOutlivesUses

(***************************************************************************)
(* Counting the handles.                                                   *)
(***************************************************************************)

\* The handles in use are finitely many.
LEMMA UsedFinite ==
  ASSUME IsFiniteSet(Handles)
  PROVE  /\ IsFiniteSet(Used) /\ Cardinality(Used) \in Nat
         /\ (\E h \in Handles : tdata[h]) <=> Cardinality(Used) > 0
<1>1. Used \in SUBSET Handles
  BY DEF Used
<1>2. IsFiniteSet(Used) /\ Cardinality(Used) \in Nat
  BY <1>1, FS_Subset, FS_CardinalityType
<1>3. Cardinality(Used) = 0 <=> Used = {}
  BY <1>2, FS_EmptySet
<1>4. (\E h \in Handles : tdata[h]) <=> Used # {}
  BY DEF Used
<1>5. QED BY <1>2, <1>3, <1>4

\* One more or one less handle in use is one more or one less user.
LEMMA UsedChange ==
  ASSUME IsFiniteSet(Handles), TypeOK, NEW h \in Handles
  PROVE  /\ ~tdata[h] /\ tdata' = [tdata EXCEPT ![h] = TRUE] =>
              Cardinality(Used') = Cardinality(Used) + 1
         /\ tdata[h] /\ tdata' = [tdata EXCEPT ![h] = FALSE] =>
              Cardinality(Used') = Cardinality(Used) - 1
<1>1. ASSUME ~tdata[h], tdata' = [tdata EXCEPT ![h] = TRUE]
      PROVE  Cardinality(Used') = Cardinality(Used) + 1
  <2>1. Used' = Used \cup {h} /\ h \notin Used
    BY <1>1 DEF Used, TypeOK
  <2>2. QED BY <2>1, UsedFinite, FS_AddElement
<1>2. ASSUME tdata[h], tdata' = [tdata EXCEPT ![h] = FALSE]
      PROVE  Cardinality(Used') = Cardinality(Used) - 1
  <2>1. Used' = Used \ {h} /\ h \in Used
    BY <1>2 DEF Used, TypeOK
  <2>2. QED BY <2>1, UsedFinite, FS_RemoveElement
<1>3. QED BY <1>1, <1>2

\* A right count keeps the data alive.
LEMMA CountsOutlive ==
  ASSUME IsFiniteSet(Handles), TypeOK, Counts, Alive
  PROVE  DataOutlivesUses
<1>1. CASE native = "none"
  BY <1>1 DEF Counts, DataOutlivesUses
<1>2. CASE native # "none"
  <2>1. use_count = Users /\ (data = "live" <=> use_count > 0)
    BY <1>2 DEF Counts
  <2>2. (\E h \in Handles : tdata[h]) \/ Attached => Users > 0
    BY UsedFinite DEF Users
  <2>3. child = "created" /\ native # "detached" => \E h \in Handles : tdata[h]
    BY <1>2 DEF Counts, TypeOK, Natives
  <2>4. QED BY <2>1, <2>2, <2>3 DEF DataOutlivesUses
<1>3. QED BY <1>1, <1>2

(***************************************************************************)
(* The steps.                                                              *)
(***************************************************************************)

\* A step after which the program is alive need only keep the count.
LEMMA AliveStep ==
  ASSUME IsFiniteSet(Handles), TypeOK', Counts', Alive'
  PROVE  TInv'
<1>1. IsFiniteSet(Handles)' /\ TypeOK' /\ Counts' /\ Alive' => DataOutlivesUses'
  BY CountsOutlive, PTL
<1>2. QED BY <1>1 DEF TInv

\* A handle that is taken or emptied leaves the flags typed.
LEMMA FlagTyped ==
  ASSUME NEW f \in [Handles -> BOOLEAN], NEW h \in Handles, NEW v \in BOOLEAN
  PROVE  [f EXCEPT ![h] = v] \in [Handles -> BOOLEAN]
OBVIOUS

\* create: the new handle is the only user, unless the thread cannot be
\* started.
LEMMA createTInv ==
  ASSUME IsFiniteSet(Handles), TInv, NEW h \in Handles, create(h)
  PROVE  TInv'
<1>1. TypeOK'
  <2>1. [tdata EXCEPT ![h] = TRUE] \in [Handles -> BOOLEAN]
    BY FlagTyped DEF TInv, TypeOK
  <2>2. tdata' \in [Handles -> BOOLEAN] /\ transient' \in [Handles -> BOOLEAN]
    BY <2>1 DEF TInv, TypeOK, create
  <2>3. use_count' \in Int /\ data' \in {"none", "live", "freed"}
    BY DEF TInv, TypeOK, create
  <2>4. child' \in Children /\ native' \in Natives
    BY DEF TInv, TypeOK, create, Children, Natives
  <2>5. terminated' \in BOOLEAN /\ gets' \in Nat
    BY DEF TInv, TypeOK, create
  <2>6. QED BY <2>2, <2>3, <2>4, <2>5 DEF TypeOK
<1>2. /\ Alive /\ Alive' /\ data = "none" /\ child = "none" /\ native = "none"
      /\ \A g \in Handles : ~tdata[g] /\ ~transient[g]
      /\ transient' = transient /\ ~Attached
  BY DEF TInv, Counts, create, Alive, Attached
<1>3. Counts'
  <2>1. CASE /\ child' = "seeding" /\ data' = "none"
             /\ UNCHANGED <<tdata, use_count, native>>
    BY <1>2, <2>1 DEF Counts, Attached, Alive
  <2>2. CASE /\ data' = "live" /\ use_count' = 1 /\ child' = "created"
             /\ native' = "joinable" /\ tdata' = [tdata EXCEPT ![h] = TRUE]
    <3>1. Cardinality(Used) = 0
      BY <1>2, UsedFinite
    <3>2. Cardinality(Used') = 1
      <4>1. Cardinality(Used') = Cardinality(Used) + 1
        BY <1>2, <2>2, UsedChange DEF TInv
      <4>2. QED BY <3>1, <4>1
    <3>3. ~Attached'
      BY <2>2 DEF Attached
    <3>4. Users' = 1
      BY <3>2, <3>3 DEF Users
    <3>5. tdata'[h] /\ ~transient'[h]
      BY <1>2, <2>2 DEF TInv, TypeOK
    <3>6. QED BY <1>2, <2>2, <3>3, <3>4, <3>5 DEF Counts
  <2>3. CASE data' = "live" /\ child' = "ended" /\ UNCHANGED <<tdata, native>>
    BY <1>2, <2>3 DEF Counts, Attached, Alive
  <2>4. QED BY <2>1, <2>2, <2>3 DEF create
<1>4. QED BY <1>1, <1>2, <1>3, AliveStep

\* child_attach: the thread is one more user.
LEMMA child_attachTInv ==
  ASSUME IsFiniteSet(Handles), TInv, child_attach
  PROVE  TInv'
<1>1. TypeOK'
  <2>1. tdata' \in [Handles -> BOOLEAN] /\ transient' \in [Handles -> BOOLEAN]
    BY DEF TInv, TypeOK, child_attach, handles
  <2>2. use_count' \in Int /\ data' \in {"none", "live", "freed"}
    BY DEF TInv, TypeOK, child_attach
  <2>3. child' \in Children /\ native' \in Natives
    BY DEF TInv, TypeOK, child_attach, Children, Natives
  <2>4. terminated' \in BOOLEAN /\ gets' \in Nat
    BY DEF TInv, TypeOK, child_attach
  <2>5. QED BY <2>1, <2>2, <2>3, <2>4 DEF TypeOK
<1>2. /\ Alive /\ Alive' /\ child = "created" /\ ~Attached /\ native # "none"
      /\ UNCHANGED <<tdata, transient, data, native>> /\ Used' = Used
  BY DEF TInv, Counts, child_attach, Alive, Attached, handles, Used
<1>3. Counts'
  <2>1. use_count = Users /\ (data = "live" <=> use_count > 0) /\ Cardinality(Used) \in Nat
    BY <1>2, UsedFinite DEF TInv, Counts
  <2>2. CASE data = "live" /\ child' = "running" /\ use_count' = use_count + 1
    <3>1. Users' = Users + 1
      BY <1>2, <2>1, <2>2 DEF Users, Attached
    <3>2. QED BY <1>2, <2>1, <2>2, <3>1 DEF TInv, TypeOK, Counts, Alive
  <2>3. CASE data # "live" /\ child' = "astray" /\ use_count' = use_count
    <3>1. Users' = Users /\ ~Attached'
      BY <1>2, <2>3 DEF Users, Attached
    <3>2. QED BY <1>2, <2>1, <2>3, <3>1 DEF TInv, Counts, Alive
  <2>4. QED BY <2>2, <2>3 DEF child_attach
<1>4. QED BY <1>1, <1>2, <1>3, AliveStep

\* The callable returns, or its exception ends the program.
LEMMA ReturnsTInv ==
  ASSUME IsFiniteSet(Handles), TInv, Returns
  PROVE  TInv'
<1>1. TypeOK'
  <2>1. tdata' \in [Handles -> BOOLEAN] /\ transient' \in [Handles -> BOOLEAN]
    BY DEF TInv, TypeOK, Returns, handles
  <2>2. use_count' \in Int /\ data' \in {"none", "live", "freed"}
    BY DEF TInv, TypeOK, Returns
  <2>3. child' \in Children /\ native' \in Natives
    BY DEF TInv, TypeOK, Returns, Children, Natives
  <2>4. terminated' \in BOOLEAN /\ gets' \in Nat
    BY DEF TInv, TypeOK, Returns
  <2>5. QED BY <2>1, <2>2, <2>3, <2>4 DEF TypeOK
<1>2. /\ UNCHANGED <<tdata, transient, use_count, data, native>> /\ Used' = Used
      /\ Attached /\ Attached' /\ child = "running" /\ child' \in {"running", "ending"}
      /\ Alive
  BY DEF Returns, Attached, handles, Used
<1>3. Counts'
  BY <1>2 DEF TInv, Counts, Alive, Users
<1>4. DataOutlivesUses'
  BY <1>2 DEF TInv, DataOutlivesUses
<1>5. QED BY <1>1, <1>3, <1>4 DEF TInv

\* thread_exit_handler: the thread's own use goes.
LEMMA thread_exit_handlerTInv ==
  ASSUME IsFiniteSet(Handles), TInv, thread_exit_handler
  PROVE  TInv'
<1>1. TypeOK'
  <2>1. tdata' \in [Handles -> BOOLEAN] /\ transient' \in [Handles -> BOOLEAN]
    BY DEF TInv, TypeOK, thread_exit_handler, handles
  <2>2. use_count' \in Int /\ data' \in {"none", "live", "freed"}
    BY DEF TInv, TypeOK, thread_exit_handler, Release
  <2>3. child' \in Children /\ native' \in Natives
    BY DEF TInv, TypeOK, thread_exit_handler, Children, Natives
  <2>4. terminated' \in BOOLEAN /\ gets' \in Nat
    BY DEF TInv, TypeOK, thread_exit_handler
  <2>5. QED BY <2>1, <2>2, <2>3, <2>4 DEF TypeOK
<1>2. /\ UNCHANGED <<tdata, transient, native>> /\ Used' = Used
      /\ Attached /\ ~Attached' /\ child' = "ended" /\ Alive /\ Alive' /\ native # "none"
  BY DEF TInv, Counts, thread_exit_handler, Attached, Alive, handles, Used
<1>3. use_count = Users /\ (data = "live" <=> use_count > 0) /\ Cardinality(Used) \in Nat
  BY <1>2, UsedFinite DEF TInv, Counts
<1>4. Users' = Users - 1 /\ Users > 0
  BY <1>2, <1>3 DEF Users
<1>5. use_count' = Users' /\ (data' = "live" <=> use_count' > 0) /\ data' # "none"
  BY <1>2, <1>3, <1>4 DEF thread_exit_handler, Release, TInv, TypeOK
<1>6. Counts'
  BY <1>2, <1>5 DEF TInv, Counts, Alive
<1>7. QED BY <1>1, <1>2, <1>6, AliveStep

\* this_thread::get: one handle more.
LEMMA getTInv ==
  ASSUME IsFiniteSet(Handles), TInv, NEW h \in Handles, get(h)
  PROVE  TInv'
<1>1. TypeOK'
  <2>1. tdata' \in [Handles -> BOOLEAN] /\ transient' \in [Handles -> BOOLEAN]
    BY FlagTyped DEF TInv, TypeOK, get
  <2>2. use_count' \in Int /\ data' \in {"none", "live", "freed"}
    BY DEF TInv, TypeOK, get
  <2>3. child' \in Children /\ native' \in Natives
    BY DEF TInv, TypeOK, get, Children, Natives
  <2>4. terminated' \in BOOLEAN /\ gets' \in Nat
    BY DEF TInv, TypeOK, get
  <2>5. QED BY <2>1, <2>2, <2>3, <2>4 DEF TypeOK
<1>2. /\ UNCHANGED <<data, child, native>> /\ Alive /\ Alive' /\ Attached /\ Attached'
      /\ native # "none" /\ data # "none" /\ ~tdata[h]
  BY DEF TInv, Counts, get, Attached, Alive
<1>3. /\ use_count = Users /\ (data = "live" <=> use_count > 0)
      /\ Cardinality(Used) \in Nat /\ use_count' = use_count + 1
  BY <1>2, UsedFinite DEF TInv, Counts, get
<1>4. Cardinality(Used') = Cardinality(Used) + 1
  BY <1>2, UsedChange DEF TInv, get
<1>5. use_count' = Users' /\ use_count > 0 /\ use_count' > 0 /\ data' = "live"
  BY <1>2, <1>3, <1>4 DEF Users
<1>6. native = "joinable" => \E g \in Handles : tdata'[g] /\ ~transient'[g]
  <2> SUFFICES ASSUME native = "joinable"
               PROVE  \E g \in Handles : tdata'[g] /\ ~transient'[g]
    OBVIOUS
  <2>1. PICK g \in Handles : tdata[g] /\ ~transient[g]
    BY <1>2 DEF TInv, Counts
  <2>2. tdata'[g] /\ ~transient'[g]
    BY <1>2, <2>1 DEF TInv, TypeOK, get
  <2>3. QED BY <2>2
<1>7. Counts'
  BY <1>2, <1>5, <1>6 DEF TInv, Counts, Attached
<1>8. QED BY <1>1, <1>2, <1>7, AliveStep

\* A move takes the use along; onto a handle in use it ends the program.
LEMMA MoveTInv ==
  ASSUME IsFiniteSet(Handles), TInv, NEW h \in Handles, NEW other \in Handles, Move(h, other)
  PROVE  TInv'
<1>1. TypeOK'
  <2>1. tdata' \in [Handles -> BOOLEAN] /\ transient' \in [Handles -> BOOLEAN]
    <3>1. CASE UNCHANGED handles
      BY <3>1 DEF TInv, TypeOK, handles
    <3>2. CASE /\ tdata' = [tdata EXCEPT ![h] = tdata[other], ![other] = FALSE]
               /\ transient' = [transient EXCEPT ![h] = transient[other]]
      <4>1. tdata[other] \in BOOLEAN /\ transient[other] \in BOOLEAN
        BY DEF TInv, TypeOK
      <4>2. [tdata EXCEPT ![h] = tdata[other]] \in [Handles -> BOOLEAN]
        BY <4>1, FlagTyped DEF TInv, TypeOK
      <4>3. [[tdata EXCEPT ![h] = tdata[other]] EXCEPT ![other] = FALSE] \in [Handles -> BOOLEAN]
        BY <4>2, FlagTyped
      <4>4. [transient EXCEPT ![h] = transient[other]] \in [Handles -> BOOLEAN]
        BY <4>1, FlagTyped DEF TInv, TypeOK
      <4>5. QED BY <3>2, <4>3, <4>4
    <3>3. QED BY <3>1, <3>2 DEF Move
  <2>2. use_count' \in Int /\ data' \in {"none", "live", "freed"}
    BY DEF TInv, TypeOK, Move
  <2>3. child' \in Children /\ native' \in Natives
    BY DEF TInv, TypeOK, Move, Children, Natives
  <2>4. terminated' \in BOOLEAN /\ gets' \in Nat
    BY DEF TInv, TypeOK, Move
  <2>5. QED BY <2>1, <2>2, <2>3, <2>4 DEF TypeOK
<1>2. /\ UNCHANGED <<use_count, data, child, native>> /\ Alive /\ h # other
      /\ Attached' = Attached
  BY DEF Move, Attached
<1>3. CASE tdata[h]
  <2>1. terminated' = TRUE /\ UNCHANGED <<tdata, transient>>
    BY <1>3 DEF Move, handles
  <2>2. Counts'
    BY <1>2, <2>1 DEF TInv, Counts, Alive
  <2>3. DataOutlivesUses'
    BY <1>2, <2>1 DEF TInv, DataOutlivesUses, Alive
  <2>4. QED BY <1>1, <2>2, <2>3 DEF TInv
<1>4. CASE ~tdata[h]
  <2>1. /\ tdata' = [tdata EXCEPT ![h] = tdata[other], ![other] = FALSE]
        /\ transient' = [transient EXCEPT ![h] = transient[other]]
        /\ terminated' = terminated
    BY <1>4 DEF Move
  <2>2. \A g \in Handles : /\ tdata'[g] = IF g = h THEN tdata[other]
                                          ELSE IF g = other THEN FALSE ELSE tdata[g]
                           /\ transient'[g] = IF g = h THEN transient[other] ELSE transient[g]
    BY <1>2, <2>1 DEF TInv, TypeOK
  <2>3. Cardinality(Used') = Cardinality(Used)
    <3>1. CASE tdata[other]
      <4>1. Used' = (Used \ {other}) \cup {h} /\ other \in Used /\ h \notin Used \ {other}
        BY <1>4, <2>2, <3>1 DEF Used
      <4>2. IsFiniteSet(Used \ {other}) /\ Cardinality(Used \ {other}) = Cardinality(Used) - 1
        BY <4>1, UsedFinite, FS_RemoveElement
      <4>3. Cardinality(Used') = Cardinality(Used \ {other}) + 1
        BY <4>1, <4>2, FS_AddElement
      <4>4. QED BY <4>2, <4>3, UsedFinite
    <3>2. CASE ~tdata[other]
      <4>1. Used' = Used
        BY <1>4, <2>2, <3>2 DEF Used
      <4>2. QED BY <4>1
    <3>3. QED BY <3>1, <3>2
  <2>4. Users' = Users
    BY <1>2, <2>3 DEF Users
  <2>5. (\A g \in Handles : ~tdata[g]) => \A g \in Handles : ~tdata'[g]
    BY <2>2
  <2>6. native = "joinable" => \E g \in Handles : tdata'[g] /\ ~transient'[g]
    <3> SUFFICES ASSUME native = "joinable"
                 PROVE  \E g \in Handles : tdata'[g] /\ ~transient'[g]
      OBVIOUS
    <3>1. PICK g \in Handles : tdata[g] /\ ~transient[g]
      BY <1>2 DEF TInv, Counts
    <3>2. CASE g = other
      BY <2>2, <3>1, <3>2
    <3>3. CASE g # other
      BY <1>4, <2>2, <3>1, <3>3
    <3>4. QED BY <3>2, <3>3
  <2>7. data = "none" => \A g \in Handles : ~tdata'[g] /\ ~transient'[g]
    BY <2>2 DEF TInv, Counts
  <2>8. Counts'
    BY <1>2, <2>1, <2>4, <2>5, <2>6, <2>7 DEF TInv, Counts, Alive
  <2>9. Alive'
    BY <1>2, <2>1 DEF Alive
  <2>10. QED BY <1>1, <2>8, <2>9, AliveStep
<1>5. QED BY <1>3, <1>4

\* A handle lets go of its use: what join, detach and the release of a handle
\* from this_thread::get have in common.
LEMMA LetGo ==
  ASSUME IsFiniteSet(Handles), TInv, NEW h \in Handles, Alive, Alive', tdata[h], TypeOK',
         tdata' = [tdata EXCEPT ![h] = FALSE], Release,
         UNCHANGED <<transient, child>>, native # "none",
         \/ native' = "joined" /\ child = "ended"
         \/ native' = "detached"
         \/ native' = native /\ transient[h]
  PROVE  TInv'
<1>1. /\ use_count = Users /\ (data = "live" <=> use_count > 0)
      /\ Cardinality(Used) \in Nat /\ Cardinality(Used) > 0 /\ Attached' = Attached
  BY UsedFinite DEF TInv, Counts, Attached
<1>2. Cardinality(Used') = Cardinality(Used) - 1
  BY UsedChange DEF TInv
<1>3. Users' = Users - 1 /\ Users > 0
  BY <1>1, <1>2 DEF Users
<1>4. use_count' = Users' /\ (data' = "live" <=> use_count' > 0) /\ data' # "none" /\ data # "none"
  BY <1>1, <1>3 DEF Release, TInv, TypeOK
<1>5. native' = "joinable" => \E g \in Handles : tdata'[g] /\ ~transient'[g]
  <2> SUFFICES ASSUME native' = "joinable"
               PROVE  \E g \in Handles : tdata'[g] /\ ~transient'[g]
    OBVIOUS
  <2>1. PICK g \in Handles : tdata[g] /\ ~transient[g]
    BY DEF TInv, Counts
  <2>2. g # h
    BY <2>1
  <2>3. tdata'[g] /\ ~transient'[g]
    BY <2>1, <2>2 DEF TInv, TypeOK
  <2>4. QED BY <2>3
<1>6. Counts'
  BY <1>1, <1>4, <1>5 DEF TInv, Counts, Alive
<1>7. QED BY <1>6, AliveStep

\* join.
LEMMA joinTInv ==
  ASSUME IsFiniteSet(Handles), TInv, NEW h \in Handles, join(h)
  PROVE  TInv'
<1>1. TypeOK'
  <2>1. tdata' \in [Handles -> BOOLEAN] /\ transient' \in [Handles -> BOOLEAN]
    BY FlagTyped DEF TInv, TypeOK, join
  <2>2. use_count' \in Int /\ data' \in {"none", "live", "freed"}
    BY DEF TInv, TypeOK, join, Release
  <2>3. child' \in Children /\ native' \in Natives
    BY DEF TInv, TypeOK, join, Children, Natives
  <2>4. terminated' \in BOOLEAN /\ gets' \in Nat
    BY DEF TInv, TypeOK, join
  <2>5. QED BY <2>1, <2>2, <2>3, <2>4 DEF TypeOK
<1>2. Alive /\ Alive' /\ native # "none"
  BY DEF join, Alive
<1>3. QED BY <1>1, <1>2, LetGo DEF join

\* detach.
LEMMA detachTInv ==
  ASSUME IsFiniteSet(Handles), TInv, NEW h \in Handles, detach(h)
  PROVE  TInv'
<1>1. TypeOK'
  <2>1. tdata' \in [Handles -> BOOLEAN] /\ transient' \in [Handles -> BOOLEAN]
    BY FlagTyped DEF TInv, TypeOK, detach
  <2>2. use_count' \in Int /\ data' \in {"none", "live", "freed"}
    BY DEF TInv, TypeOK, detach, Release
  <2>3. child' \in Children /\ native' \in Natives
    BY DEF TInv, TypeOK, detach, Children, Natives
  <2>4. terminated' \in BOOLEAN /\ gets' \in Nat
    BY DEF TInv, TypeOK, detach
  <2>5. QED BY <2>1, <2>2, <2>3, <2>4 DEF TypeOK
<1>2. Alive /\ Alive' /\ native # "none"
  BY DEF detach, Alive
<1>3. QED BY <1>1, <1>2, LetGo DEF detach

\* ~thread: a handle from this_thread::get lets go, any other ends the program.
LEMMA releaseTInv ==
  ASSUME IsFiniteSet(Handles), TInv, NEW h \in Handles, release(h)
  PROVE  TInv'
<1>1. TypeOK'
  <2>1. tdata' \in [Handles -> BOOLEAN] /\ transient' \in [Handles -> BOOLEAN]
    BY FlagTyped DEF TInv, TypeOK, release
  <2>2. use_count' \in Int /\ data' \in {"none", "live", "freed"}
    BY DEF TInv, TypeOK, release, Release
  <2>3. child' \in Children /\ native' \in Natives
    BY DEF TInv, TypeOK, release, Children, Natives
  <2>4. terminated' \in BOOLEAN /\ gets' \in Nat
    BY DEF TInv, TypeOK, release
  <2>5. QED BY <2>1, <2>2, <2>3, <2>4 DEF TypeOK
<1>2. CASE transient[h]
  <2>1. native # "none" /\ Alive /\ Alive'
    BY <1>2 DEF release, Alive, TInv, Counts
  <2>2. QED BY <1>1, <1>2, <2>1, LetGo DEF release
<1>3. CASE ~transient[h]
  <2>1. /\ terminated' = TRUE /\ tdata' = [tdata EXCEPT ![h] = FALSE]
        /\ UNCHANGED <<transient, child, native, data>>
    BY <1>3 DEF release
  <2>2. \A g \in Handles : tdata'[g] => tdata[g]
    BY <2>1 DEF TInv, TypeOK
  <2>3. Counts'
    BY <2>1, <2>2 DEF TInv, Counts, Alive, Attached
  <2>4. DataOutlivesUses'
    BY <2>1, <2>2 DEF TInv, DataOutlivesUses, Alive, Attached
  <2>5. QED BY <1>1, <2>3, <2>4 DEF TInv
<1>4. QED BY <1>2, <1>3

(***************************************************************************)
(* The theorems.                                                           *)
(***************************************************************************)

\* At first there is no thread.
LEMMA InitTInv ==
  ASSUME Init
  PROVE  TInv
<1>1. TypeOK
  <2>1. tdata \in [Handles -> BOOLEAN] /\ transient \in [Handles -> BOOLEAN]
    <3>1. [h \in Handles |-> FALSE] \in [Handles -> BOOLEAN]
      OBVIOUS
    <3>2. tdata = [h \in Handles |-> FALSE] /\ transient = tdata
      BY DEF Init
    <3>3. QED BY <3>1, <3>2, Zenon
  <2>2. use_count = 0 /\ data = "none" /\ child = "none" /\ native = "none" /\ gets = 0
    BY DEF Init
  <2>3. terminated = FALSE
    BY DEF Init
  <2>4. terminated \in BOOLEAN
    BY <2>3, Zenon
  <2>5. QED BY <2>1, <2>2, <2>4 DEF TypeOK, Children, Natives
<1>2. Counts /\ DataOutlivesUses
  BY DEF Init, Counts, DataOutlivesUses, Attached
<1>3. QED BY <1>1, <1>2 DEF TInv

\* Every step keeps the invariant.
LEMMA NextTInv ==
  ASSUME IsFiniteSet(Handles), TInv, [Next]_vars
  PROVE  TInv'
<1>1. CASE UNCHANGED vars
  BY <1>1 DEF vars, handles, TInv, TypeOK, Counts, DataOutlivesUses, Alive, Attached,
              Users, Used
<1>2. QED BY <1>1, createTInv, child_attachTInv, ReturnsTInv, thread_exit_handlerTInv, getTInv,
             MoveTInv, joinTInv, detachTInv, releaseTInv DEF Next, Seeding

\* Nobody counts when the thread has ended and every handle is empty.
LEMMA TInvFrees ==
  ASSUME IsFiniteSet(Handles), TInv
  PROVE  DataFreed
<1> SUFFICES ASSUME Alive, child = "ended", native # "none", \A h \in Handles : ~tdata[h]
             PROVE  data = "freed" /\ use_count = 0
  BY DEF DataFreed
<1>1. Cardinality(Used) = 0
  BY UsedFinite
<1>2. Users = 0
  BY <1>1 DEF Users, Attached
<1>3. QED BY <1>2 DEF TInv, TypeOK, Counts

\* release, join, detach and the exit handler: whoever refers to a
\* thread_data finds it alive, as long as no detach comes before child_attach.
THEOREM DataLives ==
  ASSUME IsFiniteSet(Handles)
  PROVE  Spec => []DataOutlivesUses
<1>1. Init => TInv
  BY InitTInv
<1>2. TInv /\ [Next]_vars => TInv'
  BY NextTInv
<1>3. TInv => DataOutlivesUses
  BY DEF TInv
<1>4. QED BY <1>1, <1>2, <1>3, PTL DEF Spec

\* The last one to let go frees the data: when the thread has ended and every
\* handle is empty nothing is left.
THEOREM DataGoes ==
  ASSUME IsFiniteSet(Handles)
  PROVE  Spec => []DataFreed
<1>1. Init => TInv
  BY InitTInv
<1>2. TInv /\ [Next]_vars => TInv'
  BY NextTInv
<1>3. TInv => DataFreed
  BY TInvFrees
<1>4. QED BY <1>1, <1>2, <1>3, PTL DEF Spec
=============================================================================
