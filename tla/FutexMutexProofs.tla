-------------------------- MODULE FutexMutexProofs --------------------------
(***************************************************************************)
(* shared_mutex excludes and timed_mutex forgets no sleeper, for any       *)
(* finite set of threads and any number of calls.                          *)
(***************************************************************************)
EXTENDS FutexMutex, FiniteSetTheorems, SequenceTheorems, TLAPS

(***************************************************************************)
(* What is left of an operation: X0 .. X3 of lock_exclusive, S0 .. S3 of   *)
(* lock_shared (SW for the first reader, who has to take writer_lock), UW  *)
(* of an unlock that gives writer_lock back, R0 of unlock_shared.          *)
(***************************************************************************)
X0 == << <<"lock", "self">>, <<"lock", "writer">>, <<"unlock", "self">>, <<"own", "exclusive">> >>
X1 == << <<"lock", "writer">>, <<"unlock", "self">>, <<"own", "exclusive">> >>
X2 == << <<"unlock", "self">>, <<"own", "exclusive">> >>
X3 == << <<"own", "exclusive">> >>
S0 == << <<"lock", "self">>, <<"add", "">>, <<"unlock", "self">>, <<"own", "shared">> >>
S1 == << <<"add", "">>, <<"unlock", "self">>, <<"own", "shared">> >>
SW == << <<"lock", "writer">>, <<"unlock", "self">>, <<"own", "shared">> >>
S2 == << <<"unlock", "self">>, <<"own", "shared">> >>
S3 == << <<"own", "shared">> >>
UW == << <<"unlock", "writer">> >>
R0 == << <<"sub", "">> >>

Programs == {<<>>, X0, X1, X2, X3, S0, S1, SW, S2, S3, UW, R0}

TypeOK ==
  /\ locked \in [Locks -> BOOLEAN] /\ busy \in [Locks -> BOOLEAN]
  /\ sleeping \in [Locks -> SUBSET Threads]
  /\ pc \in [Threads -> {"idle", "next", "block", "wait", "asleep", "spin", "clear", "wake"}]
  /\ todo \in [Threads -> Programs]
  /\ mode \in [Threads -> {"none", "shared", "exclusive"}]

\* Which accesses belong to which call; a thread holds only between operations.
Shape ==
  \A t \in Threads :
    /\ pc[t] = "idle" => todo[t] = <<>>
    /\ pc[t] # "idle" => mode[t] = "none"
    /\ pc[t] \in {"block", "wait", "asleep"} => todo[t] \in {X0, X1, S0, SW}
    /\ pc[t] \in {"spin", "clear", "wake"} => todo[t] \in {X2, S2, UW}

\* Who has taken self_lock and not released it; who has writer_lock alone;
\* who is in reader_count; and which of those stand for writer_lock.
HoldsSelf(t) == todo[t] \in {X1, S1, SW} \/ (todo[t] \in {X2, S2} /\ pc[t] = "next")
Keeps(t)     == todo[t] \in {X2, X3} \/ mode[t] = "exclusive" \/ (todo[t] = UW /\ pc[t] = "next")
Counted(t)   == todo[t] \in {SW, S2, S3, R0} \/ mode[t] = "shared"
Reads(t)     == Counted(t) /\ todo[t] # SW

SelfHeld ==
  /\ \A t, u \in Threads : HoldsSelf(t) /\ HoldsSelf(u) => t = u
  /\ locked["self"] <=> \E t \in Threads : HoldsSelf(t)

WriterHeld ==
  /\ \A t, u \in Threads : Keeps(t) /\ Keeps(u) => t = u
  /\ \A t, u \in Threads : Keeps(t) => ~Reads(u)
  /\ locked["writer"] <=> \E t \in Threads : Keeps(t) \/ Reads(t)

\* reader_count counts; the first reader is alone until it has writer_lock.
Readers ==
  /\ reader_count = Cardinality({t \in Threads : Counted(t)})
  /\ \A t, u \in Threads : todo[t] = SW /\ Counted(u) => t = u

\* On its way to lock_blocking, which sets busy, or to FUTEX_WAKE.
Wakes(t, m) ==
  /\ todo[t] # <<>> /\ M(t) = m
  /\ pc[t] \in {"block", "wait", "wake"} \/ (pc[t] = "asleep" /\ t \notin sleeping[m])
Unlocks(t, m) == todo[t] # <<>> /\ M(t) = m /\ pc[t] \in {"spin", "clear"}

Sleepers ==
  \A m \in Locks :
    /\ \A t \in sleeping[m] : pc[t] = "asleep" /\ M(t) = m
    /\ sleeping[m] # {} => busy[m] \/ \E t \in Threads : Wakes(t, m)
    /\ sleeping[m] # {} => locked[m] \/ \E t \in Threads : Wakes(t, m) \/ Unlocks(t, m)

MInv == TypeOK /\ Shape /\ SelfHeld /\ WriterHeld /\ Readers /\ Sleepers

(***************************************************************************)
(* The programs.                                                           *)
(***************************************************************************)
LEMMA Heads ==
  /\ \A p \in {X0, S0} : p # <<>> /\ p[1][1] = "lock" /\ p[1][2] = "self"
  /\ \A p \in {X1, SW} : p # <<>> /\ p[1][1] = "lock" /\ p[1][2] = "writer"
  /\ \A p \in {X2, S2} : p # <<>> /\ p[1][1] = "unlock" /\ p[1][2] = "self"
  /\ UW # <<>> /\ UW[1][1] = "unlock" /\ UW[1][2] = "writer"
  /\ X3 # <<>> /\ X3[1][1] = "own" /\ X3[1][2] = "exclusive"
  /\ S3 # <<>> /\ S3[1][1] = "own" /\ S3[1][2] = "shared"
  /\ S1 # <<>> /\ S1[1][1] = "add" /\ S1[1][2] = ""
  /\ R0 # <<>> /\ R0[1][1] = "sub" /\ R0[1][2] = ""
<1>1. /\ X0 # <<>> /\ X0[1][1] = "lock" /\ X0[1][2] = "self"
      /\ S0 # <<>> /\ S0[1][1] = "lock" /\ S0[1][2] = "self"
  BY DEF X0, S0
<1>2. /\ X1 # <<>> /\ X1[1][1] = "lock" /\ X1[1][2] = "writer"
      /\ SW # <<>> /\ SW[1][1] = "lock" /\ SW[1][2] = "writer"
  BY DEF X1, SW
<1>3. /\ X2 # <<>> /\ X2[1][1] = "unlock" /\ X2[1][2] = "self"
      /\ S2 # <<>> /\ S2[1][1] = "unlock" /\ S2[1][2] = "self"
  BY DEF X2, S2
<1>4. /\ UW # <<>> /\ UW[1][1] = "unlock" /\ UW[1][2] = "writer"
      /\ R0 # <<>> /\ R0[1][1] = "sub" /\ R0[1][2] = ""
  BY DEF UW, R0
<1>5. /\ X3 # <<>> /\ X3[1][1] = "own" /\ X3[1][2] = "exclusive"
      /\ S3 # <<>> /\ S3[1][1] = "own" /\ S3[1][2] = "shared"
  BY DEF X3, S3
<1>6. S1 # <<>> /\ S1[1][1] = "add" /\ S1[1][2] = ""
  BY DEF S1
<1>7. QED BY <1>1, <1>2, <1>3, <1>4, <1>5, <1>6

\* One element put in front of a sequence of none or of two.
LEMMA InFront ==
  ASSUME NEW a, NEW b, NEW c
  PROVE  /\ <<a>> \o <<b, c>> = <<a, b, c>> /\ <<>> \o <<b, c>> = <<b, c>>
         /\ <<a>> \o <<>> = <<a>> /\ <<>> \o <<>> = <<>>
<1> DEFINE S == {a, b, c}
<1>1. <<a>> \in Seq(S) /\ <<b, c>> \in Seq(S) /\ <<a, b, c>> \in Seq(S) /\ <<>> \in Seq(S)
  OBVIOUS
<1>2. <<a>> \o <<b, c>> \in Seq(S) /\ Len(<<a>> \o <<b, c>>) = 3
  BY <1>1, ConcatProperties
<1>3. \A i \in 1 .. 3 : (<<a>> \o <<b, c>>)[i] = <<a, b, c>>[i]
  BY <1>1, ConcatProperties
<1>4. <<a>> \o <<b, c>> = <<a, b, c>>
  BY <1>1, <1>2, <1>3, SeqEqual
<1>5. QED BY <1>1, <1>4, ConcatEmptySeq

LEMMA TailOfFour ==
  ASSUME NEW a, NEW b, NEW c, NEW d
  PROVE  Tail(<<a, b, c, d>>) = <<b, c, d>>
<1> DEFINE S == {a, b, c, d}
           s == <<a, b, c, d>>
           u == <<b, c, d>>
<1>1. s \in Seq(S) /\ u \in Seq(S) /\ s # <<>> /\ Len(s) = 4 /\ Len(u) = 3
  OBVIOUS
<1>2. \A i \in 1 .. 3 : s[i + 1] = u[i]
  OBVIOUS
<1> DEFINE r == Tail(s)
<1> HIDE DEF s, u
<1> HIDE DEF S
<1>3. r \in Seq(S) /\ Len(r) = 3 /\ \A i \in 1 .. 3 : r[i] = s[i + 1]
  <2>1. r \in Seq(S) /\ Len(r) = Len(s) - 1 /\ \A i \in 1 .. Len(r) : r[i] = s[i + 1]
    BY <1>1, HeadTailProperties
  <2>2. Len(s) - 1 = 3
    BY <1>1
  <2>3. Len(r) = 3
    BY <2>1, <2>2, Zenon
  <2>4. QED BY <2>1, <2>3, Zenon
<1> HIDE DEF r
<1>4. r = u
  BY <1>1, <1>2, <1>3, SeqEqual
<1>5. QED BY <1>4 DEF s, u, r

LEMMA Tails ==
  /\ Tail(X0) = X1 /\ Tail(X1) = X2 /\ Tail(X2) = X3
  /\ Tail(S0) = S1 /\ Tail(SW) = S2 /\ Tail(S2) = S3
  /\ Tail(UW) = <<>>
  /\ << <<"lock", "writer">> >> \o Tail(S1) = SW /\ <<>> \o Tail(S1) = S2
  /\ << <<"unlock", "writer">> >> \o Tail(R0) = UW /\ <<>> \o Tail(R0) = <<>>
<1>1. Tail(X0) = X1 /\ Tail(S0) = S1
  <2>1. Tail(X0) = X1
    BY TailOfFour DEF X0, X1
  <2>2. Tail(S0) = S1
    BY TailOfFour DEF S0, S1
  <2>3. QED BY <2>1, <2>2
<1>2. Tail(X1) = X2 /\ Tail(X2) = X3
  BY DEF X1, X2, X3
<1>3. Tail(SW) = S2 /\ Tail(S2) = S3 /\ Tail(UW) = <<>>
  BY DEF SW, S2, S3, UW
<1>4. Tail(S1) = S2 /\ Tail(R0) = <<>>
  BY DEF S1, S2, R0
<1>5. << <<"lock", "writer">> >> \o Tail(S1) = SW /\ <<>> \o Tail(S1) = S2
  <2> DEFINE a == <<"lock", "writer">>
             b == <<"unlock", "self">>
             c == <<"own", "shared">>
  <2>1. S2 = <<b, c>> /\ SW = <<a, b, c>>
    BY DEF S2, SW
  <2> HIDE DEF a, b, c
  <2>2. <<a>> \o S2 = SW /\ <<>> \o S2 = S2
    BY <2>1, InFront
  <2>3. QED BY <1>4, <2>2 DEF a
<1>6. << <<"unlock", "writer">> >> \o Tail(R0) = UW /\ <<>> \o Tail(R0) = <<>>
  BY <1>4, InFront DEF UW
<1>7. QED BY <1>1, <1>2, <1>3, <1>5, <1>6

\* The first call tells all but three pairs of programs apart.
LEMMA Apart ==
  X0 # S0 /\ X1 # SW /\ X2 # S2
<1>1. X0[2] # S0[2]
  BY DEF X0, S0
<1>2. X1[3] # SW[3]
  BY DEF X1, SW
<1>3. X2[2] # S2[2]
  BY DEF X2, S2
<1>4. QED BY <1>1, <1>2, <1>3

LEMMA Firsts ==
  ASSUME NEW t, todo[t] \in Programs
  PROVE  /\ First(t, "lock") <=> todo[t] \in {X0, S0, X1, SW}
         /\ First(t, "unlock") <=> todo[t] \in {X2, S2, UW}
         /\ First(t, "add") <=> todo[t] = S1
         /\ First(t, "sub") <=> todo[t] = R0
         /\ First(t, "own") <=> todo[t] \in {X3, S3}
         /\ todo[t] \in {X0, S0, X2, S2} => M(t) = "self"
         /\ todo[t] \in {X1, SW, UW} => M(t) = "writer"
         /\ todo[t] = X3 => M(t) = "exclusive"
         /\ todo[t] = S3 => M(t) = "shared"
         /\ todo[t] \in {S1, R0} => M(t) = ""
<1>1. First(t, "lock") <=> todo[t] \in {X0, S0, X1, SW}
  BY Heads DEF First, Programs
<1>2. First(t, "unlock") <=> todo[t] \in {X2, S2, UW}
  BY Heads DEF First, Programs
<1>3. First(t, "own") <=> todo[t] \in {X3, S3}
  BY Heads DEF First, Programs
<1>4. (First(t, "add") <=> todo[t] = S1) /\ (First(t, "sub") <=> todo[t] = R0)
  BY Heads DEF First, Programs
<1>5. /\ todo[t] \in {X0, S0, X2, S2} => M(t) = "self"
      /\ todo[t] \in {X1, SW, UW} => M(t) = "writer"
      /\ todo[t] = X3 => M(t) = "exclusive"
      /\ todo[t] = S3 => M(t) = "shared"
      /\ todo[t] \in {S1, R0} => M(t) = ""
  BY Heads DEF M
<1>6. QED BY <1>1, <1>2, <1>3, <1>4, <1>5

LEMMA Distinct ==
  /\ <<>> \notin {X0, X1, X2, X3, S0, S1, SW, S2, S3, UW, R0}
  /\ X0 \notin {X1, X2, X3, S0, S1, SW, S2, S3, UW, R0}
  /\ X1 \notin {X2, X3, S0, S1, SW, S2, S3, UW, R0}
  /\ X2 \notin {X3, S0, S1, SW, S2, S3, UW, R0}
  /\ X3 \notin {S0, S1, SW, S2, S3, UW, R0}
  /\ S0 \notin {S1, SW, S2, S3, UW, R0}
  /\ S1 \notin {SW, S2, S3, UW, R0}
  /\ SW \notin {S2, S3, UW, R0}
  /\ S2 \notin {S3, UW, R0}
  /\ S3 \notin {UW, R0}
  /\ UW \notin {R0}
<1>1. <<>> \notin {X0, X1, X2, X3, S0, S1, SW, S2, S3, UW, R0}
  BY Heads, Apart
<1>2. X0 \notin {X1, X2, X3, S0, S1, SW, S2, S3, UW, R0}
  BY Heads, Apart
<1>3. X1 \notin {X2, X3, S0, S1, SW, S2, S3, UW, R0}
  BY Heads, Apart
<1>4. X2 \notin {X3, S0, S1, SW, S2, S3, UW, R0}
  BY Heads, Apart
<1>5. X3 \notin {S0, S1, SW, S2, S3, UW, R0}
  BY Heads, Apart
<1>6. S0 \notin {S1, SW, S2, S3, UW, R0}
  BY Heads, Apart
<1>7. S1 \notin {SW, S2, S3, UW, R0}
  BY Heads, Apart
<1>8. SW \notin {S2, S3, UW, R0}
  BY Heads, Apart
<1>9. S2 \notin {S3, UW, R0}
  BY Heads, Apart
<1>10. S3 \notin {UW, R0}
  BY Heads, Apart
<1>11. UW \notin {R0}
  BY Heads, Apart
<1>12. QED BY <1>1, <1>2, <1>3, <1>4, <1>5, <1>6, <1>7, <1>8, <1>9, <1>10, <1>11

(***************************************************************************)
(* What a step of t does to who holds what: nothing, or one of the rules.  *)
(***************************************************************************)
Others(t) == \A u \in Threads : u # t => pc'[u] = pc[u] /\ todo'[u] = todo[u] /\ mode'[u] = mode[u]

LEMMA Frame ==
  ASSUME NEW t \in Threads, Others(t), NEW u \in Threads, u # t
  PROVE  /\ HoldsSelf(u)' <=> HoldsSelf(u)
         /\ Keeps(u)' <=> Keeps(u)
         /\ Counted(u)' <=> Counted(u)
         /\ Reads(u)' <=> Reads(u)
  BY DEF Others, HoldsSelf, Keeps, Counted, Reads

LEMMA SelfRule ==
  ASSUME SelfHeld, NEW t \in Threads, Others(t),
         \/ /\ HoldsSelf(t)' <=> HoldsSelf(t)
            /\ locked'["self"] = locked["self"]
         \/ ~locked["self"] /\ HoldsSelf(t)' /\ locked'["self"] = TRUE
         \/ HoldsSelf(t) /\ ~HoldsSelf(t)' /\ locked'["self"] = FALSE
  PROVE  SelfHeld'
  BY Frame DEF SelfHeld

LEMMA WriterRule ==
  ASSUME WriterHeld, NEW t \in Threads, Others(t),
         \/ /\ locked'["writer"] = locked["writer"]
            /\ Keeps(t)' <=> Keeps(t)
            /\ Reads(t)' <=> Reads(t)
         \/ ~locked["writer"] /\ locked'["writer"] = TRUE /\ (Keeps(t)' <=> ~Reads(t)')
         \/ Keeps(t) /\ ~Keeps(t)' /\ ~Reads(t)' /\ locked'["writer"] = FALSE
         \/ /\ locked'["writer"] = locked["writer"]
            /\ ~Keeps(t) /\ ~Keeps(t)'
            /\ \E u \in Threads : u # t /\ Reads(u)
         \/ /\ locked'["writer"] = locked["writer"]
            /\ Reads(t) /\ ~Reads(t)' /\ Keeps(t)'
            /\ \A u \in Threads : u # t => ~Reads(u)
  PROVE  WriterHeld'
  BY Frame DEF WriterHeld

LEMMA ReadersRule ==
  ASSUME IsFiniteSet(Threads), Readers, NEW t \in Threads, Others(t),
         todo'[t] = SW => todo[t] = SW \/ \A u \in Threads : ~Counted(u),
         \/ reader_count' = reader_count /\ (Counted(t)' <=> Counted(t))
         \/ /\ reader_count' = reader_count + 1 /\ ~Counted(t) /\ Counted(t)'
            /\ \A u \in Threads : todo[u] # SW
         \/ reader_count' = reader_count - 1 /\ Counted(t) /\ ~Counted(t)'
  PROVE  Readers'
<1> DEFINE C == {u \in Threads : Counted(u)}
           D == {u \in Threads : Counted(u)'}
<1>1. IsFiniteSet(C)
  BY FS_Subset
<1>2. reader_count' = Cardinality(D)
  <2>1. CASE reader_count' = reader_count /\ (Counted(t)' <=> Counted(t))
    <3>1. D = C
      BY <2>1, Frame
    <3>2. QED BY <2>1, <3>1 DEF Readers
  <2>2. CASE reader_count' = reader_count + 1 /\ ~Counted(t) /\ Counted(t)'
    <3>1. D = C \cup {t} /\ t \notin C
      BY <2>2, Frame
    <3>2. QED BY <2>2, <3>1, <1>1, FS_AddElement DEF Readers
  <2>3. CASE reader_count' = reader_count - 1 /\ Counted(t) /\ ~Counted(t)'
    <3>1. D = C \ {t} /\ t \in C
      BY <2>3, Frame
    <3>2. QED BY <2>3, <3>1, <1>1, FS_RemoveElement DEF Readers
  <2>4. QED BY <2>1, <2>2, <2>3
<1>3. \A u, w \in Threads : todo'[u] = SW /\ Counted(w)' => u = w
  <2>1. \A w \in Threads : todo'[t] = SW /\ Counted(w)' => t = w
    BY Frame DEF Readers
  <2>2. \A u \in Threads : u # t /\ todo[u] = SW => ~Counted(t)'
    BY DEF Readers
  <2>3. QED BY <2>1, <2>2, Frame DEF Readers, Others
<1>4. QED BY <1>2, <1>3 DEF Readers

LEMMA FrameWakes ==
  ASSUME NEW t \in Threads, Others(t), sleeping' = sleeping,
         NEW u \in Threads, u # t, NEW m \in Locks
  PROVE  /\ Wakes(u, m)' <=> Wakes(u, m)
         /\ Unlocks(u, m)' <=> Unlocks(u, m)
  BY DEF Others, Wakes, Unlocks, M

LEMMA SleepRule ==
  ASSUME TypeOK, Sleepers, NEW t \in Threads, Others(t), sleeping' = sleeping,
         \A m \in Locks :
           /\ t \notin sleeping[m]
           /\ busy[m] \/ Wakes(t, m) => busy'[m] \/ Wakes(t, m)'
           /\ locked[m] /\ (busy[m] \/ Wakes(t, m)) =>
                  locked'[m] \/ Wakes(t, m)' \/ Unlocks(t, m)'
           /\ Wakes(t, m) \/ Unlocks(t, m) => locked'[m] \/ Wakes(t, m)' \/ Unlocks(t, m)'
  PROVE  Sleepers'
<1> SUFFICES ASSUME NEW m \in Locks
             PROVE  /\ \A u \in sleeping[m] : pc'[u] = "asleep" /\ M(u)' = m
                    /\ sleeping[m] # {} => busy'[m] \/ \E u \in Threads : Wakes(u, m)'
                    /\ sleeping[m] # {} =>
                         locked'[m] \/ \E u \in Threads : Wakes(u, m)' \/ Unlocks(u, m)'
  BY DEF Sleepers
<1>1. \A u \in sleeping[m] : u \in Threads /\ u # t
  BY DEF TypeOK
<1>2. \A u \in sleeping[m] : pc'[u] = "asleep" /\ M(u)' = m
  BY <1>1 DEF Sleepers, Others, M
<1>3. sleeping[m] # {} => busy'[m] \/ \E u \in Threads : Wakes(u, m)'
  BY FrameWakes DEF Sleepers
<1>4. sleeping[m] # {} => locked'[m] \/ \E u \in Threads : Wakes(u, m)' \/ Unlocks(u, m)'
  BY FrameWakes DEF Sleepers
<1>5. QED BY <1>2, <1>3, <1>4

\* A step that clears no bit and takes no thread off its way to a wake-up.
LEMMA CalmRule ==
  ASSUME TypeOK, Sleepers, NEW t \in Threads, Others(t), sleeping' = sleeping,
         \A m \in Locks : t \notin sleeping[m],
         \A m \in Locks : (busy[m] => busy'[m]) /\ (locked[m] => locked'[m]),
         \A m \in Locks : Wakes(t, m) => Wakes(t, m)' \/ (busy'[m] /\ locked'[m]),
         \A m \in Locks : Unlocks(t, m) => Unlocks(t, m)' \/ Wakes(t, m)' \/ locked'[m]
  PROVE  Sleepers'
<1>1. ASSUME NEW m \in Locks
      PROVE  /\ t \notin sleeping[m]
             /\ busy[m] \/ Wakes(t, m) => busy'[m] \/ Wakes(t, m)'
             /\ locked[m] /\ (busy[m] \/ Wakes(t, m)) =>
                  locked'[m] \/ Wakes(t, m)' \/ Unlocks(t, m)'
             /\ Wakes(t, m) \/ Unlocks(t, m) => locked'[m] \/ Wakes(t, m)' \/ Unlocks(t, m)'
  <2>1. t \notin sleeping[m]
    OBVIOUS
  <2>2. busy[m] \/ Wakes(t, m) => busy'[m] \/ Wakes(t, m)'
    OBVIOUS
  <2>3. locked[m] => locked'[m]
    OBVIOUS
  <2>4. Wakes(t, m) => Wakes(t, m)' \/ locked'[m]
    OBVIOUS
  <2>5. Unlocks(t, m) => Unlocks(t, m)' \/ Wakes(t, m)' \/ locked'[m]
    OBVIOUS
  <2>6. Wakes(t, m) \/ Unlocks(t, m) => locked'[m] \/ Wakes(t, m)' \/ Unlocks(t, m)'
    BY <2>4, <2>5
  <2>7. locked[m] /\ (busy[m] \/ Wakes(t, m)) =>
                  locked'[m] \/ Wakes(t, m)' \/ Unlocks(t, m)'
    BY <2>3
  <2>8. QED BY <2>1, <2>2, <2>6, <2>7
<1>2. QED BY <1>1, SleepRule

(***************************************************************************)
(* The actions.                                                            *)
(***************************************************************************)
LEMMA lockInv ==
  ASSUME IsFiniteSet(Threads), MInv, NEW t \in Threads, lock(t)
  PROVE  MInv'
<1> USE DEF MInv
<1>1. /\ pc[t] = "next" /\ todo[t] \in {X0, S0, X1, SW} /\ mode' = mode
      /\ busy' = busy /\ sleeping' = sleeping /\ reader_count' = reader_count
  BY Firsts DEF lock, TypeOK, At
<1>2. /\ M(t) \in Locks
      /\ todo[t] \in {X0, S0} => M(t) = "self"
      /\ todo[t] \in {X1, SW} => M(t) = "writer"
  BY <1>1, Firsts DEF TypeOK, Locks
<1>3. CASE ~locked[M(t)] /\ locked' = [locked EXCEPT ![M(t)] = TRUE] /\ Done(t)
  <2>1. /\ pc' = [pc EXCEPT ![t] = "next"] /\ pc'[t] = "next"
        /\ todo' = [todo EXCEPT ![t] = Tail(todo[t])]
        /\ mode[t] = "none" /\ mode'[t] = "none"
    BY <1>1, <1>3 DEF Done, Goto, TypeOK, Shape
  <2>2. /\ todo[t] = X0 => todo'[t] = X1
        /\ todo[t] = S0 => todo'[t] = S1
        /\ todo[t] = X1 => todo'[t] = X2
        /\ todo[t] = SW => todo'[t] = S2
    BY <2>1, Tails DEF TypeOK
  <2>3. Others(t)
    BY <1>1, <2>1 DEF Others, TypeOK
  <2>4. TypeOK'
    BY <1>1, <1>2, <1>3, <2>1, <2>2 DEF TypeOK, Programs
  <2>5. Shape'
    BY <1>1, <2>1, <2>3 DEF Shape, Others
  <2>6. /\ M(t) = "self" => ~locked["self"] /\ locked'["self"] = TRUE /\ locked'["writer"] = locked["writer"]
        /\ M(t) = "writer" => ~locked["writer"] /\ locked'["writer"] = TRUE /\ locked'["self"] = locked["self"]
    BY <1>2, <1>3 DEF TypeOK, Locks
  <2>7. SelfHeld'
    BY <1>1, <1>2, <2>1, <2>2, <2>3, <2>6, SelfRule, Distinct DEF HoldsSelf
  <2>8. WriterHeld'
    BY <1>1, <1>2, <2>1, <2>2, <2>3, <2>6, WriterRule, Distinct DEF Keeps, Reads, Counted
  <2>9. Readers'
    BY <1>1, <2>1, <2>2, <2>3, ReadersRule, Distinct DEF Counted
  <2>10. Sleepers'
    BY <1>1, <1>2, <1>3, <2>1, <2>3, <2>6, SleepRule DEF Wakes, Unlocks, Locks, Sleepers
  <2>11. QED BY <2>4, <2>5, <2>7, <2>8, <2>9, <2>10
<1>4. CASE locked[M(t)] /\ Goto(t, "block") /\ UNCHANGED <<locked, todo>>
  <2>1. pc' = [pc EXCEPT ![t] = "block"] /\ pc'[t] = "block" /\ todo' = todo /\ locked' = locked
    BY <1>4 DEF Goto, TypeOK
  <2>3. Others(t)
    BY <1>1, <2>1 DEF Others, TypeOK
  <2>4. TypeOK'
    BY <1>1, <2>1 DEF TypeOK
  <2>5. Shape'
    BY <1>1, <2>1, <2>3 DEF Shape, Others
  <2>7. SelfHeld'
    BY <1>1, <2>1, <2>3, SelfRule, Distinct DEF HoldsSelf
  <2>8. WriterHeld'
    BY <1>1, <2>1, <2>3, WriterRule, Distinct DEF Keeps, Reads, Counted
  <2>9. Readers'
    BY <1>1, <2>1, <2>3, ReadersRule DEF Counted
  <2>10. Sleepers'
    BY <1>1, <2>1, <2>3, SleepRule DEF Wakes, Unlocks, Sleepers
  <2>11. QED BY <2>4, <2>5, <2>7, <2>8, <2>9, <2>10
<1>5. QED BY <1>3, <1>4 DEF lock

LEMMA lock_blockingInv ==
  ASSUME IsFiniteSet(Threads), MInv, NEW t \in Threads, lock_blocking(t)
  PROVE  MInv'
<1> USE DEF MInv
<1>1. /\ pc[t] = "block" /\ todo[t] \in {X0, S0, X1, SW} /\ mode' = mode
      /\ locked' = [locked EXCEPT ![M(t)] = TRUE] /\ busy' = [busy EXCEPT ![M(t)] = TRUE]
      /\ sleeping' = sleeping /\ reader_count' = reader_count
  BY DEF lock_blocking, Shape, At
<1>2. /\ M(t) \in Locks
      /\ todo[t] \in {X0, S0} => M(t) = "self"
      /\ todo[t] \in {X1, SW} => M(t) = "writer"
  BY <1>1, Firsts DEF TypeOK, Locks
<1>3. CASE ~locked[M(t)] /\ Done(t)
  <2>1. /\ pc' = [pc EXCEPT ![t] = "next"] /\ pc'[t] = "next"
        /\ todo' = [todo EXCEPT ![t] = Tail(todo[t])]
        /\ mode[t] = "none" /\ mode'[t] = "none"
    BY <1>1, <1>3 DEF Done, Goto, TypeOK, Shape
  <2>2. /\ todo[t] = X0 => todo'[t] = X1
        /\ todo[t] = S0 => todo'[t] = S1
        /\ todo[t] = X1 => todo'[t] = X2
        /\ todo[t] = SW => todo'[t] = S2
    BY <2>1, Tails DEF TypeOK
  <2>3. Others(t)
    BY <1>1, <2>1 DEF Others, TypeOK
  <2>4. TypeOK'
    BY <1>1, <1>2, <2>1, <2>2 DEF TypeOK, Programs
  <2>5. Shape'
    BY <1>1, <2>1, <2>3 DEF Shape, Others
  <2>6. /\ M(t) = "self" => ~locked["self"] /\ locked'["self"] = TRUE /\ locked'["writer"] = locked["writer"]
        /\ M(t) = "writer" => ~locked["writer"] /\ locked'["writer"] = TRUE /\ locked'["self"] = locked["self"]
    BY <1>1, <1>2, <1>3 DEF TypeOK, Locks
  <2>7. SelfHeld'
    BY <1>1, <1>2, <2>1, <2>2, <2>3, <2>6, SelfRule, Distinct DEF HoldsSelf
  <2>8. WriterHeld'
    BY <1>1, <1>2, <2>1, <2>2, <2>3, <2>6, WriterRule, Distinct DEF Keeps, Reads, Counted
  <2>9. Readers'
    BY <1>1, <2>1, <2>2, <2>3, ReadersRule, Distinct DEF Counted
  <2>10. Sleepers'
    <3>1. \A m \in Locks : m # M(t) => busy'[m] = busy[m] /\ locked'[m] = locked[m] /\ ~Wakes(t, m) /\ ~Unlocks(t, m)
      BY <1>1 DEF Wakes, Unlocks, TypeOK
    <3>2. busy'[M(t)] = TRUE /\ locked'[M(t)] = TRUE
      BY <1>1, <1>2 DEF TypeOK
    <3>3. \A m \in Locks : t \notin sleeping[m]
      BY <1>1 DEF Sleepers
    <3>4. \A m \in Locks : (busy[m] => busy'[m]) /\ (locked[m] => locked'[m])
      BY <3>1, <3>2
    <3>5. \A m \in Locks : Wakes(t, m) \/ Unlocks(t, m) => busy'[m] /\ locked'[m]
      BY <3>1, <3>2
    <3>6. QED BY <1>1, <2>3, <3>3, <3>4, <3>5, CalmRule
  <2>11. QED BY <2>4, <2>5, <2>7, <2>8, <2>9, <2>10
<1>4. CASE locked[M(t)] /\ Goto(t, "wait") /\ UNCHANGED todo
  <2>1. pc' = [pc EXCEPT ![t] = "wait"] /\ pc'[t] = "wait" /\ todo' = todo /\ locked' = locked
    BY <1>1, <1>2, <1>4 DEF Goto, TypeOK
  <2>3. Others(t)
    BY <1>1, <2>1 DEF Others, TypeOK
  <2>4. TypeOK'
    BY <1>1, <2>1 DEF TypeOK
  <2>5. Shape'
    BY <1>1, <2>1, <2>3 DEF Shape, Others
  <2>7. SelfHeld'
    BY <1>1, <2>1, <2>3, SelfRule, Distinct DEF HoldsSelf
  <2>8. WriterHeld'
    BY <1>1, <2>1, <2>3, WriterRule, Distinct DEF Keeps, Reads, Counted
  <2>9. Readers'
    BY <1>1, <2>1, <2>3, ReadersRule DEF Counted
  <2>10. Sleepers'
    <3>1. \A m \in Locks : busy[m] => busy'[m]
      BY <1>1 DEF TypeOK
    <3>2. \A m \in Locks : Wakes(t, m) => Wakes(t, m)'
      BY <1>1, <2>1 DEF Wakes, M
    <3>3. \A m \in Locks : t \notin sleeping[m] /\ ~Unlocks(t, m)
      BY <1>1 DEF Sleepers, Unlocks
    <3>4. QED BY <1>1, <2>1, <2>3, <3>1, <3>2, <3>3, CalmRule
  <2>11. QED BY <2>4, <2>5, <2>7, <2>8, <2>9, <2>10
<1>5. QED BY <1>3, <1>4 DEF lock_blocking

LEMMA FutexWaitInv ==
  ASSUME IsFiniteSet(Threads), MInv, NEW t \in Threads, FutexWait(t)
  PROVE  MInv'
<1> USE DEF MInv
<1>1. /\ pc[t] = "wait" /\ todo[t] \in {X0, S0, X1, SW} /\ mode' = mode /\ todo' = todo
      /\ locked' = locked /\ busy' = busy /\ reader_count' = reader_count
  BY DEF FutexWait, Shape, At
<1>2. M(t) \in Locks /\ todo[t] # <<>>
  <2>1. M(t) \in Locks
    BY <1>1, Firsts DEF TypeOK, Locks
  <2>2. todo[t] # <<>>
    BY <1>1, Heads
  <2>3. QED BY <2>1, <2>2
<1>3. CASE /\ locked[M(t)] /\ busy[M(t)]
           /\ sleeping' = [sleeping EXCEPT ![M(t)] = @ \cup {t}]
           /\ Goto(t, "asleep")
  <2>1. pc' = [pc EXCEPT ![t] = "asleep"] /\ pc'[t] = "asleep"
    BY <1>3 DEF Goto, TypeOK
  <2>3. Others(t)
    BY <1>1, <2>1 DEF Others, TypeOK
  <2>4. TypeOK'
    BY <1>1, <1>2, <1>3, <2>1 DEF TypeOK
  <2>5. Shape'
    BY <1>1, <2>1, <2>3 DEF Shape, Others
  <2>7. SelfHeld'
    BY <1>1, <2>1, <2>3, SelfRule, Distinct DEF HoldsSelf
  <2>8. WriterHeld'
    BY <1>1, <2>1, <2>3, WriterRule, Distinct DEF Keeps, Reads, Counted
  <2>9. Readers'
    BY <1>1, <2>1, <2>3, ReadersRule DEF Counted
  <2>10. Sleepers'
    <3> SUFFICES ASSUME NEW m \in Locks
                 PROVE  /\ \A u \in sleeping'[m] : pc'[u] = "asleep" /\ M(u)' = m
                        /\ sleeping'[m] # {} => busy'[m] \/ \E u \in Threads : Wakes(u, m)'
                        /\ sleeping'[m] # {} =>
                             locked'[m] \/ \E u \in Threads : Wakes(u, m)' \/ Unlocks(u, m)'
      BY DEF Sleepers
    <3>1. CASE m = M(t)
      <4>1. sleeping'[m] = sleeping[m] \cup {t}
        BY <1>3, <3>1 DEF TypeOK
      <4>2. \A u \in sleeping[m] : u \in Threads /\ pc[u] = "asleep" /\ M(u) = m
        BY DEF Sleepers, TypeOK
      <4>3. QED BY <1>1, <1>3, <2>1, <2>3, <3>1, <4>1, <4>2 DEF Others, M
    <3>2. CASE m # M(t)
      <4>1. sleeping'[m] = sleeping[m]
        BY <1>3, <3>2 DEF TypeOK
      <4>2. \A u \in sleeping[m] : u \in Threads /\ pc[u] = "asleep" /\ M(u) = m
        BY DEF Sleepers, TypeOK
      <4>3. \A u \in Threads : (Wakes(u, m) => Wakes(u, m)') /\ (Unlocks(u, m) => Unlocks(u, m)')
        BY <1>1, <2>3, <3>2, <4>1 DEF Wakes, Unlocks, Others, M
      <4>4. \A u \in sleeping'[m] : pc'[u] = "asleep" /\ M(u)' = m
        BY <1>1, <2>3, <4>1, <4>2 DEF Others, M
      <4>5. QED BY <1>1, <4>1, <4>3, <4>4 DEF Sleepers
    <3>3. QED BY <3>1, <3>2
  <2>11. QED BY <2>4, <2>5, <2>7, <2>8, <2>9, <2>10
<1>4. CASE Goto(t, "block") /\ UNCHANGED sleeping
  <2>1. pc' = [pc EXCEPT ![t] = "block"] /\ pc'[t] = "block"
    BY <1>4 DEF Goto, TypeOK
  <2>3. Others(t)
    BY <1>1, <2>1 DEF Others, TypeOK
  <2>4. TypeOK'
    BY <1>1, <1>4, <2>1 DEF TypeOK
  <2>5. Shape'
    BY <1>1, <2>1, <2>3 DEF Shape, Others
  <2>7. SelfHeld'
    BY <1>1, <2>1, <2>3, SelfRule, Distinct DEF HoldsSelf
  <2>8. WriterHeld'
    BY <1>1, <2>1, <2>3, WriterRule, Distinct DEF Keeps, Reads, Counted
  <2>9. Readers'
    BY <1>1, <2>1, <2>3, ReadersRule DEF Counted
  <2>10. Sleepers'
    <3>1. \A m \in Locks : (Wakes(t, m) => Wakes(t, m)') /\ ~Unlocks(t, m)
      BY <1>1, <1>4, <2>1 DEF Wakes, Unlocks, M
    <3>2. \A m \in Locks : t \notin sleeping[m]
      BY <1>1 DEF Sleepers
    <3>3. QED BY <1>1, <1>4, <2>3, <3>1, <3>2, CalmRule
  <2>11. QED BY <2>4, <2>5, <2>7, <2>8, <2>9, <2>10
<1>5. QED BY <1>3, <1>4 DEF FutexWait

LEMMA WokenInv ==
  ASSUME IsFiniteSet(Threads), MInv, NEW t \in Threads, Woken(t)
  PROVE  MInv'
<1> USE DEF MInv
<1>1. /\ pc[t] = "asleep" /\ todo[t] \in {X0, S0, X1, SW} /\ t \notin sleeping[M(t)]
      /\ mode' = mode /\ todo' = todo
      /\ locked' = locked /\ busy' = busy /\ sleeping' = sleeping /\ reader_count' = reader_count
  BY DEF Woken, Shape, At, words
<1>2. pc' = [pc EXCEPT ![t] = "block"] /\ pc'[t] = "block"
  BY DEF Woken, Goto, TypeOK
<1>3. Others(t)
  BY <1>1, <1>2 DEF Others, TypeOK
<1>4. TypeOK'
  BY <1>1, <1>2 DEF TypeOK
<1>5. Shape'
  BY <1>1, <1>2, <1>3 DEF Shape, Others
<1>6. SelfHeld'
  BY <1>1, <1>2, <1>3, SelfRule, Distinct DEF HoldsSelf
<1>7. WriterHeld'
  BY <1>1, <1>2, <1>3, WriterRule, Distinct DEF Keeps, Reads, Counted
<1>8. Readers'
  BY <1>1, <1>2, <1>3, ReadersRule DEF Counted
<1>9. Sleepers'
  <2>1. \A m \in Locks : (Wakes(t, m) => Wakes(t, m)') /\ ~Unlocks(t, m)
    BY <1>1, <1>2 DEF Wakes, Unlocks, M
  <2>2. \A m \in Locks : t \notin sleeping[m]
    BY <1>1 DEF Sleepers
  <2>3. QED BY <1>1, <1>3, <2>1, <2>2, CalmRule
<1>10. QED BY <1>4, <1>5, <1>6, <1>7, <1>8, <1>9

\* unlock and what follows it: from the call of unlock to the next one.
LEMMA unlockInv ==
  ASSUME IsFiniteSet(Threads), MInv, NEW t \in Threads, unlock(t)
  PROVE  MInv'
<1> USE DEF MInv
<1>1. /\ pc[t] = "next" /\ todo[t] \in {X2, S2, UW} /\ mode[t] = "none" /\ mode' = mode
      /\ locked' = [locked EXCEPT ![M(t)] = FALSE]
      /\ busy' = busy /\ sleeping' = sleeping /\ reader_count' = reader_count
  BY Firsts DEF unlock, TypeOK, At, Shape
<1>2. /\ M(t) \in Locks
      /\ todo[t] \in {X2, S2} => M(t) = "self"
      /\ todo[t] = UW => M(t) = "writer"
  BY <1>1, Firsts DEF TypeOK, Locks
<1>3. /\ pc' \in [Threads -> {"idle", "next", "block", "wait", "asleep", "spin", "clear", "wake"}]
      /\ Others(t)
      /\ \/ pc'[t] = "spin" /\ todo'[t] = todo[t]
         \/ /\ ~busy[M(t)] /\ pc'[t] = "next"
            /\ todo[t] = X2 => todo'[t] = X3
            /\ todo[t] = S2 => todo'[t] = S3
            /\ todo[t] = UW => todo'[t] = <<>>
      /\ todo' \in [Threads -> Programs]
  <2>1. CASE ~busy[M(t)] /\ Done(t)
    <3>1. /\ pc' = [pc EXCEPT ![t] = "next"]
          /\ todo' = [todo EXCEPT ![t] = Tail(todo[t])]
      BY <2>1 DEF Done, Goto
    <3>2. Tail(todo[t]) \in {X3, S3, <<>>}
      BY <1>1, Tails
    <3>3. QED BY <1>1, <2>1, <3>1, <3>2, Tails DEF TypeOK, Others, Programs
  <2>2. CASE Goto(t, "spin") /\ UNCHANGED todo
    BY <1>1, <2>2 DEF Goto, TypeOK, Others
  <2>3. QED BY <2>1, <2>2 DEF unlock
<1>4. TypeOK'
  BY <1>1, <1>2, <1>3 DEF TypeOK
<1>5. Shape'
  BY <1>1, <1>3 DEF Shape, Others
<1>6. /\ M(t) = "self" => locked'["self"] = FALSE /\ locked'["writer"] = locked["writer"]
      /\ M(t) = "writer" => locked'["writer"] = FALSE /\ locked'["self"] = locked["self"]
  BY <1>1, <1>2 DEF TypeOK, Locks
<1>7. SelfHeld'
  BY <1>1, <1>2, <1>3, <1>6, SelfRule, Distinct DEF HoldsSelf
<1>8. WriterHeld'
  BY <1>1, <1>2, <1>3, <1>6, WriterRule, Distinct DEF Keeps, Reads, Counted
<1>9. Readers'
  BY <1>1, <1>3, ReadersRule, Distinct DEF Counted
<1>10. Sleepers'
  <2>1. ASSUME NEW m \in Locks
        PROVE  /\ t \notin sleeping[m]
               /\ busy[m] \/ Wakes(t, m) => busy'[m] \/ Wakes(t, m)'
               /\ locked[m] /\ (busy[m] \/ Wakes(t, m)) =>
                      locked'[m] \/ Wakes(t, m)' \/ Unlocks(t, m)'
               /\ Wakes(t, m) \/ Unlocks(t, m) => locked'[m] \/ Wakes(t, m)' \/ Unlocks(t, m)'
    <3>1. t \notin sleeping[m] /\ ~Wakes(t, m) /\ ~Unlocks(t, m)
      BY <1>1 DEF Sleepers, Wakes, Unlocks
    <3>2. m # M(t) => locked'[m] = locked[m]
      BY <1>1 DEF TypeOK
    <3>3. m = M(t) /\ busy[m] => Unlocks(t, m)'
      <4>1. todo[t] # <<>>
        BY <1>1, Heads
      <4>2. m = M(t) /\ busy[m] => pc'[t] = "spin" /\ todo'[t] = todo[t]
        BY <1>3
      <4>3. QED BY <4>1, <4>2 DEF Unlocks, M
    <3>4. QED BY <1>1, <3>1, <3>2, <3>3
  <2>2. QED BY <1>1, <1>3, <2>1, SleepRule
<1>11. QED BY <1>4, <1>5, <1>7, <1>8, <1>9, <1>10

\* The end of an unlock that looked for others: todo moves on, nobody holds
\* more or less.
LEMMA UnlockDone ==
  ASSUME IsFiniteSet(Threads), MInv, NEW t \in Threads, pc[t] \in {"spin", "wake"}, Done(t),
         locked' = locked, mode' = mode, reader_count' = reader_count
  PROVE  /\ Others(t) /\ pc'[t] = "next" /\ mode[t] = "none" /\ M(t) \in Locks
         /\ pc' \in [Threads -> {"idle", "next", "block", "wait", "asleep", "spin", "clear", "wake"}]
         /\ todo' \in [Threads -> Programs]
         /\ Shape' /\ SelfHeld' /\ WriterHeld' /\ Readers'
<1> USE DEF MInv
<1>1. pc[t] \in {"spin", "wake"} /\ todo[t] \in {X2, S2, UW} /\ mode[t] = "none"
  BY DEF Shape
<1>2. /\ pc' = [pc EXCEPT ![t] = "next"] /\ pc'[t] = "next"
      /\ todo' = [todo EXCEPT ![t] = Tail(todo[t])]
  BY DEF Done, Goto, TypeOK
<1>3. /\ todo[t] = X2 => todo'[t] = X3
      /\ todo[t] = S2 => todo'[t] = S3
      /\ todo[t] = UW => todo'[t] = <<>>
  BY <1>2, Tails DEF TypeOK
<1>4. Others(t)
  BY <1>2 DEF Others, TypeOK
<1>5. M(t) \in Locks
  BY <1>1, Firsts DEF TypeOK, Locks
<1>6. /\ pc' \in [Threads -> {"idle", "next", "block", "wait", "asleep", "spin", "clear", "wake"}]
      /\ todo' \in [Threads -> Programs]
  BY <1>1, <1>2, <1>3 DEF TypeOK, Programs
<1>7. Shape'
  BY <1>1, <1>2, <1>4 DEF Shape, Others
<1>8. SelfHeld'
  BY <1>1, <1>2, <1>3, <1>4, SelfRule, Distinct DEF HoldsSelf
<1>9. WriterHeld'
  BY <1>1, <1>2, <1>3, <1>4, WriterRule, Distinct DEF Keeps, Reads, Counted
<1>10. Readers'
  BY <1>1, <1>2, <1>3, <1>4, ReadersRule, Distinct DEF Counted
<1>11. QED BY <1>1, <1>2, <1>4, <1>5, <1>6, <1>7, <1>8, <1>9, <1>10

\* A step within unlock that leaves todo alone.
LEMMA UnlockGoes ==
  ASSUME IsFiniteSet(Threads), MInv, NEW t \in Threads, NEW label \in {"clear", "wake"},
         pc[t] \in {"spin", "clear"}, Goto(t, label),
         todo' = todo, locked' = locked, mode' = mode, reader_count' = reader_count
  PROVE  /\ Others(t) /\ pc'[t] = label /\ M(t) \in Locks
         /\ pc' \in [Threads -> {"idle", "next", "block", "wait", "asleep", "spin", "clear", "wake"}]
         /\ Shape' /\ SelfHeld' /\ WriterHeld' /\ Readers'
<1> USE DEF MInv
<1>1. todo[t] \in {X2, S2, UW}
  BY DEF Shape
<1>2. pc' = [pc EXCEPT ![t] = label] /\ pc'[t] = label
  BY DEF Goto, TypeOK
<1>3. Others(t)
  BY <1>2 DEF Others, TypeOK
<1>4. M(t) \in Locks
  BY <1>1, Firsts DEF TypeOK, Locks
<1>5. pc' \in [Threads -> {"idle", "next", "block", "wait", "asleep", "spin", "clear", "wake"}]
  BY <1>2 DEF TypeOK
<1>6. Shape'
  BY <1>1, <1>2, <1>3 DEF Shape, Others
<1>7. SelfHeld'
  BY <1>1, <1>2, <1>3, SelfRule, Distinct DEF HoldsSelf
<1>8. WriterHeld'
  BY <1>1, <1>2, <1>3, WriterRule, Distinct DEF Keeps, Reads, Counted
<1>9. Readers'
  BY <1>1, <1>2, <1>3, ReadersRule, Distinct DEF Counted
<1>10. QED BY <1>2, <1>3, <1>4, <1>5, <1>6, <1>7, <1>8, <1>9

LEMMA SpinInv ==
  ASSUME IsFiniteSet(Threads), MInv, NEW t \in Threads, Spin(t)
  PROVE  MInv'
<1> USE DEF MInv
<1>1. /\ pc[t] = "spin" /\ mode' = mode /\ locked' = locked /\ busy' = busy
      /\ sleeping' = sleeping /\ reader_count' = reader_count
  BY DEF Spin, At, words
<1>2. \A m \in Locks : t \notin sleeping[m] /\ ~Wakes(t, m)
  BY <1>1 DEF Sleepers, Wakes
<1>3. CASE locked[M(t)] /\ Done(t)
  <2>1. Others(t) /\ Shape' /\ SelfHeld' /\ WriterHeld' /\ Readers' /\ TypeOK'
    BY <1>1, <1>3, UnlockDone DEF TypeOK
  <2>2. \A m \in Locks : Unlocks(t, m) => locked'[m]
    BY <1>1, <1>3 DEF Unlocks
  <2>3. Sleepers'
    BY <1>1, <1>2, <2>1, <2>2, CalmRule
  <2>4. QED BY <2>1, <2>3
<1>4. CASE Goto(t, "clear") /\ UNCHANGED todo
  <2>1. Others(t) /\ Shape' /\ SelfHeld' /\ WriterHeld' /\ Readers' /\ TypeOK' /\ pc'[t] = "clear"
    BY <1>1, <1>4, UnlockGoes DEF TypeOK
  <2>2. \A m \in Locks : Unlocks(t, m) => Unlocks(t, m)'
    BY <1>1, <1>4, <2>1 DEF Unlocks, M
  <2>3. Sleepers'
    BY <1>1, <1>2, <2>1, <2>2, CalmRule
  <2>4. QED BY <2>1, <2>3
<1>5. QED BY <1>3, <1>4 DEF Spin

LEMMA ClearBusyInv ==
  ASSUME IsFiniteSet(Threads), MInv, NEW t \in Threads, ClearBusy(t)
  PROVE  MInv'
<1> USE DEF MInv
<1>1. /\ pc[t] = "clear" /\ mode' = mode /\ todo' = todo /\ locked' = locked
      /\ busy' = [busy EXCEPT ![M(t)] = FALSE]
      /\ sleeping' = sleeping /\ reader_count' = reader_count
  BY DEF ClearBusy, At
<1>2. Others(t) /\ Shape' /\ SelfHeld' /\ WriterHeld' /\ Readers' /\ TypeOK' /\ pc'[t] = "wake"
  BY <1>1, UnlockGoes DEF TypeOK, ClearBusy
<1>3. Sleepers'
  <2>1. ASSUME NEW m \in Locks
        PROVE  /\ t \notin sleeping[m]
               /\ busy[m] \/ Wakes(t, m) => busy'[m] \/ Wakes(t, m)'
               /\ locked[m] /\ (busy[m] \/ Wakes(t, m)) =>
                      locked'[m] \/ Wakes(t, m)' \/ Unlocks(t, m)'
               /\ Wakes(t, m) \/ Unlocks(t, m) => locked'[m] \/ Wakes(t, m)' \/ Unlocks(t, m)'
    <3>1. t \notin sleeping[m] /\ ~Wakes(t, m)
      BY <1>1 DEF Sleepers, Wakes
    <3>2. m # M(t) => busy'[m] = busy[m] /\ ~Unlocks(t, m)
      BY <1>1 DEF TypeOK, Unlocks
    <3>3. m = M(t) => Wakes(t, m)'
      <4>1. todo[t] # <<>>
        BY <1>1, Heads DEF Shape
      <4>2. QED BY <1>1, <1>2, <4>1 DEF Wakes, M
    <3>4. QED BY <1>1, <3>1, <3>2, <3>3
  <2>2. QED BY <1>1, <1>2, <2>1, SleepRule
<1>4. QED BY <1>2, <1>3

LEMMA FutexWakeInv ==
  ASSUME IsFiniteSet(Threads), MInv, NEW t \in Threads, FutexWake(t)
  PROVE  MInv'
<1> USE DEF MInv
<1>1. /\ pc[t] = "wake" /\ Done(t) /\ mode' = mode /\ locked' = locked /\ busy' = busy
      /\ reader_count' = reader_count
  BY DEF FutexWake, At
<1>2. /\ Others(t) /\ Shape' /\ SelfHeld' /\ WriterHeld' /\ Readers' /\ M(t) \in Locks
      /\ pc' \in [Threads -> {"idle", "next", "block", "wait", "asleep", "spin", "clear", "wake"}]
      /\ todo' \in [Threads -> Programs]
  BY <1>1, UnlockDone
<1>3. /\ sleeping' \in [Locks -> SUBSET Threads]
      /\ \A m \in Locks : m # M(t) => sleeping'[m] = sleeping[m]
      /\ \/ sleeping'[M(t)] = {}
         \/ \E u \in sleeping[M(t)] : sleeping'[M(t)] = sleeping[M(t)] \ {u}
  BY <1>2 DEF FutexWake, TypeOK
<1>4. TypeOK'
  BY <1>1, <1>2, <1>3 DEF TypeOK
<1>5. \A m \in Locks : \A u \in sleeping[m] : u \in Threads /\ u # t /\ pc[u] = "asleep" /\ M(u) = m /\ todo[u] # <<>>
  <2>1. \A m \in Locks : \A u \in sleeping[m] : u \in Threads /\ pc[u] = "asleep" /\ M(u) = m
    BY DEF Sleepers, TypeOK
  <2>2. \A u \in Threads : pc[u] = "asleep" => u # t /\ todo[u] \in {X0, X1, S0, SW}
    BY <1>1 DEF Shape
  <2>3. \A u \in Threads : pc[u] = "asleep" => todo[u] # <<>>
    BY <2>2, Heads
  <2>4. QED BY <2>1, <2>2, <2>3
<1>6. \A m \in Locks : \A u \in sleeping[m] : pc'[u] = "asleep" /\ M(u)' = m /\ todo'[u] # <<>>
  BY <1>2, <1>5 DEF Others, M
<1>7. ASSUME NEW m \in Locks
      PROVE  /\ \A u \in sleeping'[m] : pc'[u] = "asleep" /\ M(u)' = m
             /\ sleeping'[m] # {} => busy'[m] \/ \E u \in Threads : Wakes(u, m)'
             /\ sleeping'[m] # {} =>
                  locked'[m] \/ \E u \in Threads : Wakes(u, m)' \/ Unlocks(u, m)'
  <2>1. CASE m = M(t)
    <3>1. CASE sleeping'[m] = {}
      BY <3>1
    <3>2. CASE \E u \in sleeping[m] : sleeping'[m] = sleeping[m] \ {u}
      <4>1. PICK u \in sleeping[m] : sleeping'[m] = sleeping[m] \ {u}
        BY <3>2
      <4>2. Wakes(u, m)'
        BY <1>6, <4>1 DEF Wakes
      <4>3. QED BY <1>5, <1>6, <4>1, <4>2
    <3>3. QED BY <1>3, <2>1, <3>1, <3>2
  <2>2. CASE m # M(t)
    <3>1. sleeping'[m] = sleeping[m]
      BY <1>3, <2>2
    <3>2. ~Wakes(t, m) /\ ~Unlocks(t, m)
      BY <2>2 DEF Wakes, Unlocks
    <3>3. \A u \in Threads : (Wakes(u, m) => Wakes(u, m)') /\ (Unlocks(u, m) => Unlocks(u, m)')
      BY <1>2, <3>1, <3>2 DEF Wakes, Unlocks, Others, M
    <3>4. QED BY <1>1, <1>6, <3>1, <3>3 DEF Sleepers
  <2>3. QED BY <2>1, <2>2
<1>8. Sleepers'
  BY <1>7 DEF Sleepers
<1>9. QED BY <1>2, <1>4, <1>8

LEMMA lock_exclusiveInv ==
  ASSUME IsFiniteSet(Threads), MInv, NEW t \in Threads, lock_exclusive(t)
  PROVE  MInv'
<1> USE DEF MInv
<1>1. /\ pc[t] = "idle" /\ todo[t] = <<>> /\ mode[t] = "none" /\ mode' = mode
      /\ locked' = locked /\ busy' = busy /\ sleeping' = sleeping /\ reader_count' = reader_count
  BY DEF lock_exclusive, Begin, At, words, Shape
<1>2. /\ pc' = [pc EXCEPT ![t] = "next"] /\ pc'[t] = "next"
      /\ todo' = [todo EXCEPT ![t] = X0] /\ todo'[t] = X0
  BY DEF lock_exclusive, Begin, TypeOK, X0
<1>3. Others(t)
  BY <1>1, <1>2 DEF Others, TypeOK
<1>4. TypeOK'
  BY <1>1, <1>2 DEF TypeOK, Programs
<1>5. Shape'
  BY <1>1, <1>2, <1>3 DEF Shape, Others
<1>6. SelfHeld'
  BY <1>1, <1>2, <1>3, SelfRule, Distinct DEF HoldsSelf
<1>7. WriterHeld'
  BY <1>1, <1>2, <1>3, WriterRule, Distinct DEF Keeps, Reads, Counted
<1>8. Readers'
  BY <1>1, <1>2, <1>3, ReadersRule, Distinct DEF Counted
<1>9. Sleepers'
  BY <1>1, <1>3, CalmRule DEF Sleepers, Wakes, Unlocks
<1>10. QED BY <1>4, <1>5, <1>6, <1>7, <1>8, <1>9

LEMMA lock_sharedInv ==
  ASSUME IsFiniteSet(Threads), MInv, NEW t \in Threads, lock_shared(t)
  PROVE  MInv'
<1> USE DEF MInv
<1>1. /\ pc[t] = "idle" /\ todo[t] = <<>> /\ mode[t] = "none" /\ mode' = mode
      /\ locked' = locked /\ busy' = busy /\ sleeping' = sleeping /\ reader_count' = reader_count
  BY DEF lock_shared, Begin, At, words, Shape
<1>2. /\ pc' = [pc EXCEPT ![t] = "next"] /\ pc'[t] = "next"
      /\ todo' = [todo EXCEPT ![t] = S0] /\ todo'[t] = S0
  BY DEF lock_shared, Begin, TypeOK, S0
<1>3. Others(t)
  BY <1>1, <1>2 DEF Others, TypeOK
<1>4. TypeOK'
  BY <1>1, <1>2 DEF TypeOK, Programs
<1>5. Shape'
  BY <1>1, <1>2, <1>3 DEF Shape, Others
<1>6. SelfHeld'
  BY <1>1, <1>2, <1>3, SelfRule, Distinct DEF HoldsSelf
<1>7. WriterHeld'
  BY <1>1, <1>2, <1>3, WriterRule, Distinct DEF Keeps, Reads, Counted
<1>8. Readers'
  BY <1>1, <1>2, <1>3, ReadersRule, Distinct DEF Counted
<1>9. Sleepers'
  BY <1>1, <1>3, CalmRule DEF Sleepers, Wakes, Unlocks
<1>10. QED BY <1>4, <1>5, <1>6, <1>7, <1>8, <1>9

\* The programs of unlock_exclusive and unlock_shared take over what mode says.
LEMMA unlock_modeInv ==
  ASSUME IsFiniteSet(Threads), MInv, NEW t \in Threads, unlock_exclusive(t) \/ unlock_shared(t)
  PROVE  MInv'
<1> USE DEF MInv
<1>1. /\ pc[t] = "idle" /\ todo[t] = <<>> /\ mode' = [mode EXCEPT ![t] = "none"]
      /\ locked' = locked /\ busy' = busy /\ sleeping' = sleeping /\ reader_count' = reader_count
      /\ pc' = [pc EXCEPT ![t] = "next"]
      /\ \/ mode[t] = "exclusive" /\ todo' = [todo EXCEPT ![t] = UW]
         \/ mode[t] = "shared" /\ todo' = [todo EXCEPT ![t] = R0]
  BY DEF unlock_exclusive, unlock_shared, Begin, At, words, Shape, UW, R0
<1>2. /\ pc'[t] = "next" /\ mode'[t] = "none"
      /\ (mode[t] = "exclusive" /\ todo'[t] = UW) \/ (mode[t] = "shared" /\ todo'[t] = R0)
  BY <1>1 DEF TypeOK
<1>3. Others(t)
  BY <1>1 DEF Others, TypeOK
<1>4. TypeOK'
  BY <1>1 DEF TypeOK, Programs
<1>5. Shape'
  BY <1>1, <1>2, <1>3 DEF Shape, Others
<1>6. SelfHeld'
  BY <1>1, <1>2, <1>3, SelfRule, Distinct DEF HoldsSelf
<1>7. WriterHeld'
  BY <1>1, <1>2, <1>3, WriterRule, Distinct DEF Keeps, Reads, Counted
<1>8. Readers'
  BY <1>1, <1>2, <1>3, ReadersRule, Distinct DEF Counted
<1>9. Sleepers'
  BY <1>1, <1>3, CalmRule DEF Sleepers, Wakes, Unlocks
<1>10. QED BY <1>4, <1>5, <1>6, <1>7, <1>8, <1>9

LEMMA ReturnInv ==
  ASSUME IsFiniteSet(Threads), MInv, NEW t \in Threads, Return(t)
  PROVE  MInv'
<1> USE DEF MInv
<1>1. /\ pc[t] = "next" /\ todo[t] \in {<<>>, X3, S3} /\ mode[t] = "none"
      /\ locked' = locked /\ busy' = busy /\ sleeping' = sleeping /\ reader_count' = reader_count
      /\ pc' = [pc EXCEPT ![t] = "idle"] /\ todo' = [todo EXCEPT ![t] = <<>>]
  BY Firsts DEF Return, At, Goto, words, Shape, TypeOK
<1>2. /\ mode' \in [Threads -> {"none", "shared", "exclusive"}]
      /\ \A u \in Threads : u # t => mode'[u] = mode[u]
      /\ todo[t] = <<>> => mode'[t] = "none"
      /\ todo[t] = X3 => mode'[t] = "exclusive"
      /\ todo[t] = S3 => mode'[t] = "shared"
  <2>1. CASE First(t, "own") /\ mode' = [mode EXCEPT ![t] = todo[t][1][2]]
    <3>1. (todo[t] = X3 /\ M(t) = "exclusive") \/ (todo[t] = S3 /\ M(t) = "shared")
      BY <2>1, Firsts DEF TypeOK
    <3>2. mode' = [mode EXCEPT ![t] = M(t)]
      BY <2>1 DEF M
    <3>3. QED BY <3>1, <3>2, Distinct DEF TypeOK
  <2>2. CASE todo[t] = <<>> /\ UNCHANGED mode
    BY <1>1, <2>2, Distinct DEF TypeOK
  <2>3. QED BY <2>1, <2>2 DEF Return
<1>3. Others(t) /\ pc'[t] = "idle" /\ todo'[t] = <<>>
  BY <1>1, <1>2 DEF Others, TypeOK
<1>4. TypeOK'
  BY <1>1, <1>2 DEF TypeOK, Programs
<1>5. Shape'
  BY <1>1, <1>3 DEF Shape, Others
<1>6. SelfHeld'
  BY <1>1, <1>3, SelfRule, Distinct DEF HoldsSelf
<1>7. WriterHeld'
  BY <1>1, <1>2, <1>3, WriterRule, Distinct DEF Keeps, Reads, Counted
<1>8. Readers'
  BY <1>1, <1>2, <1>3, ReadersRule, Distinct DEF Counted
<1>9. Sleepers'
  BY <1>1, <1>3, CalmRule DEF Sleepers, Wakes, Unlocks
<1>10. QED BY <1>4, <1>5, <1>6, <1>7, <1>8, <1>9

LEMMA CountReaderInv ==
  ASSUME IsFiniteSet(Threads), MInv, NEW t \in Threads, CountReader(t)
  PROVE  MInv'
<1> USE DEF MInv
<1> DEFINE C == {u \in Threads : Counted(u)}
<1>1. /\ pc[t] = "next" /\ mode[t] = "none" /\ mode' = mode /\ pc' = pc
      /\ locked' = locked /\ busy' = busy /\ sleeping' = sleeping
  BY DEF CountReader, At, Shape
<1>2. IsFiniteSet(C) /\ reader_count = Cardinality(C)
  BY FS_Subset DEF Readers
<1>3. /\ reader_count = 0 => \A u \in Threads : ~Counted(u)
      /\ reader_count # 0 => \E u \in Threads : Counted(u)
  BY <1>2, FS_EmptySet
<1>4. CASE /\ First(t, "add") /\ reader_count' = reader_count + 1
           /\ todo' = [todo EXCEPT ![t] =
                (IF reader_count = 0 THEN << <<"lock", "writer">> >> ELSE <<>>) \o Tail(@)]
  <2>1. todo[t] = S1
    BY <1>4, Firsts DEF TypeOK
  <2>2. /\ \A u \in Threads : u # t => todo'[u] = todo[u]
        /\ reader_count = 0 => todo'[t] = SW
        /\ reader_count # 0 => todo'[t] = S2
        /\ todo' \in [Threads -> Programs]
    BY <1>4, <2>1, Tails DEF TypeOK, Programs
  <2>3. Others(t)
    BY <1>1, <2>2 DEF Others
  <2>4. TypeOK'
    BY <1>1, <2>2 DEF TypeOK
  <2>5. Shape'
    BY <1>1, <2>3 DEF Shape, Others
  <2>6. SelfHeld'
    BY <1>1, <2>1, <2>2, <2>3, SelfRule, Distinct DEF HoldsSelf
  <2>7. \A u \in Threads : todo[u] # SW
    BY <2>1, Distinct DEF SelfHeld, HoldsSelf
  <2>8. WriterHeld'
    <3>1. CASE reader_count = 0
      BY <1>1, <2>1, <2>2, <2>3, <3>1, WriterRule, Distinct DEF Keeps, Reads, Counted
    <3>2. CASE reader_count # 0
      <4>1. \E u \in Threads : u # t /\ Reads(u)
        BY <1>1, <1>3, <2>1, <2>7, <3>2, Distinct DEF Reads, Counted
      <4>2. ~Keeps(t) /\ ~Keeps(t)'
        BY <1>1, <2>1, <2>2, <3>2, Distinct DEF Keeps
      <4>3. QED BY <1>1, <2>3, <4>1, <4>2, WriterRule
    <3>3. QED BY <3>1, <3>2
  <2>9. Readers'
    <3>1. ~Counted(t) /\ Counted(t)'
      BY <1>1, <2>1, <2>2, Distinct DEF Counted
    <3>2. todo'[t] = SW => \A u \in Threads : ~Counted(u)
      BY <1>3, <2>2, Distinct
    <3>3. QED BY <1>4, <2>3, <2>7, <3>1, <3>2, ReadersRule
  <2>10. Sleepers'
    BY <1>1, <2>3, CalmRule DEF Sleepers, Wakes, Unlocks
  <2>11. QED BY <2>4, <2>5, <2>6, <2>8, <2>9, <2>10
<1>5. CASE /\ First(t, "sub") /\ reader_count' = reader_count - 1
           /\ todo' = [todo EXCEPT ![t] =
                (IF reader_count = 1 THEN << <<"unlock", "writer">> >> ELSE <<>>) \o Tail(@)]
  <2>1. todo[t] = R0
    BY <1>5, Firsts DEF TypeOK
  <2>2. /\ \A u \in Threads : u # t => todo'[u] = todo[u]
        /\ reader_count = 1 => todo'[t] = UW
        /\ reader_count # 1 => todo'[t] = <<>>
        /\ todo' \in [Threads -> Programs]
    BY <1>5, <2>1, Tails DEF TypeOK, Programs
  <2>3. Others(t)
    BY <1>1, <2>2 DEF Others
  <2>4. TypeOK'
    BY <1>1, <2>2 DEF TypeOK
  <2>5. Shape'
    BY <1>1, <2>3 DEF Shape, Others
  <2>6. SelfHeld'
    BY <1>1, <2>1, <2>2, <2>3, SelfRule, Distinct DEF HoldsSelf
  <2>7. Counted(t) /\ Reads(t) /\ ~Counted(t)' /\ ~Reads(t)' /\ ~Keeps(t)
    BY <1>1, <2>1, <2>2, Distinct DEF Keeps, Reads, Counted
  <2>8. /\ reader_count = 1 => \A u \in Threads : u # t => ~Counted(u)
        /\ reader_count # 1 => \E u \in Threads : u # t /\ Counted(u)
    <3>1. IsFiniteSet(C \ {t}) /\ Cardinality(C \ {t}) = reader_count - 1
      BY <1>2, <2>7, FS_RemoveElement
    <3>2. Cardinality(C \ {t}) = 0 <=> C \ {t} = {}
      BY <3>1, FS_EmptySet
    <3>3. QED BY <1>2, <3>1, <3>2, FS_CardinalityType
  <2>9. WriterHeld'
    <3>1. CASE reader_count = 1
      BY <1>1, <2>2, <2>3, <2>7, <2>8, <3>1, WriterRule DEF Keeps, Reads
    <3>2. CASE reader_count # 1
      <4>1. \E u \in Threads : u # t /\ Reads(u)
        BY <2>7, <2>8, <3>2 DEF Reads, Readers
      <4>2. ~Keeps(t)'
        BY <1>1, <2>2, <3>2, Distinct DEF Keeps
      <4>3. QED BY <1>1, <2>3, <2>7, <4>1, <4>2, WriterRule
    <3>3. QED BY <3>1, <3>2
  <2>10. Readers'
    BY <1>5, <2>2, <2>3, <2>7, ReadersRule, Distinct
  <2>11. Sleepers'
    BY <1>1, <2>3, CalmRule DEF Sleepers, Wakes, Unlocks
  <2>12. QED BY <2>4, <2>5, <2>6, <2>9, <2>10, <2>11
<1>6. QED BY <1>4, <1>5 DEF CountReader

(***************************************************************************)
(* The theorems.                                                           *)
(***************************************************************************)
LEMMA InitInv ==
  ASSUME Init
  PROVE  MInv
<1>1. /\ pc = [t \in Threads |-> "idle"] /\ todo = [t \in Threads |-> <<>>]
      /\ mode = [t \in Threads |-> "none"]
      /\ locked = [m \in Locks |-> FALSE] /\ busy = [m \in Locks |-> FALSE]
      /\ sleeping = [m \in Locks |-> {}] /\ reader_count = 0
  BY DEF Init
<1>2. TypeOK
  BY <1>1 DEF TypeOK, Programs
<1>3. Shape
  BY <1>1 DEF Shape
<1>4. \A t \in Threads : ~HoldsSelf(t) /\ ~Keeps(t) /\ ~Counted(t) /\ ~Reads(t) /\ todo[t] # SW
  BY <1>1, Distinct DEF HoldsSelf, Keeps, Counted, Reads
<1>5. SelfHeld /\ WriterHeld
  BY <1>1, <1>4 DEF SelfHeld, WriterHeld, Locks
<1>6. {t \in Threads : Counted(t)} = {}
  BY <1>4
<1>7. Readers
  BY <1>1, <1>4, <1>6, FS_EmptySet DEF Readers
<1>8. Sleepers
  BY <1>1 DEF Sleepers
<1>9. QED BY <1>2, <1>3, <1>5, <1>7, <1>8 DEF MInv

LEMMA NextInv ==
  ASSUME IsFiniteSet(Threads), MInv, [Next]_vars
  PROVE  MInv'
<1>1. CASE UNCHANGED vars
  BY <1>1 DEF vars, words, MInv, TypeOK, Shape, SelfHeld, WriterHeld, Readers, Sleepers,
              HoldsSelf, Keeps, Counted, Reads, Wakes, Unlocks, M
<1>2. CASE \E t \in Threads : Step(t) \/ lock_exclusive(t) \/ lock_shared(t)
  BY <1>2, lockInv, lock_blockingInv, FutexWaitInv, WokenInv, unlockInv, SpinInv, ClearBusyInv,
     FutexWakeInv, CountReaderInv, ReturnInv, lock_exclusiveInv, lock_sharedInv, unlock_modeInv DEF Step
<1>3. QED BY <1>1, <1>2 DEF Next, Finished

LEMMA MInvExcludes ==
  ASSUME MInv
  PROVE  SharedExclusion
<1>1. \A t \in Threads : mode[t] = "exclusive" => Keeps(t)
  BY DEF Keeps
<1>2. \A t \in Threads : mode[t] = "shared" => Reads(t)
  <2>1. \A t \in Threads : mode[t] # "none" => todo[t] = <<>>
    BY DEF MInv, Shape
  <2>2. QED BY <2>1, Distinct DEF Reads, Counted
<1>3. \A t \in Threads : mode[t] \in {"none", "shared", "exclusive"}
  BY DEF MInv, TypeOK
<1>4. QED BY <1>1, <1>2, <1>3 DEF MInv, WriterHeld, SharedExclusion

LEMMA InTuple ==
  ASSUME NEW a, NEW b, NEW c, NEW S
  PROVE  /\ (\E i \in DOMAIN <<a>> : <<a>>[i] \in S) <=> a \in S
         /\ (\E i \in DOMAIN <<a, b>> : <<a, b>>[i] \in S) <=> (a \in S \/ b \in S)
         /\ (\E i \in DOMAIN <<a, b, c>> : <<a, b, c>>[i] \in S) <=> (a \in S \/ b \in S \/ c \in S)
  OBVIOUS

\* What is pending in the programs of those who hold a mutex.
LEMMA InProgram ==
  ASSUME NEW S
  PROVE  /\ (\E i \in DOMAIN X1 : X1[i] \in S) <=>
              (<<"lock", "writer">> \in S \/ <<"unlock", "self">> \in S \/ <<"own", "exclusive">> \in S)
         /\ (\E i \in DOMAIN S1 : S1[i] \in S) <=>
              (<<"add", "">> \in S \/ <<"unlock", "self">> \in S \/ <<"own", "shared">> \in S)
         /\ (\E i \in DOMAIN SW : SW[i] \in S) <=>
              (<<"lock", "writer">> \in S \/ <<"unlock", "self">> \in S \/ <<"own", "shared">> \in S)
         /\ (\E i \in DOMAIN X2 : X2[i] \in S) <=> (<<"unlock", "self">> \in S \/ <<"own", "exclusive">> \in S)
         /\ (\E i \in DOMAIN S2 : S2[i] \in S) <=> (<<"unlock", "self">> \in S \/ <<"own", "shared">> \in S)
         /\ (\E i \in DOMAIN X3 : X3[i] \in S) <=> <<"own", "exclusive">> \in S
         /\ (\E i \in DOMAIN S3 : S3[i] \in S) <=> <<"own", "shared">> \in S
         /\ (\E i \in DOMAIN R0 : R0[i] \in S) <=> <<"sub", "">> \in S
         /\ (\E i \in DOMAIN UW : UW[i] \in S) <=> <<"unlock", "writer">> \in S
  BY InTuple, Zenon DEF X1, S1, SW, X2, S2, X3, S3, R0, UW

\* Different calls are different tuples.
LEMMA InCalls ==
  /\ <<"lock", "writer">> # <<"lock", "self">> /\ <<"unlock", "self">> # <<"lock", "self">>
  /\ <<"own", "exclusive">> # <<"lock", "self">> /\ <<"own", "shared">> # <<"lock", "self">>
  /\ <<"add", "">> # <<"lock", "self">>
  /\ <<"unlock", "self">> \notin {<<"lock", "writer">>, <<"add", "">>}
  /\ <<"own", "exclusive">> \notin {<<"lock", "writer">>, <<"add", "">>}
  /\ <<"own", "shared">> \notin {<<"lock", "writer">>, <<"add", "">>}
  /\ <<"sub", "">> \notin {<<"lock", "writer">>, <<"add", "">>}
  /\ <<"unlock", "writer">> # <<"lock", "writer">>
  OBVIOUS

\* Whoever holds a mutex has still to unlock it, or to hand it over.
LEMMA HoldersPend ==
  ASSUME NEW t \in Threads, MInv
  PROVE  /\ HoldsSelf(t) => Involved(t, "self")
         /\ Keeps(t) \/ Reads(t) => Involved(t, "writer")
<1>1. todo[t] \in {X1, S1, SW, X2, S2} => Involved(t, "self")
  <2>1. ASSUME todo[t] \in {X1, S1, SW, X2, S2}
        PROVE  Pending(t, {<<"unlock", "self">>}) /\ ~Pending(t, {<<"lock", "self">>})
    BY <2>1, InProgram, InCalls DEF Pending
  <2>2. QED BY <2>1 DEF Involved
<1>2. todo[t] \in {X2, X3, S2, S3, R0, UW} => Involved(t, "writer")
  <2>1. ASSUME todo[t] \in {X2, X3, S2, S3, R0}
        PROVE  /\ Pending(t, {<<"sub", "">>, <<"own", "shared">>, <<"own", "exclusive">>})
               /\ ~Pending(t, {<<"lock", "writer">>, <<"add", "">>})
    BY <2>1, InProgram, InCalls DEF Pending
  <2>2. ASSUME todo[t] = UW
        PROVE  Pending(t, {<<"unlock", "writer">>}) /\ ~Pending(t, {<<"lock", "writer">>})
    BY <2>2, InProgram, InCalls DEF Pending
  <2>3. QED BY <2>1, <2>2 DEF Involved
<1>3. mode[t] # "none" => Involved(t, "writer")
  BY DEF Involved
<1>4. HoldsSelf(t) => Involved(t, "self")
  BY <1>1 DEF HoldsSelf
<1>5. Keeps(t) => Involved(t, "writer")
  BY <1>2, <1>3 DEF Keeps
<1>6. Reads(t) => Involved(t, "writer")
  BY <1>2, <1>3 DEF Reads, Counted
<1>7. QED BY <1>4, <1>5, <1>6

LEMMA MInvForgetsNobody ==
  ASSUME MInv
  PROVE  NoSleeperForgotten
<1> SUFFICES ASSUME NEW m \in Locks, sleeping[m] # {}
             PROVE  \E t \in Threads : Involved(t, m)
  BY DEF NoSleeperForgotten
<1>1. CASE locked[m]
  <2>1. CASE m = "self"
    BY <1>1, <2>1, HoldersPend DEF MInv, SelfHeld
  <2>2. CASE m = "writer"
    BY <1>1, <2>2, HoldersPend DEF MInv, WriterHeld
  <2>3. QED BY <2>1, <2>2 DEF Locks
<1>2. CASE \E t \in Threads : Wakes(t, m) \/ Unlocks(t, m)
  <2>1. PICK t \in Threads : Wakes(t, m) \/ Unlocks(t, m)
    BY <1>2
  <2>2. todo[t] # <<>> /\ M(t) = m
    BY <2>1 DEF Wakes, Unlocks
  <2>3. t \notin sleeping[m]
    BY <2>1 DEF Wakes, Unlocks, MInv, Sleepers
  <2>4. QED BY <2>2, <2>3 DEF Involved
<1>3. QED BY <1>1, <1>2 DEF MInv, Sleepers

\* lock_shared, lock, unlock: a writer of shared_mutex is alone, and
\* writer_lock is locked as long as anybody holds it, for any finite set of
\* threads and any number of calls.
THEOREM FutexExcludes ==
  ASSUME IsFiniteSet(Threads)
  PROVE  Spec => []SharedExclusion
<1>1. Init => MInv
  BY InitInv
<1>2. MInv /\ [Next]_vars => MInv'
  BY NextInv
<1>3. MInv => SharedExclusion
  BY MInvExcludes
<1>4. QED BY <1>1, <1>2, <1>3, PTL DEF Spec

\* lock_blocking and unlock: no sleeper of either timed_mutex is left without
\* a thread that holds the mutex or is on its way to wake it.
THEOREM FutexForgetsNobody ==
  ASSUME IsFiniteSet(Threads)
  PROVE  Spec => []NoSleeperForgotten
<1>1. Init => MInv
  BY InitInv
<1>2. MInv /\ [Next]_vars => MInv'
  BY NextInv
<1>3. MInv => NoSleeperForgotten
  BY MInvForgetsNobody
<1>4. QED BY <1>1, <1>2, <1>3, PTL DEF Spec
=============================================================================
