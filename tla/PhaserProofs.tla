---------------------------- MODULE PhaserProofs ----------------------------
(***************************************************************************)
(* Proofs about Phaser, for every tree, every set of threads, every width  *)
(* of the fields and every policy.                                         *)
(***************************************************************************)
EXTENDS Phaser, FiniteSetTheorems, WellFoundedInduction, TLAPS

(***************************************************************************)
(* Lemmas on the words the code computes.                                  *)
(***************************************************************************)

\* The remainder of the sum of two 16-bit counts.
LEMMA ModSmall ==
  ASSUME NEW m \in Nat, m > 0, NEW a \in 0 .. m - 1
  PROVE  a % m = a
  BY SMT

\* A remainder lies below its divisor.
LEMMA ModRange ==
  ASSUME NEW m \in Nat, m > 0, NEW a \in Nat
  PROVE  a % m \in 0 .. m - 1
  BY SMT


\* A sum of two counts wraps at most once.
LEMMA ModWrap ==
  ASSUME NEW m \in Nat, m > 0, NEW a \in m .. 2 * m - 1
  PROVE  a % m = a - m
  BY SMT
\* A phase result is a phase result.
LEMMA MakeType ==
  ASSUME NEW w \in Word
  PROVE  /\ make(w) \in PhaseType
         /\ make_err(w) \in PhaseType
  BY DEF make, make_err, PhaseType, Cond, Word

\* The masked increment of a phase is a phase.
LEMMA NextPhaseType ==
  ASSUME NEW ph \in Phase
  PROVE  NextPhase(ph) \in Phase
  BY WidthAssumption, ModRange DEF NextPhase, Phase

\* phase_type::to_state loses nothing of two counts in range.
LEMMA ToState ==
  ASSUME NEW o \in [term : BOOLEAN, phase : Phase], NEW a \in Count, NEW b \in Count
  PROVE  to_state(o, a, b) =
           [term |-> o.term, phase |-> o.phase, parties |-> a, pending |-> b]
  BY WidthAssumption, ModSmall DEF to_state, Count

\* The same for a phase that carries a condition.
LEMMA ToStateOut ==
  ASSUME NEW o \in PhaseType, NEW a \in Count, NEW b \in Count
  PROVE  to_state(o, a, b) =
           [term |-> o.term, phase |-> o.phase, parties |-> a, pending |-> b]
  BY WidthAssumption, ModSmall DEF to_state, Count

\* reconcile_state stores a well-formed word.
LEMMA ReconciledWord ==
  ASSUME NEW w \in Word, NEW o \in PhaseType, Shaped(w)
  PROVE  Reconciled(w, o) \in Word /\ Shaped(Reconciled(w, o))
<1>1. w.parties \in Count /\ w.pending \in Count /\ 0 \in Count /\ 1 \in Count
  BY WidthAssumption DEF Word, Count
<1>2. o.term \in BOOLEAN /\ o.phase \in Phase
  BY DEF PhaseType
<1>3. CASE o.term
  <2>1. Reconciled(w, o) = [term |-> o.term, phase |-> o.phase,
                            parties |-> w.parties, pending |-> w.pending]
    BY <1>1, <1>3, ToStateOut DEF Reconciled
  <2>2. QED BY <1>1, <1>2, <2>1 DEF Word, Shaped
<1>4. CASE ~o.term /\ w.parties = 0
  <2>1. Reconciled(w, o) = [term |-> o.term, phase |-> o.phase,
                            parties |-> 0, pending |-> 1]
    BY <1>1, <1>4, ToStateOut DEF Reconciled
  <2>2. QED BY <1>1, <1>2, <2>1 DEF Word, Shaped
<1>5. CASE ~o.term /\ w.parties # 0
  <2>1. Reconciled(w, o) = [term |-> o.term, phase |-> o.phase,
                            parties |-> w.parties, pending |-> w.parties]
    BY <1>1, <1>5, ToStateOut DEF Reconciled
  <2>2. QED BY <1>1, <1>2, <2>1 DEF Word, Shaped, Count
<1>6. QED BY <1>3, <1>4, <1>5

\* The last arriver stores a well-formed word of the next phase.
LEMMA AdvancedWord ==
  ASSUME NEW w \in Word
  PROVE  /\ Advanced(w) \in Word
         /\ Shaped(Advanced(w))
         /\ Advanced(w).phase = NextPhase(w.phase)
<1> DEFINE o == [term |-> on_advance(w.parties), phase |-> NextPhase(w.phase)]
<1>0. on_advance(w.parties) \in BOOLEAN
  BY WidthAssumption DEF on_advance
<1>1. w.parties \in Count /\ 0 \in Count /\ 1 \in Count
  BY WidthAssumption DEF Word, Count
<1>2. /\ o \in [term : BOOLEAN, phase : Phase]
      /\ o.phase = NextPhase(w.phase)
      /\ o.term = on_advance(w.parties)
  BY <1>0, NextPhaseType DEF Word
<1>3. \A a, b \in Count :
        to_state(o, a, b) = [term |-> o.term, phase |-> o.phase,
                             parties |-> a, pending |-> b]
  BY <1>2, ToState
<1>4. Advanced(w) = IF o.term THEN to_state(o, w.parties, 0)
                    ELSE IF w.parties = 0 THEN to_state(o, 0, 1)
                    ELSE to_state(o, w.parties, w.parties)
  BY DEF Advanced
<1> HIDE DEF o
<1>5. \E b \in Count :
        /\ Advanced(w) = [term |-> o.term, phase |-> o.phase,
                          parties |-> w.parties, pending |-> b]
        /\ b <= w.parties \/ (w.parties = 0 /\ b = 1)
  <2>1. CASE o.term
    <3>1. Advanced(w) = [term |-> o.term, phase |-> o.phase,
                         parties |-> w.parties, pending |-> 0]
      BY <1>1, <1>3, <1>4, <2>1
    <3>2. 0 <= w.parties
      BY <1>1, WidthAssumption DEF Count
    <3>3. QED BY <1>1, <3>1, <3>2
  <2>2. CASE ~o.term /\ w.parties = 0
    BY <1>1, <1>3, <1>4, <2>2
  <2>3. CASE ~o.term /\ w.parties # 0
    BY <1>1, <1>3, <1>4, <2>3 DEF Count
  <2>4. QED BY <2>1, <2>2, <2>3
<1>6. o.phase \in Phase /\ o.term \in BOOLEAN
  BY <1>2
<1>7. QED BY <1>1, <1>2, <1>5, <1>6 DEF Word, Shaped

\* do_register's overflow check is exact: when it passes, neither field
\* wraps, and the word stays well-formed.
LEMMA EnrolledWord ==
  ASSUME NEW w \in Word, Shaped(w), NEW n \in 1 .. CountSize - 1,
         ~Overflows(w, n)
  PROVE  /\ Enrolled(w, n) \in Word
         /\ Shaped(Enrolled(w, n))
         /\ Enrolled(w, n).phase = w.phase
         /\ Enrolled(w, n).parties = w.parties + n
<1>1. w.parties \in Count /\ w.pending \in Count /\ n \in Count
  BY WidthAssumption DEF Word, Count
<1>2. w.term \in BOOLEAN /\ w.phase \in Phase
  BY DEF Word
<1>3. \A a, b \in Count :
        to_state(w, a, b) = [term |-> w.term, phase |-> w.phase,
                             parties |-> a, pending |-> b]
  BY WidthAssumption, ModSmall DEF to_state, Count
<1>4. n + w.parties < CountSize
  <2>1. SUFFICES ASSUME n + w.parties >= CountSize PROVE FALSE
    BY <1>1, WidthAssumption DEF Count
  <2>2. n + w.parties \in CountSize .. 2 * CountSize - 1
    BY <1>1, <2>1, WidthAssumption DEF Count
  <2>3. (n + w.parties) % CountSize = n + w.parties - CountSize
    <3> DEFINE a == n + w.parties
    <3>1. CountSize \in Nat /\ CountSize > 0 /\ a \in CountSize .. 2 * CountSize - 1
      BY <2>2, WidthAssumption
    <3> HIDE DEF a
    <3>2. a % CountSize = a - CountSize
      BY <3>1, ModWrap
    <3>3. QED BY <3>1, <3>2, <1>1, WidthAssumption DEF a, Count
  <2>4. ~((n + w.parties) % CountSize < w.parties)
    BY DEF Overflows
  <2>5. QED
    <3> DEFINE k == w.parties
    <3>1. k \in Int /\ n \in 1 .. CountSize - 1 /\ CountSize \in Nat
      BY <1>1, WidthAssumption DEF Count
    <3>2. ~(n + k - CountSize < k)
      BY <2>3, <2>4
    <3> HIDE DEF k
    <3>3. QED BY <3>1, <3>2
<1>5. CASE w.parties = 0
  <2>1. Enrolled(w, n) = [term |-> w.term, phase |-> w.phase,
                          parties |-> n, pending |-> n]
    BY <1>1, <1>3, <1>5 DEF Enrolled
  <2>2. QED BY <1>1, <1>2, <1>5, <2>1, WidthAssumption DEF Word, Shaped, Count
<1>6. CASE w.parties # 0
  <2>1. w.pending <= w.parties
    BY <1>6 DEF Shaped
  <2>2. w.parties + n \in Count /\ w.pending + n \in Count
    BY <1>1, <1>4, <2>1, WidthAssumption DEF Count
  <2>3. Enrolled(w, n) = [term |-> w.term, phase |-> w.phase,
                          parties |-> w.parties + n, pending |-> w.pending + n]
    BY <2>2, <1>3, <1>6 DEF Enrolled
  <2>4. QED BY <1>1, <1>2, <2>1, <2>2, <2>3 DEF Word, Shaped, Count
<1>7. QED BY <1>5, <1>6

\* An arrival's subtraction never borrows from the neighbouring field.
LEMMA AdjustedWord ==
  ASSUME NEW w \in Word, Shaped(w), NEW d \in {0, 1}, unarrived_of(w) # 0
  PROVE  /\ Adjusted(w, d) \in Word
         /\ Shaped(Adjusted(w, d))
         /\ Adjusted(w, d).phase = w.phase
         /\ Adjusted(w, d).term = w.term
         /\ Adjusted(w, d).pending = w.pending - 1
<1>1. w.parties \in Count /\ w.pending \in Count /\ w.term \in BOOLEAN
      /\ w.phase \in Phase
  BY DEF Word
<1>2. Adjusted(w, d) = [term |-> w.term, phase |-> w.phase,
                        parties |-> w.parties - d, pending |-> w.pending - 1]
  BY DEF Adjusted
<1>3. w.parties # 0 /\ w.pending # 0 /\ w.pending <= w.parties
  BY DEF unarrived_of, Shaped
<1>4. w.parties - d \in Count /\ w.pending - 1 \in Count
      /\ w.pending - 1 <= w.parties - d
  BY <1>1, <1>3, WidthAssumption DEF Count
<1>5. QED BY <1>1, <1>2, <1>4 DEF Word, Shaped
(***************************************************************************)
(* The inductive invariant.                                                *)
(***************************************************************************)
BelowRoot == {"rec", "recCas", "rec2", "rec2Cas",
              "lock", "commit", "commitLoad", "empty"}

\* s is fit to be the expected value of operation o's compare-and-swap.
CanCas(o, w, n) ==
  /\ o \in ArriveOps => ~w.term /\ unarrived_of(w) # 0
  /\ o = "register" => ~w.term /\ ~Overflows(w, n)

\* What a thread at `label' of phaser p, with local s = w, may rely on.
Fit(t, o, p, label, w) ==
  /\ label \in BelowRoot => p # Root
  /\ label \in {"cas", "rec2", "rec2Cas"} => CanCas(o, w, Registrations(t, p))
  /\ label \in {"rec2", "rec2Cas"} => o = "register"
  /\ label = "cas" /\ o = "register" => w.pending # 0
  /\ label = "adv" => p = Root /\ ~w.term /\ w.pending = 0

Safe(t) ==
  /\ pc[t] # "client" =>
       /\ cur[t] \in Phasers
       /\ Fit(t, op[t], cur[t], pc[t], snap[t][cur[t]])
  /\ \A p \in Phasers : caller[t][p] # Root /\ Shaped(snap[t][p])
  /\ Shaped(copy[t])

LocalType ==
  /\ pc \in [Threads -> Labels]
  /\ op \in [Threads -> Ops]
  /\ cur \in [Threads -> Phasers \cup {NoPhaser}]
  /\ caller \in [Threads -> [Phasers -> Phasers \cup {NoPhaser}]]
  /\ snap \in [Threads -> [Phasers -> Word]]
  /\ copy \in [Threads -> Word]
  /\ out \in [Threads -> PhaseType]

SharedType ==
  /\ state \in [Phasers -> Word]
  /\ lock \in [Phasers -> Threads \cup {NoThread}]
  /\ WordShape

ClientType ==
  /\ role \in [Threads -> {"out", "in", "arrived"}]
  /\ todo \in [Threads -> Int]
  /\ seen \in [Threads -> Phase]
  /\ fuel \in [Threads -> Nat]

GhostType ==
  /\ held \in [Threads -> Int]
  /\ left \in [Threads -> Int]
  /\ touched \in BOOLEAN

LocalInv == LocalType /\ \A t \in Threads : Safe(t)

IInv == SharedType /\ LocalInv /\ ClientType /\ GhostType

\* The inductive invariant contains the two state properties.
LEMMA IInvImplies == IInv => TypeOK /\ WordShape
  BY DEF IInv, SharedType, LocalInv, LocalType, ClientType, GhostType, TypeOK

\* The value of an unused local is a well-formed word.
LEMMA NoWordType == NoWord \in Word /\ Shaped(NoWord) /\ NoOut \in PhaseType
<1>1. 0 \in Count /\ 0 \in Phase
  BY WidthAssumption DEF Count, Phase
<1>2. QED
  BY <1>1 DEF NoWord, NoOut, define_state, make, Word, PhaseType, Cond, Shaped

\* The argument of do_register is a non-zero count at every level.
LEMMA RegistrationsType ==
  ASSUME NEW t \in Threads, NEW p \in Phasers
  PROVE  Registrations(t, p) \in 1 .. CountSize - 1
  BY ClientAssumption, WidthAssumption DEF Registrations

\* A thread whose locals do not change stays safe.
LEMMA SafeFrame ==
  ASSUME NEW u \in Threads, Safe(u),
         pc'[u] = pc[u], op'[u] = op[u], cur'[u] = cur[u],
         caller'[u] = caller[u], snap'[u] = snap[u], copy'[u] = copy[u]
  PROVE  Safe(u)'
  BY DEF Safe, Fit, CanCas, Registrations

\* A step of t inside its frame in p.
LEMMA LocalStep ==
  ASSUME LocalInv,
         NEW t \in Threads, NEW p \in Phasers, NEW label \in Labels,
         NEW o \in PhaseType, NEW w \in Word, NEW c \in Word,
         Shaped(w), Shaped(c), cur[t] = p,
         Goto(t, label, o),
         snap' = [snap EXCEPT ![t][p] = w],
         copy' = [copy EXCEPT ![t] = c],
         Fit(t, op[t], p, label, w),
         UNCHANGED <<op, cur, caller>>
  PROVE  LocalInv'
<1>1. LocalType'
  BY DEF LocalInv, LocalType, Goto
<1>2. ASSUME NEW u \in Threads, u # t PROVE Safe(u)'
  BY <1>2, SafeFrame DEF LocalInv, LocalType, Goto
<1>3. Safe(t)'
  <2>1. /\ pc'[t] = label /\ copy'[t] = c /\ cur'[t] = p /\ op'[t] = op[t]
        /\ caller'[t] = caller[t]
        /\ snap'[t][p] = w
        /\ \A q \in Phasers : q # p => snap'[t][q] = snap[t][q]
    BY DEF LocalInv, LocalType, Goto
  <2>2. Safe(t)
    BY DEF LocalInv
  <2>3. QED
    BY <2>1, <2>2 DEF Safe, Fit, CanCas, Registrations
<1>4. QED BY <1>1, <1>2, <1>3 DEF LocalInv
\* WaitOrCas leaves t fit for the access it goes to.
LEMMA WaitOrCasSafe ==
  ASSUME LocalInv, NEW t \in Threads, NEW p \in Phasers, NEW w \in Word,
         Shaped(w), cur[t] = p, op[t] = "register",
         CanCas(op[t], w, Registrations(t, p)),
         WaitOrCas(t, w),
         snap' = [snap EXCEPT ![t][p] = w],
         copy' = [copy EXCEPT ![t] = NoWord],
         UNCHANGED <<op, cur, caller>>
  PROVE  LocalInv'
<1>1. CASE w.pending = 0
  <2>1. Goto(t, "await", make(w)) /\ "await" \in Labels
    BY <1>1 DEF WaitOrCas, Labels
  <2>2. Fit(t, op[t], p, "await", w)
    BY DEF Fit, BelowRoot
  <2>3. QED BY <2>1, <2>2, MakeType, NoWordType, LocalStep
<1>2. CASE w.pending # 0
  <2>1. Goto(t, "cas", NoOut) /\ "cas" \in Labels
    BY <1>2 DEF WaitOrCas, Labels
  <2>2. Fit(t, op[t], p, "cas", w)
    BY <1>2 DEF Fit, BelowRoot
  <2>3. QED BY <2>1, <2>2, NoWordType, LocalStep
<1>3. QED BY <1>1, <1>2

\* Going on from an up-to-date s preserves the invariant on locals.
LEMMA ExamineSafe ==
  ASSUME LocalInv, NEW t \in Threads, NEW p \in Phasers, NEW w \in Word,
         Shaped(w), cur[t] = p,
         Examine(t, p, w),
         UNCHANGED <<op, cur, caller>>
  PROVE  LocalInv'
<1> DEFINE n == Registrations(t, p)
<1>1. snap' = [snap EXCEPT ![t][p] = w]
  BY DEF Examine
<1>2. {"ret", "cas", "await", "lock", "rec2"} \subseteq Labels
  BY DEF Labels
<1>3. /\ Fit(t, op[t], p, "ret", w)
      /\ Fit(t, op[t], p, "await", w)
  BY DEF Fit, BelowRoot
<1>4. ASSUME NEW o \in PhaseType, Return(t, o), copy' = [copy EXCEPT ![t] = NoWord]
      PROVE  LocalInv'
  BY <1>1, <1>2, <1>3, <1>4, NoWordType, LocalStep DEF Return
<1>5. ASSUME Goto(t, "cas", NoOut), copy' = [copy EXCEPT ![t] = NoWord],
             CanCas(op[t], w, n), op[t] = "register" => w.pending # 0
      PROVE  LocalInv'
  <2>1. Fit(t, op[t], p, "cas", w)
    BY <1>5 DEF Fit, BelowRoot
  <2>2. QED BY <1>1, <1>2, <1>5, <2>1, NoWordType, LocalStep
<1>6. CASE op[t] # "register" \/ w.term
  <2>1. copy' = [copy EXCEPT ![t] = NoWord] \/ (op[t] = "register" /\ ~w.term)
    BY <1>6 DEF Examine
  <2>2. CASE w.term \/ op[t] = "query"
    BY <1>4, <1>6, <2>2, MakeType DEF Examine, ArriveOps
  <2>3. CASE ~w.term /\ op[t] \in ArriveOps
    <3>1. CASE unarrived_of(w) = 0
      BY <1>4, <1>6, <2>3, <3>1, MakeType DEF Examine, ArriveOps
    <3>2. CASE unarrived_of(w) # 0
      <4>1. CanCas(op[t], w, n)
        BY <2>3, <3>2 DEF CanCas, ArriveOps
      <4>2. Goto(t, "cas", NoOut) /\ copy' = [copy EXCEPT ![t] = NoWord]
        BY <1>6, <2>3, <3>2 DEF Examine, ArriveOps
      <4>3. QED BY <1>5, <2>3, <4>1, <4>2 DEF ArriveOps
    <3>3. QED BY <3>1, <3>2
  <2>4. CASE ~w.term /\ op[t] = "await"
    <3>1. copy' = [copy EXCEPT ![t] = NoWord]
      BY <1>6, <2>4 DEF Examine, ArriveOps
    <3>2. Goto(t, "await", make(w)) \/ Return(t, make(w))
      BY <1>6, <2>4 DEF Examine, ArriveOps
    <3>3. QED
      BY <1>1, <1>2, <1>3, <1>4, <3>1, <3>2, MakeType, NoWordType, LocalStep
  <2>5. CASE ~w.term /\ op[t] = "term"
    <3>1. CanCas(op[t], w, n)
      BY <2>5 DEF CanCas, ArriveOps
    <3>2. Goto(t, "cas", NoOut) /\ copy' = [copy EXCEPT ![t] = NoWord]
      BY <1>6, <2>5 DEF Examine, ArriveOps
    <3>3. QED BY <1>5, <2>5, <3>1, <3>2
  <2>6. QED BY <1>6, <2>2, <2>3, <2>4, <2>5 DEF Examine
<1>7. CASE op[t] = "register" /\ ~w.term
  <2>1. ExamineRegister(t, p, w)
    BY <1>7 DEF Examine
  <2>2. CASE Overflows(w, n)
    BY <1>4, <2>1, <2>2, MakeType DEF ExamineRegister
  <2>3. CASE ~Overflows(w, n)
    <3>1. CanCas(op[t], w, n)
      BY <1>7, <2>3 DEF CanCas, ArriveOps
    <3>2. CASE (w.parties # 0 \/ w.pending = 0) /\ p = Root
      <4>1. WaitOrCas(t, w) /\ copy' = [copy EXCEPT ![t] = NoWord]
        BY <2>1, <2>3, <3>2 DEF ExamineRegister
      <4>2. QED BY <1>1, <1>7, <3>1, <4>1, WaitOrCasSafe
    <3>3. CASE (w.parties # 0 \/ w.pending = 0) /\ p # Root
      <4>1. Goto(t, "rec2", NoOut) /\ copy' = [copy EXCEPT ![t] = w]
        BY <2>1, <2>3, <3>3 DEF ExamineRegister
      <4>2. Fit(t, op[t], p, "rec2", w)
        BY <1>7, <3>1, <3>3 DEF Fit
      <4>3. QED BY <1>1, <1>2, <4>1, <4>2, NoWordType, LocalStep
    <3>4. CASE w.parties = 0 /\ w.pending # 0 /\ p = Root
      BY <1>5, <2>1, <2>3, <3>1, <3>4 DEF ExamineRegister
    <3>5. CASE w.parties = 0 /\ w.pending # 0 /\ p # Root
      <4>1. Goto(t, "lock", NoOut) /\ copy' = [copy EXCEPT ![t] = NoWord]
        BY <2>1, <2>3, <3>5 DEF ExamineRegister
      <4>2. Fit(t, op[t], p, "lock", w)
        BY <3>5 DEF Fit
      <4>3. QED BY <1>1, <1>2, <4>1, <4>2, NoWordType, LocalStep
    <3>6. QED BY <3>2, <3>3, <3>4, <3>5
  <2>4. QED BY <2>2, <2>3
<1>8. QED BY <1>6, <1>7

\* The loop head preserves the invariant on locals.
LEMMA LoopSafe ==
  ASSUME LocalInv, NEW t \in Threads, NEW p \in Phasers, NEW w \in Word,
         Shaped(w), cur[t] = p,
         Loop(t, p, w),
         UNCHANGED <<op, cur, caller>>
  PROVE  LocalInv'
<1>1. CASE p = Root
  BY <1>1, ExamineSafe DEF Loop
<1>2. CASE p # Root
  <2>1. Goto(t, "rec", NoOut) /\ "rec" \in Labels
    BY <1>2 DEF Loop, Labels
  <2>2. Fit(t, op[t], p, "rec", NoWord)
    BY <1>2 DEF Fit
  <2>3. /\ snap' = [snap EXCEPT ![t][p] = NoWord]
        /\ copy' = [copy EXCEPT ![t] = w]
    BY <1>2 DEF Loop
  <2>4. QED BY <2>1, <2>2, <2>3, NoWordType, LocalStep
<1>3. QED BY <1>1, <1>2

\* So does the return from reconcile_state.
LEMMA ReconcileReturnsSafe ==
  ASSUME LocalInv, NEW t \in Threads, NEW p \in Phasers, NEW w \in Word,
         Shaped(w), cur[t] = p, pc[t] # "client",
         ReconcileReturns(t, p, w),
         UNCHANGED <<op, cur, caller>>
  PROVE  LocalInv'
<1>1. CASE pc[t] \in {"rec", "recCas"}
  BY <1>1, ExamineSafe DEF ReconcileReturns
<1>2. CASE pc[t] \in {"rec2", "rec2Cas"}
  <2>1. /\ snap[t][p] \in Word /\ Shaped(snap[t][p])
        /\ op[t] = "register"
        /\ CanCas(op[t], snap[t][p], Registrations(t, p))
    BY <1>2 DEF LocalInv, LocalType, Safe, Fit
  <2>2. /\ snap' = [snap EXCEPT ![t][p] = snap[t][p]]
        /\ copy' = [copy EXCEPT ![t] = NoWord]
    BY <1>2 DEF ReconcileReturns, LocalInv, LocalType
  <2>3. CASE w = snap[t][p]
    BY <1>2, <2>1, <2>2, <2>3, WaitOrCasSafe DEF ReconcileReturns
  <2>4. CASE w # snap[t][p]
    <3>1. Goto(t, "load", NoOut) /\ "load" \in Labels
      BY <1>2, <2>4 DEF ReconcileReturns, Labels
    <3>2. Fit(t, op[t], p, "load", snap[t][p])
      BY DEF Fit, BelowRoot
    <3>3. QED BY <2>1, <2>2, <3>1, <3>2, NoWordType, LocalStep
  <2>5. QED BY <2>3, <2>4
<1>3. QED BY <1>1, <1>2 DEF ReconcileReturns
\* Entering the parent's operation.
LEMMA CallParentSafe ==
  ASSUME LocalInv, NEW t \in Threads, NEW p \in Phasers, NEW w \in Word,
         Shaped(w), cur[t] = p, p # Root,
         CallParent(t, p),
         snap' = [snap EXCEPT ![t][p] = w],
         UNCHANGED <<op, copy>>
  PROVE  LocalInv'
<1>1. Parent[p] \in Phasers
  BY TreeAssumption
<1>2. LocalType'
  BY <1>1, NoWordType DEF LocalInv, LocalType, CallParent, Goto, Labels
<1>3. ASSUME NEW u \in Threads, u # t PROVE Safe(u)'
  BY <1>3, SafeFrame DEF LocalInv, LocalType, CallParent, Goto
<1>4. Safe(t)'
  <2>1. /\ pc'[t] = "load" /\ cur'[t] = Parent[p] /\ copy'[t] = copy[t]
        /\ snap'[t][p] = w
        /\ \A q \in Phasers : q # p => snap'[t][q] = snap[t][q]
        /\ caller'[t][Parent[p]] = p
        /\ \A q \in Phasers : q # Parent[p] => caller'[t][q] = caller[t][q]
    BY <1>1 DEF LocalInv, LocalType, CallParent, Goto
  <2>2. Safe(t)
    BY DEF LocalInv
  <2>3. QED
    BY <1>1, <2>1, <2>2 DEF Safe, Fit, BelowRoot
<1>5. QED BY <1>2, <1>3, <1>4 DEF LocalInv

\* What a step may do to the root.
RootStep ==
  /\ state[Root].term => state'[Root] = state[Root]
  /\ state'[Root].phase # state[Root].phase =>
       /\ state'[Root].phase = NextPhase(state[Root].phase)
       /\ state[Root].pending = 0

\* Storing a well-formed word in a phaser other than the root.
LEMMA StoreBelowRoot ==
  ASSUME SharedType, NEW p \in Phasers, p # Root, NEW w \in Word, Shaped(w),
         state' = [state EXCEPT ![p] = w]
  PROVE  state' \in [Phasers -> Word] /\ WordShape' /\ RootStep
<1>1. /\ state' \in [Phasers -> Word]
      /\ state'[p] = w
      /\ \A q \in Phasers : q # p => state'[q] = state[q]
  BY DEF SharedType
<1>2. WordShape'
  BY <1>1 DEF SharedType, WordShape
<1>3. QED BY <1>1, <1>2, TreeAssumption DEF RootStep

\* A step that stores nothing keeps the words well formed and the root as it is.
LEMMA NoStore ==
  ASSUME SharedType, UNCHANGED state
  PROVE  state' \in [Phasers -> Word] /\ WordShape' /\ RootStep
  BY DEF SharedType, WordShape, RootStep

\* A thread inside an operation is in a phaser.
LEMMA InPhaser ==
  ASSUME IInv, NEW t \in Threads, pc[t] # "client"
  PROVE  /\ cur[t] \in Phasers
         /\ state[cur[t]] \in Word /\ Shaped(state[cur[t]])
         /\ snap[t][cur[t]] \in Word /\ Shaped(snap[t][cur[t]])
         /\ copy[t] \in Word /\ Shaped(copy[t])
         /\ out[t] \in PhaseType
         /\ state[Root] \in Word
         /\ Fit(t, op[t], cur[t], pc[t], snap[t][cur[t]])
<1>1. Safe(t) /\ LocalType /\ SharedType
  BY DEF IInv, LocalInv
<1>2. cur[t] \in Phasers
  BY <1>1 DEF Safe
<1>3. QED
  BY <1>1, <1>2, TreeAssumption DEF Safe, LocalType, SharedType, WordShape

\* state.load() at the head of an operation preserves the invariant.
LEMMA LoadStep ==
  ASSUME IInv, NEW t \in Threads, Load(t) PROVE IInv' /\ RootStep
<1>1. pc[t] # "client" /\ UNCHANGED <<state, lock, op, cur, caller>>
  BY DEF Load, shared
<1>2. LocalInv'
  BY <1>1, InPhaser, LoopSafe DEF Load, IInv
<1>3. SharedType' /\ RootStep
  BY <1>1, NoStore DEF SharedType, IInv
<1>4. QED
  BY <1>2, <1>3 DEF Load, IInv, ClientType, GhostType, client, ghost

\* The root's load in reconcile_state preserves the invariant.
LEMMA ReconcileLoadStep ==
  ASSUME IInv, NEW t \in Threads, ReconcileLoad(t) PROVE IInv' /\ RootStep
<1>1. pc[t] \in {"rec", "rec2"} /\ UNCHANGED <<state, lock, op, cur, caller>>
  BY DEF ReconcileLoad, shared
<1>2. LocalInv'
  <2>1. CASE SamePhase(state[Root], copy[t])
    BY <1>1, <2>1, InPhaser, ReconcileReturnsSafe DEF ReconcileLoad, IInv
  <2>2. CASE ~SamePhase(state[Root], copy[t])
    <3> DEFINE l == IF pc[t] = "rec" THEN "recCas" ELSE "rec2Cas"
    <3>1. Goto(t, l, make(state[Root])) /\ UNCHANGED <<snap, copy>>
      BY <2>2 DEF ReconcileLoad
    <3>2. l \in Labels /\ Fit(t, op[t], cur[t], l, snap[t][cur[t]])
      BY <1>1, InPhaser DEF Labels, Fit, BelowRoot
    <3>3. /\ snap' = [snap EXCEPT ![t][cur[t]] = snap[t][cur[t]]]
          /\ copy' = [copy EXCEPT ![t] = copy[t]]
      BY <3>1 DEF IInv, LocalInv, LocalType
    <3> HIDE DEF l
    <3>4. LocalInv /\ make(state[Root]) \in PhaseType
      BY <1>1, InPhaser, MakeType DEF IInv
    <3>5. QED BY <1>1, <3>1, <3>2, <3>3, <3>4, InPhaser, LocalStep
  <2>3. QED BY <2>1, <2>2
<1>3. SharedType' /\ RootStep
  BY <1>1, NoStore DEF SharedType, IInv
<1>4. QED
  BY <1>2, <1>3 DEF ReconcileLoad, IInv, ClientType, GhostType, client, ghost

\* reconcile_state stores a well-formed word in a child.
LEMMA ReconcileCasStep ==
  ASSUME IInv, NEW t \in Threads, ReconcileCas(t) PROVE IInv' /\ RootStep
<1> DEFINE p == cur[t]
           w == Reconciled(copy[t], out[t])
<1>1. pc[t] \in {"recCas", "rec2Cas"} /\ UNCHANGED <<lock, op, cur, caller>>
  BY DEF ReconcileCas
<1>2. p \in Phasers /\ p # Root
  BY <1>1, InPhaser DEF Fit, BelowRoot
<1>3. w \in Word /\ Shaped(w)
  BY <1>1, InPhaser, ReconciledWord
<1>4. CASE state[p] = copy[t] /\ state' = [state EXCEPT ![p] = w]
           /\ ReconcileReturns(t, p, w)
  <2>1. LocalInv'
    BY <1>1, <1>2, <1>3, <1>4, ReconcileReturnsSafe DEF IInv
  <2>2. SharedType' /\ RootStep
    BY <1>1, <1>2, <1>3, <1>4, StoreBelowRoot DEF SharedType, IInv
  <2>3. QED
    BY <2>1, <2>2 DEF ReconcileCas, IInv, ClientType, GhostType, client, ghost
<1>5. CASE /\ copy' = [copy EXCEPT ![t] = state[p]]
           /\ Goto(t, IF pc[t] = "recCas" THEN "rec" ELSE "rec2", NoOut)
           /\ UNCHANGED <<state, snap>>
  <2> DEFINE l == IF pc[t] = "recCas" THEN "rec" ELSE "rec2"
  <2>1. l \in Labels /\ Fit(t, op[t], cur[t], l, snap[t][cur[t]])
    BY <1>1, InPhaser DEF Labels, Fit, BelowRoot
  <2>2. snap' = [snap EXCEPT ![t][cur[t]] = snap[t][cur[t]]]
    BY <1>5 DEF IInv, LocalInv, LocalType
  <2>3. Goto(t, l, NoOut) /\ LocalInv
    BY <1>5 DEF IInv
  <2> HIDE DEF l
  <2>4. LocalInv'
    BY <1>1, <1>5, <2>1, <2>2, <2>3, InPhaser, NoWordType, LocalStep
  <2>5. SharedType' /\ RootStep
    BY <1>1, <1>5, NoStore DEF SharedType, IInv
  <2>6. QED
    BY <2>4, <2>5 DEF ReconcileCas, IInv, ClientType, GhostType, client, ghost
<1>6. QED BY <1>4, <1>5 DEF ReconcileCas
\* Storing a word of the same phase in place of one that is not terminated.
LEMMA StoreSamePhase ==
  ASSUME SharedType, NEW p \in Phasers, NEW w \in Word, Shaped(w),
         ~state[p].term, w.phase = state[p].phase,
         state' = [state EXCEPT ![p] = w]
  PROVE  state' \in [Phasers -> Word] /\ WordShape' /\ RootStep
<1>1. /\ state' \in [Phasers -> Word]
      /\ state'[p] = w
      /\ \A q \in Phasers : q # p => state'[q] = state[q]
  BY DEF SharedType
<1>2. WordShape'
  BY <1>1 DEF SharedType, WordShape
<1>3. QED BY <1>1, <1>2, TreeAssumption DEF RootStep

\* An arrival subtracts from a word in which somebody is unarrived.
LEMMA ArriveCasStep ==
  ASSUME IInv, NEW t \in Threads, pc[t] = "cas",
         state[cur[t]] = snap[t][cur[t]],
         ArriveCas(t, cur[t], snap[t][cur[t]]),
         UNCHANGED <<copy, lock, op, client>>
  PROVE  IInv' /\ RootStep
<1> DEFINE p == cur[t]
           s == snap[t][p]
           d == Deregisters(t, p)
           w == Adjusted(s, d)
<1>1. /\ p \in Phasers /\ s \in Word /\ Shaped(s) /\ op[t] \in ArriveOps
      /\ ~s.term /\ unarrived_of(s) # 0
  BY InPhaser DEF Fit, CanCas, ArriveCas
<1>2. d \in {0, 1}
  BY DEF Deregisters
<1>3. /\ w \in Word /\ Shaped(w) /\ w.phase = s.phase /\ w.term = s.term
      /\ w.pending = s.pending - 1
  BY <1>1, <1>2, AdjustedWord
<1>4. /\ state' = [state EXCEPT ![p] = w]
      /\ snap' = [snap EXCEPT ![t][p] = w]
  BY DEF ArriveCas
<1>5. make(s) \in PhaseType /\ make(w) \in PhaseType
  BY <1>1, <1>3, MakeType
<1>6. copy' = [copy EXCEPT ![t] = copy[t]] /\ copy[t] \in Word /\ Shaped(copy[t])
  BY InPhaser DEF IInv, LocalInv, LocalType
<1>7. {"await", "ret", "adv"} \subseteq Labels
  BY DEF Labels
<1>8. GhostType'
  <2>1. CASE p = Home[t]
    <3>1. /\ left' = [left EXCEPT ![t] = left[t] - 1]
          /\ held' = [held EXCEPT ![t] = held[t] - d]
          /\ touched' = TRUE
      BY <2>1 DEF ArriveCas
    <3>2. QED BY <1>2, <3>1 DEF IInv, GhostType
  <2>2. CASE p # Home[t]
    BY <2>2 DEF ArriveCas, IInv, GhostType, ghost
  <2>3. QED BY <2>1, <2>2
<1>9. SharedType' /\ RootStep
  BY <1>1, <1>3, <1>4, StoreSamePhase DEF IInv, SharedType
<1>10. LocalInv'
  <2>1. CASE unarrived_of(s) # 1
    <3>1. UNCHANGED <<op, cur, caller>>
      BY <2>1 DEF ArriveCas
    <3>2. Fit(t, op[t], p, "await", w) /\ Fit(t, op[t], p, "ret", w)
      BY DEF Fit, BelowRoot
    <3>3. Goto(t, "await", make(s)) \/ Goto(t, "ret", make(w))
      BY <2>1 DEF ArriveCas, Return
    <3> HIDE DEF p, s, d, w
    <3>4. QED
      BY <1>1, <1>3, <1>4, <1>5, <1>6, <1>7, <3>1, <3>2, <3>3, LocalStep
      DEF IInv, p
  <2>2. CASE unarrived_of(s) = 1 /\ p = Root
    <3>1. UNCHANGED <<op, cur, caller>> /\ Goto(t, "adv", make(w))
      BY <2>2 DEF ArriveCas
    <3>2. w.pending = 0
      BY <1>3, <2>2 DEF unarrived_of
    <3>3. Fit(t, op[t], p, "adv", w)
      BY <1>1, <1>3, <2>2, <3>2 DEF Fit, BelowRoot
    <3> HIDE DEF p, s, d, w
    <3>4. QED
      BY <1>1, <1>3, <1>4, <1>5, <1>6, <1>7, <3>1, <3>3, LocalStep DEF IInv, p
  <2>3. CASE unarrived_of(s) = 1 /\ p # Root
    <3>1. CallParent(t, p)
      BY <2>3 DEF ArriveCas
    <3> HIDE DEF s, d, w
    <3>2. QED BY <1>1, <1>3, <1>4, <2>3, <3>1, CallParentSafe DEF IInv
  <2>4. QED BY <2>1, <2>2, <2>3
<1>11. QED BY <1>8, <1>9, <1>10 DEF IInv, ClientType, client

\* A registration adds to a word with room for it.
LEMMA RegisterCasStep ==
  ASSUME IInv, NEW t \in Threads, pc[t] = "cas",
         state[cur[t]] = snap[t][cur[t]],
         RegisterCas(t, cur[t], snap[t][cur[t]]),
         UNCHANGED <<copy, lock, op, client>>
  PROVE  IInv' /\ RootStep
<1> DEFINE p == cur[t]
           s == snap[t][p]
           n == Registrations(t, p)
           w == Enrolled(s, n)
<1>1. /\ p \in Phasers /\ s \in Word /\ Shaped(s) /\ ~s.term
      /\ ~Overflows(s, n) /\ n \in 1 .. CountSize - 1
  BY InPhaser, RegistrationsType DEF Fit, CanCas, RegisterCas
<1>2. w \in Word /\ Shaped(w) /\ w.phase = s.phase
  BY <1>1, EnrolledWord
<1>3. SharedType' /\ RootStep
  <2>1. state' = [state EXCEPT ![p] = w]
    BY DEF RegisterCas
  <2>2. QED BY <1>1, <1>2, <2>1, StoreSamePhase DEF IInv, SharedType
<1>4. GhostType'
  <2>1. Weight[t] \in Int
    BY ClientAssumption, WidthAssumption
  <2>2. QED BY <2>1 DEF RegisterCas, IInv, GhostType, ghost
<1>5. LocalInv'
  <2>1. /\ snap' = [snap EXCEPT ![t][p] = s]
        /\ copy' = [copy EXCEPT ![t] = copy[t]]
    BY DEF RegisterCas, IInv, LocalInv, LocalType
  <2>2. Fit(t, op[t], p, "ret", s) /\ "ret" \in Labels
    BY DEF Fit, BelowRoot, Labels
  <2>3. Goto(t, "ret", make(s)) /\ UNCHANGED <<op, cur, caller>>
    BY DEF RegisterCas, Return
  <2>4. make(s) \in PhaseType /\ copy[t] \in Word /\ Shaped(copy[t])
    BY <1>1, MakeType, InPhaser
  <2> HIDE DEF s, n, w
  <2>5. QED BY <1>1, <2>1, <2>2, <2>3, <2>4, LocalStep DEF IInv
<1>6. QED BY <1>3, <1>4, <1>5 DEF IInv, ClientType, client

\* force_termination changes only the termination bit.
LEMMA TerminateCasStep ==
  ASSUME IInv, NEW t \in Threads, pc[t] = "cas",
         state[cur[t]] = snap[t][cur[t]],
         TerminateCas(t, cur[t], snap[t][cur[t]]),
         UNCHANGED <<copy, lock, op, client>>
  PROVE  IInv' /\ RootStep
<1> DEFINE p == cur[t]
           s == snap[t][p]
           w == Terminated(s)
<1>1. p \in Phasers /\ s \in Word /\ Shaped(s) /\ state[p] = s
  BY InPhaser
<1>2. /\ w \in Word /\ Shaped(w) /\ w.phase = s.phase
      /\ s.term => w = s
  BY <1>1 DEF Terminated, Word, Shaped
<1>3. SharedType' /\ RootStep
  <2>1. state' = [state EXCEPT ![p] = w]
    BY DEF TerminateCas
  <2>2. CASE ~s.term
    BY <1>1, <1>2, <2>1, <2>2, StoreSamePhase DEF IInv, SharedType
  <2>3. CASE s.term
    <3>1. state' = state
      BY <1>1, <1>2, <2>1, <2>3 DEF IInv, SharedType
    <3>2. QED BY <3>1, NoStore DEF IInv, SharedType
  <2>4. QED BY <2>2, <2>3
<1>4. LocalInv'
  <2>1. /\ snap' = [snap EXCEPT ![t][p] = s]
        /\ copy' = [copy EXCEPT ![t] = copy[t]]
    BY DEF TerminateCas, IInv, LocalInv, LocalType
  <2>2. Fit(t, op[t], p, "ret", s) /\ "ret" \in Labels
    BY DEF Fit, BelowRoot, Labels
  <2>3. Goto(t, "ret", make(s)) /\ UNCHANGED <<op, cur, caller>>
    BY DEF TerminateCas, Return
  <2>4. make(s) \in PhaseType /\ copy[t] \in Word /\ Shaped(copy[t])
    BY <1>1, MakeType, InPhaser
  <2> HIDE DEF s, w
  <2>5. QED BY <1>1, <2>1, <2>2, <2>3, <2>4, LocalStep DEF IInv
<1>5. QED BY <1>3, <1>4 DEF TerminateCas, IInv, ClientType, GhostType, client, ghost

\* A failed compare-and-swap goes on with the reloaded word.
LEMMA RetryCasStep ==
  ASSUME IInv, NEW t \in Threads, pc[t] = "cas", RetryCas(t, cur[t]),
         UNCHANGED <<lock, op, client>>
  PROVE  IInv' /\ RootStep
<1> DEFINE p == cur[t]
<1>1. p \in Phasers /\ state[p] \in Word /\ Shaped(state[p])
  BY InPhaser
<1>2. LocalInv'
  <2>1. CASE op[t] = "term"
    <3>1. /\ snap' = [snap EXCEPT ![t][p] = state[p]]
          /\ UNCHANGED <<pc, out, copy, cur, caller>>
      BY <2>1 DEF RetryCas
    <3>2. Goto(t, "cas", out[t]) /\ copy' = [copy EXCEPT ![t] = copy[t]]
      BY <3>1 DEF Goto, IInv, LocalInv, LocalType
    <3>3. Fit(t, op[t], p, "cas", state[p]) /\ "cas" \in Labels
      BY <2>1 DEF Fit, CanCas, BelowRoot, ArriveOps, Labels
    <3>4. copy[t] \in Word /\ Shaped(copy[t]) /\ out[t] \in PhaseType
      BY InPhaser
    <3>5. QED BY <1>1, <3>1, <3>2, <3>3, <3>4, LocalStep DEF IInv
  <2>2. CASE op[t] # "term"
    BY <1>1, <2>2, LoopSafe DEF RetryCas, IInv
  <2>3. QED BY <2>1, <2>2
<1>3. SharedType' /\ RootStep
  BY NoStore DEF RetryCas, IInv, SharedType
<1>4. QED BY <1>2, <1>3 DEF RetryCas, IInv, ClientType, GhostType, client, ghost

\* The compare-and-swap of any operation preserves the invariant.
LEMMA CasStep ==
  ASSUME IInv, NEW t \in Threads, Cas(t) PROVE IInv' /\ RootStep
  BY ArriveCasStep, RegisterCasStep, TerminateCasStep, RetryCasStep DEF Cas
\* A step of t that only changes its pc and out.
LEMMA PlainStep ==
  ASSUME LocalInv, NEW t \in Threads, NEW p \in Phasers, cur[t] = p,
         pc[t] # "client",
         NEW label \in Labels, NEW o \in PhaseType,
         Goto(t, label, o),
         Fit(t, op[t], p, label, snap[t][p]),
         UNCHANGED <<op, cur, caller, snap, copy>>
  PROVE  LocalInv'
<1>1. /\ snap' = [snap EXCEPT ![t][p] = snap[t][p]]
      /\ copy' = [copy EXCEPT ![t] = copy[t]]
  BY DEF LocalInv, LocalType
<1>2. /\ snap[t][p] \in Word /\ Shaped(snap[t][p])
      /\ copy[t] \in Word /\ Shaped(copy[t])
  BY DEF LocalInv, LocalType, Safe
<1>3. QED BY <1>1, <1>2, LocalStep

\* The advance of the root stores a well-formed word.
LEMMA AdvanceCasStep ==
  ASSUME IInv, NEW t \in Threads, AdvanceCas(t) PROVE IInv' /\ RootStep
<1> DEFINE s == snap[t][Root]
           o == IF op[t] = "aaa" THEN make(state'[Root]) ELSE out[t]
<1>1. /\ pc[t] = "adv" /\ cur[t] = Root /\ s \in Word /\ Shaped(s)
      /\ ~s.term /\ s.pending = 0 /\ Root \in Phasers
  BY InPhaser, TreeAssumption DEF AdvanceCas, Fit
<1>2. SharedType' /\ RootStep
  <2>1. CASE state[Root] = s
    <3>1. /\ state' \in [Phasers -> Word]
          /\ state'[Root] = Advanced(s)
          /\ \A q \in Phasers : q # Root => state'[q] = state[q]
      BY <1>1, <2>1, AdvancedWord DEF AdvanceCas, IInv, SharedType
    <3>2. WordShape'
      BY <1>1, <3>1, AdvancedWord DEF IInv, SharedType, WordShape
    <3>3. RootStep
      BY <1>1, <2>1, <3>1, AdvancedWord DEF RootStep
    <3>4. QED BY <3>1, <3>2, <3>3 DEF AdvanceCas, IInv, SharedType
  <2>2. CASE state[Root] # s
    BY <2>2, NoStore DEF AdvanceCas, IInv, SharedType
  <2>3. QED BY <2>1, <2>2
<1>3. LocalInv'
  <2>1. o \in PhaseType
    BY <1>1, <1>2, MakeType, InPhaser DEF SharedType
  <2>2. Goto(t, "ret", o) /\ UNCHANGED <<op, cur, caller, snap, copy>>
    BY DEF AdvanceCas, Return
  <2>3. Fit(t, op[t], Root, "ret", snap[t][Root]) /\ "ret" \in Labels
    BY DEF Fit, BelowRoot, Labels
  <2> HIDE DEF s, o
  <2>4. QED BY <1>1, <2>1, <2>2, <2>3, PlainStep DEF IInv
<1>4. GhostType'
  BY DEF AdvanceCas, IInv, GhostType
<1>5. QED BY <1>2, <1>3, <1>4 DEF AdvanceCas, IInv, ClientType, client

\* The return from wait_queue->await_advance preserves the invariant.
LEMMA AwaitStep ==
  ASSUME IInv, NEW t \in Threads, Await(t) PROVE IInv' /\ RootStep
<1>1. /\ pc[t] # "client"
      /\ UNCHANGED <<state, lock, op, cur, caller, snap, copy, client, ghost>>
  BY DEF Await, shared
<1>2. LocalInv'
  <2>1. Goto(t, "load", NoOut) \/ Goto(t, "ret", make(state[Root]))
    BY DEF Await, Return
  <2>2. /\ Fit(t, op[t], cur[t], "load", snap[t][cur[t]])
        /\ Fit(t, op[t], cur[t], "ret", snap[t][cur[t]])
        /\ "load" \in Labels /\ "ret" \in Labels
    BY DEF Fit, BelowRoot, Labels
  <2>3. cur[t] \in Phasers /\ make(state[Root]) \in PhaseType
    BY <1>1, InPhaser, MakeType
  <2>4. QED BY <1>1, <2>1, <2>2, <2>3, NoWordType, PlainStep DEF IInv
<1>3. SharedType' /\ RootStep
  BY <1>1, NoStore DEF IInv, SharedType
<1>4. QED BY <1>1, <1>2, <1>3 DEF IInv, ClientType, GhostType, client, ghost

\* Taking self_lock and calling the parent preserves the invariant.
LEMMA LockStep ==
  ASSUME IInv, NEW t \in Threads, Lock(t) PROVE IInv' /\ RootStep
<1> DEFINE p == cur[t]
<1>1. /\ pc[t] = "lock" /\ p \in Phasers /\ p # Root
      /\ state[p] \in Word /\ Shaped(state[p])
      /\ snap[t][p] \in Word /\ Shaped(snap[t][p])
      /\ UNCHANGED <<state, op, client, ghost>>
  BY InPhaser DEF Lock, Fit, BelowRoot
<1>2. LocalInv' /\ lock' \in [Phasers -> Threads \cup {NoThread}]
  <2>1. CASE state[p] = snap[t][p]
    <3>1. /\ CallParent(t, p) /\ UNCHANGED <<snap, copy>>
          /\ lock' = [lock EXCEPT ![p] = t]
      BY <2>1 DEF Lock
    <3>2. snap' = [snap EXCEPT ![t][p] = snap[t][p]]
      BY <3>1 DEF IInv, LocalInv, LocalType
    <3>3. LocalInv'
      BY <1>1, <3>1, <3>2, CallParentSafe DEF IInv
    <3>4. QED BY <3>1, <3>3 DEF IInv, SharedType
  <2>2. CASE state[p] # snap[t][p]
    <3>1. Loop(t, p, state[p]) /\ UNCHANGED <<lock, cur, caller>>
      BY <2>2 DEF Lock
    <3>2. QED BY <1>1, <3>1, LoopSafe DEF IInv, SharedType
  <2>3. QED BY <2>1, <2>2
<1>3. SharedType' /\ RootStep
  BY <1>1, <1>2, NoStore DEF IInv, SharedType
<1>4. QED BY <1>1, <1>2, <1>3 DEF IInv, ClientType, GhostType, client, ghost

\* The first registration with a child stores a well-formed word.
LEMMA CommitStep ==
  ASSUME IInv, NEW t \in Threads, Commit(t) PROVE IInv' /\ RootStep
<1> DEFINE p == cur[t]
           n == Registrations(t, p)
           w == to_state(out[t], n, n)
<1>1. /\ pc[t] = "commit" /\ p \in Phasers /\ p # Root
      /\ state[p] \in Word /\ Shaped(state[p]) /\ out[t] \in PhaseType
      /\ snap[t][p] \in Word /\ Shaped(snap[t][p])
      /\ copy[t] \in Word /\ Shaped(copy[t])
      /\ UNCHANGED <<op, cur, caller, copy, client, touched>>
  BY InPhaser DEF Commit, Fit, BelowRoot
<1>2. n \in 1 .. CountSize - 1 /\ n \in Count /\ n \in Int
  BY <1>1, RegistrationsType, WidthAssumption DEF Count
<1>3. w \in Word /\ Shaped(w)
  <2>1. w = [term |-> out[t].term, phase |-> out[t].phase,
             parties |-> n, pending |-> n]
    BY <1>1, <1>2, ToStateOut
  <2>2. QED BY <1>1, <1>2, <2>1 DEF Word, Shaped, PhaseType
<1>4. {"ret", "commitLoad"} \subseteq Labels
      /\ Fit(t, op[t], p, "ret", snap[t][p])
      /\ Fit(t, op[t], p, "commitLoad", state[p])
  BY <1>1 DEF Fit, BelowRoot, Labels
<1>5. CASE /\ state[p] = snap[t][p]
           /\ state' = [state EXCEPT ![p] = w]
           /\ lock' = [lock EXCEPT ![p] = NoThread]
           /\ Return(t, out[t])
           /\ IF p = Home[t]
              THEN /\ held' = [held EXCEPT ![t] = n]
                   /\ left' = [left EXCEPT ![t] = n]
              ELSE UNCHANGED <<held, left>>
           /\ UNCHANGED snap
  <2> HIDE DEF n, w
  <2>1. SharedType' /\ RootStep
    BY <1>1, <1>3, <1>5, StoreBelowRoot DEF IInv, SharedType
  <2>2. LocalInv'
    BY <1>1, <1>4, <1>5, PlainStep DEF IInv, Return
  <2>3. GhostType'
    BY <1>1, <1>2, <1>5 DEF IInv, GhostType
  <2>4. QED BY <1>1, <2>1, <2>2, <2>3 DEF IInv, ClientType, client
<1>6. CASE /\ snap' = [snap EXCEPT ![t][p] = state[p]]
           /\ Goto(t, "commitLoad", NoOut)
           /\ UNCHANGED <<shared, held, left>>
  <2>1. SharedType' /\ RootStep
    BY <1>6, NoStore DEF IInv, SharedType, shared
  <2>2. copy' = [copy EXCEPT ![t] = copy[t]]
    BY <1>1 DEF IInv, LocalInv, LocalType
  <2>3. LocalInv'
    BY <1>1, <1>4, <1>6, <2>2, NoWordType, LocalStep DEF IInv
  <2>4. QED BY <1>1, <1>6, <2>1, <2>3 DEF IInv, ClientType, GhostType, client
<1>7. QED BY <1>5, <1>6 DEF Commit

\* The reload of the root's phase preserves the invariant.
LEMMA CommitLoadStep ==
  ASSUME IInv, NEW t \in Threads, CommitLoad(t) PROVE IInv' /\ RootStep
<1>1. /\ pc[t] = "commitLoad"
      /\ UNCHANGED <<state, lock, op, cur, caller, snap, copy, client, ghost>>
      /\ Goto(t, "commit", make(state[Root]))
  BY DEF CommitLoad, shared
<1>2. /\ cur[t] \in Phasers /\ make(state[Root]) \in PhaseType
      /\ Fit(t, op[t], cur[t], "commit", snap[t][cur[t]])
      /\ "commit" \in Labels
  BY <1>1, InPhaser, MakeType DEF Fit, BelowRoot, Labels
<1>3. LocalInv'
  BY <1>1, <1>2, PlainStep DEF IInv
<1>4. SharedType' /\ RootStep
  BY <1>1, NoStore DEF IInv, SharedType
<1>5. QED BY <1>1, <1>3, <1>4 DEF IInv, ClientType, GhostType, client, ghost

\* A child left without parties becomes the empty word.
LEMMA EmptyCasStep ==
  ASSUME IInv, NEW t \in Threads, EmptyCas(t) PROVE IInv' /\ RootStep
<1> DEFINE p == cur[t]
           w == define_state(snap[t][p].phase, 0, 1)
<1>1. /\ pc[t] = "empty" /\ p \in Phasers /\ p # Root
      /\ snap[t][p] \in Word /\ out[t] \in PhaseType
      /\ UNCHANGED <<lock, op, cur, caller, snap, copy, client, ghost>>
  BY InPhaser DEF EmptyCas, Fit, BelowRoot
<1>2. w \in Word /\ Shaped(w)
  BY <1>1, WidthAssumption DEF define_state, Word, Shaped, Count
<1>3. LocalInv'
  <2>1. Goto(t, "ret", out[t]) /\ "ret" \in Labels
        /\ Fit(t, op[t], p, "ret", snap[t][p])
    BY DEF EmptyCas, Return, Labels, Fit, BelowRoot
  <2>2. QED BY <1>1, <2>1, PlainStep DEF IInv
<1>4. SharedType' /\ RootStep
  <2>1. CASE state' = [state EXCEPT ![p] = w]
    BY <1>1, <1>2, <2>1, StoreBelowRoot DEF IInv, SharedType
  <2>2. CASE state' = state
    BY <1>1, <2>2, NoStore DEF IInv, SharedType
  <2>3. QED BY <2>1, <2>2 DEF EmptyCas
<1>5. QED BY <1>1, <1>3, <1>4 DEF IInv, ClientType, GhostType, client, ghost
\* The return from the parent's member function preserves the invariant.
LEMMA ResumeStep ==
  ASSUME IInv, NEW t \in Threads, Resume(t) PROVE IInv' /\ RootStep
<1> DEFINE p == cur[t]
           c == caller[t][p]
<1>1. /\ pc[t] = "ret" /\ p \in Phasers
      /\ UNCHANGED <<state, op, copy, out, client, ghost>>
      /\ cur' = [cur EXCEPT ![t] = c]
      /\ caller' = [caller EXCEPT ![t][p] = NoPhaser]
      /\ snap' = [snap EXCEPT ![t][p] = NoWord]
  BY InPhaser DEF Resume
<1>2. c \in Phasers /\ c # Root
  BY <1>1 DEF Resume, IInv, LocalInv, LocalType, Safe
<1>3. \E l \in {"commit", "empty", "ret"} : pc' = [pc EXCEPT ![t] = l]
  BY <1>1 DEF Resume, IInv, LocalInv, LocalType
<1>4. lock' \in [Phasers -> Threads \cup {NoThread}]
  BY <1>2 DEF Resume, IInv, SharedType
<1>5. LocalType'
  BY <1>1, <1>2, <1>3, NoWordType DEF IInv, LocalInv, LocalType, Labels
<1>6. ASSUME NEW u \in Threads, u # t PROVE Safe(u)'
  BY <1>1, <1>3, <1>6, SafeFrame DEF IInv, LocalInv, LocalType
<1>7. Safe(t)'
  <2>1. Safe(t)
    BY DEF IInv, LocalInv
  <2>2. /\ cur'[t] = c /\ copy'[t] = copy[t] /\ op'[t] = op[t]
        /\ pc'[t] \in {"commit", "empty", "ret"}
        /\ snap'[t][p] = NoWord
        /\ \A q \in Phasers : q # p => snap'[t][q] = snap[t][q]
        /\ caller'[t][p] = NoPhaser
        /\ \A q \in Phasers : q # p => caller'[t][q] = caller[t][q]
    BY <1>1, <1>3 DEF IInv, LocalInv, LocalType
  <2>3. Fit(t, op'[t], cur'[t], pc'[t], snap'[t][cur'[t]])
    BY <1>2, <2>2 DEF Fit, BelowRoot
  <2>4. \A q \in Phasers : caller'[t][q] # Root /\ Shaped(snap'[t][q])
    BY <2>1, <2>2, NoWordType, TreeAssumption DEF Safe
  <2>5. QED
    BY <1>2, <2>1, <2>2, <2>3, <2>4
    DEF Safe, Fit, CanCas, Registrations
<1>8. SharedType' /\ RootStep
  BY <1>1, <1>4, NoStore DEF IInv, SharedType
<1>9. QED
  BY <1>1, <1>5, <1>6, <1>7, <1>8
  DEF IInv, LocalInv, ClientType, GhostType, client, ghost

\* The end of an operation preserves the invariant.
LEMMA CompleteStep ==
  ASSUME IInv, NEW t \in Threads, Complete(t) PROVE IInv' /\ RootStep
<1>1. /\ pc[t] = "ret"
      /\ UNCHANGED <<state, lock, caller, copy, fuel, held, left, touched>>
  BY DEF Complete, shared, ghost
<1>2. LocalType'
  BY <1>1, NoWordType DEF Complete, IInv, LocalInv, LocalType, Labels, Ops
<1>3. ASSUME NEW u \in Threads, u # t PROVE Safe(u)'
  BY <1>1, <1>3, SafeFrame DEF Complete, IInv, LocalInv, LocalType
<1>4. Safe(t)'
  <2>1. Safe(t)
    BY DEF IInv, LocalInv
  <2>2. /\ pc'[t] = "client" /\ copy'[t] = copy[t] /\ caller'[t] = caller[t]
        /\ \A q \in Phasers : snap'[t][q] = NoWord
    BY <1>1 DEF Complete, IInv, LocalInv, LocalType
  <2>3. QED BY <2>1, <2>2, NoWordType DEF Safe
<1>5. ClientType'
  <2>1. out[t].phase \in Phase
    BY <1>1, InPhaser DEF PhaseType
  <2>2. held[t] \in Int /\ todo[t] - 1 \in Int
    BY DEF IInv, ClientType, GhostType
  <2>3. Outcome(t) /\ ClientType
    BY DEF Complete, IInv
  <2>4. role' \in [Threads -> {"out", "in", "arrived"}]
    <3>1. \/ UNCHANGED role
          \/ \E r \in {"out", "in", "arrived"} : role' = [role EXCEPT ![t] = r]
      BY <2>3 DEF Outcome
    <3>2. QED BY <2>3, <3>1 DEF ClientType
  <2>5. todo' \in [Threads -> Int]
    <3>1. \/ UNCHANGED todo
          \/ \E k \in {0, held[t], todo[t] - 1} : todo' = [todo EXCEPT ![t] = k]
      BY <2>3 DEF Outcome
    <3>2. QED BY <2>2, <2>3, <3>1 DEF ClientType
  <2>6. seen' \in [Threads -> Phase]
    BY <2>1, <2>3 DEF Outcome, ClientType
  <2>7. QED BY <1>1, <2>3, <2>4, <2>5, <2>6 DEF ClientType
<1>6. SharedType' /\ RootStep
  BY <1>1, NoStore DEF IInv, SharedType
<1>7. QED
  BY <1>1, <1>2, <1>3, <1>4, <1>5, <1>6 DEF IInv, LocalInv, GhostType

\* The call of an operation preserves the invariant.
LEMMA BeginStep ==
  ASSUME IInv, NEW t \in Threads, NEW o \in Ops, NEW p \in Phasers,
         Begin(t, o, p), fuel' \in [Threads -> Nat]
  PROVE  IInv' /\ RootStep
<1>1. /\ UNCHANGED <<state, lock, caller, snap, copy, out, role, todo, seen>>
      /\ UNCHANGED <<held, left, touched>>
  BY DEF Begin, shared, ghost
<1>2. LocalType'
  BY <1>1 DEF Begin, IInv, LocalInv, LocalType, Labels
<1>3. ASSUME NEW u \in Threads, u # t PROVE Safe(u)'
  BY <1>1, <1>3, SafeFrame DEF Begin, IInv, LocalInv, LocalType
<1>4. Safe(t)'
  <2>1. Safe(t)
    BY DEF IInv, LocalInv
  <2>2. /\ pc'[t] = "load" /\ cur'[t] = p /\ op'[t] = o
    BY DEF Begin, IInv, LocalInv, LocalType
  <2>3. Fit(t, op'[t], cur'[t], pc'[t], snap'[t][cur'[t]])
    BY <2>2 DEF Fit, BelowRoot
  <2>4. QED
    BY <1>1, <2>1, <2>2, <2>3 DEF Safe, Fit, CanCas, Registrations
<1>5. SharedType' /\ RootStep
  BY <1>1, NoStore DEF IInv, SharedType
<1>6. QED
  BY <1>1, <1>2, <1>3, <1>4, <1>5 DEF IInv, LocalInv, ClientType, GhostType

\* Every call a client makes preserves the invariant.
LEMMA ClientStep ==
  ASSUME IInv, NEW t \in Threads, Participate(t) \/ Visit(t)
  PROVE  IInv' /\ RootStep
<1>1. Home[t] \in Phasers /\ Root \in Phasers
  BY ClientAssumption, TreeAssumption
<1>2. PICK o \in Ops, p \in Phasers : Begin(t, o, p)
  BY <1>1
  DEF Participate, Visit, Ops, BeginPaid, arrive, arrive_and_await_advance,
      arrive_and_deregister, await_advance, register_some,
      get_unarrived_parties, force_termination
<1>3. UNCHANGED fuel \/ (fuel[t] > 0 /\ fuel' = [fuel EXCEPT ![t] = fuel[t] - 1])
  BY DEF Participate, Visit, BeginPaid, arrive, arrive_and_await_advance,
         arrive_and_deregister, await_advance, register_some,
         get_unarrived_parties, force_termination
<1>4. fuel' \in [Threads -> Nat]
  BY <1>3 DEF IInv, ClientType
<1>5. QED BY <1>2, <1>4, BeginStep

\* Every step preserves the invariant and respects the root.
LEMMA NextStep == IInv /\ [Next]_vars => IInv' /\ (RootStep \/ UNCHANGED vars)
<1> SUFFICES ASSUME IInv, [Next]_vars
             PROVE  IInv' /\ (RootStep \/ UNCHANGED vars)
  OBVIOUS
<1>1. ASSUME NEW t \in Threads, Run(t) PROVE IInv' /\ RootStep
  BY <1>1, LoadStep, ReconcileLoadStep, ReconcileCasStep, CasStep,
     AdvanceCasStep, AwaitStep, LockStep, CommitStep, CommitLoadStep,
     EmptyCasStep, ResumeStep, CompleteStep
  DEF Run
<1>2. CASE UNCHANGED vars
  <2>1. UNCHANGED <<state, lock, pc, op, cur, caller, snap, copy, out>>
        /\ UNCHANGED <<role, todo, seen, fuel, held, left, touched>>
    BY <1>2 DEF vars, shared, local, client, ghost
  <2>2. \A u \in Threads : Safe(u)'
    BY <2>1, SafeFrame DEF IInv, LocalInv
  <2>3. SharedType'
    BY <2>1, NoStore DEF IInv, SharedType
  <2>4. QED
    BY <1>2, <2>1, <2>2, <2>3
    DEF IInv, LocalInv, LocalType, ClientType, GhostType
<1>3. QED BY <1>1, <1>2, ClientStep DEF Next

\* The constructors establish the invariant.
LEMMA InitIInv == Init => IInv
<1> SUFFICES ASSUME Init PROVE IInv
  OBVIOUS
<1>1. InitPhase \in Phase /\ 0 \in Phase /\ 0 \in Count /\ 1 \in Count /\ 1 \in Nat
  BY WidthAssumption DEF Phase, Count
<1>2. SharedType
  <2>1. PICK n \in [Phasers -> Count] :
          state = [p \in Phasers |->
            define_state(IF n[p] = 0 /\ p # Root THEN 0 ELSE InitPhase,
                         n[p], IF n[p] = 0 THEN 1 ELSE n[p])]
    BY DEF Init
  <2>2. \A p \in Phasers :
          state[p] = [term |-> FALSE,
                      phase |-> IF n[p] = 0 /\ p # Root THEN 0 ELSE InitPhase,
                      parties |-> n[p],
                      pending |-> IF n[p] = 0 THEN 1 ELSE n[p]]
    BY <2>1 DEF define_state
  <2>3. ASSUME NEW p \in Phasers
        PROVE  state[p] \in Word /\ Shaped(state[p])
    <3> DEFINE k == IF n[p] = 0 THEN 1 ELSE n[p]
               ph == IF n[p] = 0 /\ p # Root THEN 0 ELSE InitPhase
    <3>1. n[p] \in Count /\ k \in Count /\ (k <= n[p] \/ (n[p] = 0 /\ k = 1))
      BY <1>1, <2>1 DEF Count
    <3>2. /\ state[p] = [term |-> FALSE, phase |-> ph, parties |-> n[p],
                         pending |-> k]
          /\ ph \in Phase
      BY <1>1, <2>2
    <3> HIDE DEF k, ph
    <3>3. QED BY <1>1, <3>1, <3>2 DEF Word, Shaped
  <2>4. state \in [Phasers -> Word] /\ WordShape
    BY <2>1, <2>3 DEF WordShape
  <2>5. QED BY <2>4 DEF Init, SharedType
<1>3. LocalType
  BY NoWordType DEF Init, LocalType, Labels, Ops
<1>4. \A t \in Threads : Safe(t)
  BY NoWordType, TreeAssumption DEF Init, Safe
<1>5. Weight \in [Threads -> Int] /\ Fuel \in [Threads -> Nat]
  BY ClientAssumption, WidthAssumption
<1>6. todo \in [Threads -> Int]
  BY <1>5 DEF Init
<1>7. QED
  BY <1>1, <1>2, <1>3, <1>4, <1>5, <1>6
  DEF Init, IInv, LocalInv, ClientType, GhostType

(***************************************************************************)
(* The theorems.                                                           *)
(***************************************************************************)

\* The invariant holds in every reachable state.
LEMMA Invariance == Spec => []IInv
  BY InitIInv, NextStep, PTL DEF Spec

\* The state words and the locals of the operations always have their
\* types: no count field borrows from or carries into its neighbour.
THEOREM TypeCorrect == Spec => []TypeOK
  BY Invariance, IInvImplies, PTL

\* Every word do_arrive, do_register, reconcile_state and the advance leave
\* has pending <= parties, or is the empty phaser.
THEOREM ShapeCorrect == Spec => []WordShape
  BY Invariance, IInvImplies, PTL

\* A terminated root is never changed again.
THEOREM FrozenCorrect == Spec => TerminatedFrozen
<1>1. IInv /\ [Next]_vars =>
        [state[Root].term => state'[Root] = state[Root]]_vars
  BY NextStep DEF RootStep
<1>2. QED BY <1>1, Invariance, PTL DEF Spec, TerminatedFrozen

\* The root's phase moves only by one, and only from a word without pending
\* parties.
THEOREM StepsCorrect == Spec => PhaseSteps
<1>1. IInv /\ [Next]_vars =>
        [state'[Root].phase # state[Root].phase =>
           /\ state'[Root].phase = NextPhase(state[Root].phase)
           /\ state[Root].pending = 0]_vars
  BY NextStep DEF RootStep
<1>2. QED BY <1>1, Invariance, PTL DEF Spec, PhaseSteps

(***************************************************************************)
(* Every complete phase has exactly one thread that will advance it: the   *)
(* invariant AdvanceOwned, on top of the one above.                        *)
(***************************************************************************)
\* t goes to a label other than "adv", leaving the locals of the others.
Elsewhere(t) ==
  /\ \E l \in Labels : l # "adv" /\ pc' = [pc EXCEPT ![t] = l]
  /\ \A u \in Threads : u # t => snap'[u] = snap[u]

\* Examining an up-to-date word never leads to the advance.
LEMMA ExamineElsewhere ==
  ASSUME NEW t \in Threads, NEW p, NEW w, LocalType, Examine(t, p, w)
  PROVE  Elsewhere(t)
<1>1. \A u \in Threads : u # t => snap'[u] = snap[u]
  BY DEF Examine, LocalType
<1>2. \E l \in {"ret", "cas", "await", "rec2", "lock"} :
        pc' = [pc EXCEPT ![t] = l]
  BY DEF Examine, ExamineRegister, WaitOrCas, Return, Goto, ArriveOps
<1>3. QED BY <1>1, <1>2 DEF Elsewhere, Labels

\* Nor does the head of a retry loop.
LEMMA LoopElsewhere ==
  ASSUME NEW t \in Threads, NEW p, NEW w, LocalType, Loop(t, p, w)
  PROVE  Elsewhere(t)
<1>1. CASE Examine(t, p, w)
  BY <1>1, ExamineElsewhere
<1>2. CASE /\ Goto(t, "rec", NoOut)
           /\ snap' = [snap EXCEPT ![t][p] = NoWord]
  BY <1>2 DEF Elsewhere, Goto, LocalType, Labels
<1>3. QED BY <1>1, <1>2 DEF Loop

\* Nor does the return from reconcile_state.
LEMMA ReconcileElsewhere ==
  ASSUME NEW t \in Threads, NEW p, NEW w, LocalType, ReconcileReturns(t, p, w)
  PROVE  Elsewhere(t)
<1>1. CASE Examine(t, p, w)
  BY <1>1, ExamineElsewhere
<1>2. CASE /\ WaitOrCas(t, w) \/ Goto(t, "load", NoOut)
           /\ UNCHANGED snap
  BY <1>2 DEF Elsewhere, WaitOrCas, Goto, Labels
<1>3. QED BY <1>1, <1>2 DEF ReconcileReturns

\* A step of a thread not in charge that leaves the root alone.
LEMMA OwnedFrame ==
  ASSUME IInv, AdvanceOwned, NEW t \in Threads, pc[t] # "adv", Elsewhere(t),
         state'[Root] = state[Root]
  PROVE  AdvanceOwned'
<1>1. \A u \in Threads : (pc'[u] = "adv") <=> (pc[u] = "adv")
  BY DEF Elsewhere, IInv, LocalInv, LocalType
<1>2. \A u \in Threads : pc[u] = "adv" => snap'[u] = snap[u]
  BY DEF Elsewhere
<1>3. QED BY <1>1, <1>2 DEF AdvanceOwned

\* The steps that never store into the root.
LEMMA OwnedQuiet ==
  ASSUME IInv, AdvanceOwned, NEW t \in Threads,
         \/ Load(t) \/ ReconcileLoad(t) \/ ReconcileCas(t) \/ Await(t)
         \/ Lock(t) \/ Commit(t) \/ CommitLoad(t) \/ EmptyCas(t)
         \/ Resume(t) \/ Complete(t) \/ Participate(t) \/ Visit(t)
  PROVE  AdvanceOwned'
<1>0. LocalType /\ state \in [Phasers -> Word] /\ Root \in Phasers
  BY TreeAssumption DEF IInv, LocalInv, SharedType
<1>1. pc[t] # "adv"
  BY DEF Load, ReconcileLoad, ReconcileCas, Await, Lock, Commit, CommitLoad,
         EmptyCas, Resume, Complete, Participate, Visit, BeginPaid, Begin,
         arrive, arrive_and_await_advance, arrive_and_deregister,
         await_advance, register_some, get_unarrived_parties,
         force_termination
<1>2. ASSUME pc[t] \in BelowRoot PROVE cur[t] # Root
  BY <1>2, InPhaser DEF Fit, BelowRoot
<1>3. CASE Load(t)
  <2>1. Elsewhere(t)
    BY <1>0, <1>3, LoopElsewhere DEF Load
  <2>2. QED BY <1>1, <1>3, <2>1, OwnedFrame DEF Load, shared
<1>4. CASE ReconcileLoad(t)
  <2>1. Elsewhere(t)
    <3>1. CASE ReconcileReturns(t, cur[t], copy[t])
      BY <1>0, <3>1, ReconcileElsewhere
    <3>2. CASE /\ UNCHANGED snap
               /\ Goto(t, IF pc[t] = "rec" THEN "recCas" ELSE "rec2Cas",
                       make(state[Root]))
      BY <3>2 DEF Elsewhere, Goto, Labels
    <3>3. QED BY <1>4, <3>1, <3>2 DEF ReconcileLoad
  <2>2. QED BY <1>1, <1>4, <2>1, OwnedFrame DEF ReconcileLoad, shared
<1>5. CASE ReconcileCas(t)
  <2>1. Elsewhere(t)
    <3>1. CASE ReconcileReturns(t, cur[t], Reconciled(copy[t], out[t]))
      BY <1>0, <3>1, ReconcileElsewhere
    <3>2. CASE /\ UNCHANGED snap
               /\ Goto(t, IF pc[t] = "recCas" THEN "rec" ELSE "rec2", NoOut)
      BY <3>2 DEF Elsewhere, Goto, Labels
    <3>3. QED BY <1>5, <3>1, <3>2 DEF ReconcileCas
  <2>2. cur[t] # Root
    BY <1>2, <1>5 DEF ReconcileCas, BelowRoot
  <2>3. state'[Root] = state[Root]
    BY <1>0, <1>5, <2>2 DEF ReconcileCas
  <2>4. QED BY <1>1, <2>1, <2>3, OwnedFrame
<1>6. CASE Await(t)
  <2>1. Elsewhere(t)
    BY <1>6 DEF Await, Elsewhere, Return, Goto, Labels
  <2>2. QED BY <1>1, <1>6, <2>1, OwnedFrame DEF Await, shared
<1>7. CASE Lock(t)
  <2>1. Elsewhere(t)
    <3>1. CASE CallParent(t, cur[t]) /\ UNCHANGED snap
      BY <3>1 DEF Elsewhere, CallParent, Goto, Labels
    <3>2. CASE Loop(t, cur[t], state[cur[t]])
      BY <1>0, <3>2, LoopElsewhere
    <3>3. QED BY <1>7, <3>1, <3>2 DEF Lock
  <2>2. QED BY <1>1, <1>7, <2>1, OwnedFrame DEF Lock
<1>8. CASE Commit(t)
  <2>1. Elsewhere(t)
    BY <1>0, <1>8 DEF Commit, Elsewhere, Return, Goto, Labels, LocalType
  <2>2. cur[t] # Root
    BY <1>2, <1>8 DEF Commit, BelowRoot
  <2>3. state'[Root] = state[Root]
    BY <1>0, <1>8, <2>2 DEF Commit, shared
  <2>4. QED BY <1>1, <2>1, <2>3, OwnedFrame
<1>9. CASE CommitLoad(t)
  <2>1. Elsewhere(t)
    BY <1>9 DEF CommitLoad, Elsewhere, Goto, Labels
  <2>2. QED BY <1>1, <1>9, <2>1, OwnedFrame DEF CommitLoad, shared
<1>10. CASE EmptyCas(t)
  <2>1. Elsewhere(t)
    BY <1>10 DEF EmptyCas, Elsewhere, Return, Goto, Labels
  <2>2. cur[t] # Root
    BY <1>2, <1>10 DEF EmptyCas, BelowRoot
  <2>3. state'[Root] = state[Root]
    BY <1>0, <1>10, <2>2 DEF EmptyCas
  <2>4. QED BY <1>1, <2>1, <2>3, OwnedFrame
<1>11. CASE Resume(t)
  <2>1. \E l \in {"commit", "empty", "ret"} : pc' = [pc EXCEPT ![t] = l]
    BY <1>0, <1>11 DEF Resume, LocalType
  <2>2. Elsewhere(t)
    BY <1>0, <1>11, <2>1 DEF Resume, Elsewhere, Labels, LocalType
  <2>3. QED BY <1>1, <1>11, <2>2, OwnedFrame DEF Resume
<1>12. CASE Complete(t)
  <2>1. Elsewhere(t)
    BY <1>0, <1>12 DEF Complete, Elsewhere, Labels, LocalType
  <2>2. QED BY <1>1, <1>12, <2>1, OwnedFrame DEF Complete, shared
<1>13. CASE Participate(t) \/ Visit(t)
  <2>1. PICK o, p : Begin(t, o, p)
    BY <1>13
    DEF Participate, Visit, BeginPaid, arrive, arrive_and_await_advance,
        arrive_and_deregister, await_advance, register_some,
        get_unarrived_parties, force_termination
  <2>2. Elsewhere(t) /\ UNCHANGED state
    BY <2>1 DEF Begin, Elsewhere, Labels, shared
  <2>3. QED BY <1>1, <2>2, OwnedFrame
<1>14. QED
  BY <1>3, <1>4, <1>5, <1>6, <1>7, <1>8, <1>9, <1>10, <1>11, <1>12, <1>13

\* A registration never leaves a word without pending parties.
LEMMA EnrolledPending ==
  ASSUME NEW w \in Word, Shaped(w), NEW n \in 1 .. CountSize - 1,
         ~Overflows(w, n)
  PROVE  Enrolled(w, n).pending # 0
<1> DEFINE e == Enrolled(w, n)
<1>1. e \in Word /\ e.parties = w.parties + n
  BY EnrolledWord
<1>2. w.parties \in Count /\ w.pending \in Count /\ n \in Count
  BY WidthAssumption DEF Word, Count
<1>3. CASE w.parties = 0
  <2>1. e.pending = n % CountSize
    BY <1>3 DEF Enrolled, to_state
  <2>2. QED BY <1>2, <2>1, ModSmall, WidthAssumption DEF Count
<1>4. CASE w.parties # 0
  <2>1. w.pending + n \in Count
    <3>1. w.parties + n \in Count
      BY <1>1 DEF Word
    <3>2. w.pending <= w.parties
      BY <1>4 DEF Shaped
    <3>3. QED BY <1>2, <3>1, <3>2, WidthAssumption DEF Count
  <2>2. e.pending = (w.pending + n) % CountSize
    BY <1>4 DEF Enrolled, to_state
  <2>3. (w.pending + n) % CountSize = w.pending + n
    BY <2>1, ModSmall, WidthAssumption DEF Count
  <2>4. QED BY <1>2, <2>2, <2>3, WidthAssumption DEF Count
<1>5. QED BY <1>3, <1>4

\* A phase that an advance opens has somebody, or the empty phaser's one,
\* pending.
LEMMA AdvancedPending ==
  ASSUME NEW w \in Word, ~Advanced(w).term
  PROVE  Advanced(w).pending # 0
<1> DEFINE o == [term |-> on_advance(w.parties), phase |-> NextPhase(w.phase)]
<1>1. w.parties \in Count /\ 1 \in Count
  BY WidthAssumption DEF Word, Count
<1>2. \A a, b : /\ to_state(o, a, b).term = on_advance(w.parties)
               /\ to_state(o, a, b).pending = b % CountSize
  BY DEF to_state
<1>3. ~on_advance(w.parties)
  BY <1>2 DEF Advanced
<1>4. Advanced(w).pending = IF w.parties = 0 THEN 1 % CountSize
                            ELSE w.parties % CountSize
  BY <1>2, <1>3 DEF Advanced
<1>5. QED BY <1>1, <1>4, ModSmall, WidthAssumption DEF Count

\* A compare-and-swap of the root's word: an arrival leaves somebody pending
\* or takes charge, a registration adds to a phase that is not complete, and
\* a termination ends the matter.
LEMMA OwnedCas ==
  ASSUME IInv, AdvanceOwned, NEW t \in Threads, Cas(t)
  PROVE  AdvanceOwned'
<1> DEFINE p == cur[t]
           s == snap[t][p]
<1>0. /\ LocalType /\ state \in [Phasers -> Word] /\ Root \in Phasers
      /\ pc[t] = "cas" /\ p \in Phasers /\ s \in Word /\ Shaped(s)
      /\ Fit(t, op[t], p, "cas", s)
  BY InPhaser, TreeAssumption DEF Cas, IInv, LocalInv, SharedType
<1>1. CASE RetryCas(t, p)
  <2>1. Elsewhere(t)
    <3>1. CASE Loop(t, p, state[p])
      BY <1>0, <3>1, LoopElsewhere
    <3>2. CASE snap' = [snap EXCEPT ![t][p] = state[p]] /\ UNCHANGED pc
      <4>1. pc' = [pc EXCEPT ![t] = "cas"]
        BY <1>0, <3>2 DEF LocalType
      <4>2. QED BY <1>0, <3>2, <4>1 DEF Elsewhere, LocalType, Labels
    <3>3. QED BY <1>1, <3>1, <3>2 DEF RetryCas
  <2>2. QED BY <1>0, <1>1, <2>1, OwnedFrame DEF RetryCas
<1>2. CASE state[p] = s /\ RegisterCas(t, p, s)
  <2>1. Elsewhere(t)
    BY <1>2 DEF RegisterCas, Elsewhere, Return, Goto, Labels
  <2>2. CASE p # Root
    BY <1>0, <1>2, <2>1, <2>2, OwnedFrame DEF RegisterCas
  <2>3. CASE p = Root
    <3> DEFINE n == Registrations(t, p)
    <3>1. /\ ~s.term /\ s.pending # 0 /\ ~Overflows(s, n)
          /\ n \in 1 .. CountSize - 1
      BY <1>0, <1>2, RegistrationsType DEF Fit, CanCas, RegisterCas
    <3>2. Enrolled(s, n).pending # 0
      BY <1>0, <3>1, EnrolledPending
    <3>3. \A u \in Threads : pc[u] # "adv"
      BY <1>0, <1>2, <2>3, <3>1, InPhaser DEF AdvanceOwned, Fit
    <3>4. \A u \in Threads : pc'[u] # "adv"
      BY <1>0, <2>1, <3>3 DEF Elsewhere, LocalType
    <3>5. state'[Root] = Enrolled(s, n)
      BY <1>0, <1>2, <2>3 DEF RegisterCas
    <3>6. QED BY <3>2, <3>4, <3>5 DEF AdvanceOwned
  <2>4. QED BY <2>2, <2>3
<1>3. CASE state[p] = s /\ TerminateCas(t, p, s)
  <2>1. Elsewhere(t)
    BY <1>3 DEF TerminateCas, Elsewhere, Return, Goto, Labels
  <2>2. CASE p # Root
    BY <1>0, <1>3, <2>1, <2>2, OwnedFrame DEF TerminateCas
  <2>3. CASE p = Root
    BY <1>0, <1>3, <2>3 DEF TerminateCas, Terminated, AdvanceOwned
  <2>4. QED BY <2>2, <2>3
<1>4. CASE state[p] = s /\ ArriveCas(t, p, s)
  <2> DEFINE d == Deregisters(t, p)
             w == Adjusted(s, d)
  <2>1. /\ op[t] \in ArriveOps /\ ~s.term /\ unarrived_of(s) # 0
        /\ d \in {0, 1}
    BY <1>0, <1>4 DEF ArriveCas, Fit, CanCas, Deregisters
  <2>2. w \in Word /\ w.term = s.term /\ w.pending = s.pending - 1
    BY <1>0, <2>1, AdjustedWord
  <2>3. /\ state' = [state EXCEPT ![p] = w]
        /\ snap' = [snap EXCEPT ![t][p] = w]
    BY <1>4 DEF ArriveCas
  <2>4. s.pending \in Count /\ s.parties # 0 /\ unarrived_of(s) = s.pending
        /\ s.pending # 0
    BY <1>0, <2>1 DEF Word, unarrived_of
  <2>5. ASSUME p = Root PROVE \A u \in Threads : pc[u] # "adv"
    BY <1>0, <1>4, <2>1, <2>4, <2>5, InPhaser DEF AdvanceOwned, Fit
  <2>6. CASE p = Root /\ s.pending = 1
    <3>1. pc' = [pc EXCEPT ![t] = "adv"]
      BY <1>4, <2>4, <2>6 DEF ArriveCas, Goto
    <3>2. \A u \in Threads : pc'[u] = "adv" <=> u = t
      BY <1>0, <2>5, <2>6, <3>1 DEF LocalType
    <3>3. state'[Root] = w /\ snap'[t][Root] = w
      BY <1>0, <2>3, <2>6 DEF LocalType
    <3>4. QED BY <3>2, <3>3 DEF AdvanceOwned
  <2>7. CASE p # Root \/ s.pending # 1
    <3>1. \E l \in {"await", "ret", "load"} : pc' = [pc EXCEPT ![t] = l]
      BY <1>4, <2>4, <2>7 DEF ArriveCas, CallParent, Return, Goto
    <3>2. Elsewhere(t)
      BY <1>0, <2>3, <3>1 DEF Elsewhere, LocalType, Labels
    <3>3. CASE p # Root
      <4>1. state'[Root] = state[Root]
        BY <1>0, <2>3, <3>3
      <4>2. QED BY <1>0, <3>2, <4>1, OwnedFrame
    <3>4. CASE p = Root /\ s.pending # 1
      <4>1. state'[Root] = w
        BY <1>0, <2>3, <3>4
      <4>2. w.pending # 0
        BY <2>2, <2>4, <3>4, WidthAssumption DEF Count
      <4>3. \A u \in Threads : pc'[u] # "adv"
        BY <1>0, <2>5, <3>2, <3>4 DEF Elsewhere, LocalType
      <4>4. QED BY <4>1, <4>2, <4>3 DEF AdvanceOwned
    <3>5. QED BY <2>7, <3>3, <3>4
  <2>8. QED BY <2>6, <2>7
<1>5. QED BY <1>1, <1>2, <1>3, <1>4 DEF Cas

\* The advance itself: the new phase is not complete, or is terminated.
LEMMA OwnedAdvance ==
  ASSUME IInv, AdvanceOwned, NEW t \in Threads, AdvanceCas(t)
  PROVE  AdvanceOwned'
<1> DEFINE s == snap[t][Root]
<1>0. /\ LocalType /\ state \in [Phasers -> Word] /\ Root \in Phasers
      /\ pc[t] = "adv" /\ s \in Word
  BY InPhaser, TreeAssumption DEF AdvanceCas, IInv, LocalInv, LocalType, SharedType
<1>1. pc' = [pc EXCEPT ![t] = "ret"]
  BY DEF AdvanceCas, Return, Goto
<1>2. CASE state[Root].term
  <2>1. state'[Root].term
    <3>1. IInv' /\ RootStep
      BY AdvanceCasStep
    <3>2. QED BY <1>2, <3>1 DEF RootStep
  <2>2. QED BY <2>1 DEF AdvanceOwned
<1>3. CASE ~state[Root].term
  <2>1. state[Root] = s /\ \A u \in Threads : pc[u] = "adv" => u = t
    BY <1>0, <1>3 DEF AdvanceOwned
  <2>2. state'[Root] = Advanced(s)
    BY <1>0, <2>1 DEF AdvanceCas
  <2>3. \A u \in Threads : pc'[u] # "adv"
    BY <1>0, <1>1, <2>1 DEF LocalType
  <2>4. QED BY <1>0, <2>2, <2>3, AdvancedPending DEF AdvanceOwned
<1>4. QED BY <1>2, <1>3

\* No phase is complete at the start: an empty phaser has pending = 1.
LEMMA InitOwned == Init => AdvanceOwned
<1> SUFFICES ASSUME Init PROVE AdvanceOwned
  OBVIOUS
<1>1. PICK n \in [Phasers -> Count] :
        state = [p \in Phasers |->
          define_state(IF n[p] = 0 /\ p # Root THEN 0 ELSE InitPhase,
                       n[p], IF n[p] = 0 THEN 1 ELSE n[p])]
  BY DEF Init
<1>2. state[Root].pending # 0
  BY <1>1, TreeAssumption DEF define_state
<1>3. \A t \in Threads : pc[t] # "adv"
  BY DEF Init
<1>4. QED BY <1>2, <1>3 DEF AdvanceOwned

\* Every step keeps exactly one thread in charge of a complete phase.
LEMMA NextOwned == IInv /\ AdvanceOwned /\ [Next]_vars => AdvanceOwned'
<1> SUFFICES ASSUME IInv, AdvanceOwned, [Next]_vars PROVE AdvanceOwned'
  OBVIOUS
<1>1. CASE UNCHANGED vars
  BY <1>1 DEF vars, shared, local, AdvanceOwned
<1>2. ASSUME NEW t \in Threads, Run(t) \/ Participate(t) \/ Visit(t)
      PROVE  AdvanceOwned'
  BY <1>2, OwnedQuiet, OwnedCas, OwnedAdvance DEF Run
<1>3. QED BY <1>1, <1>2 DEF Next

\* In every reachable state of every tree, a complete phase of a phaser that
\* is not terminated has exactly one thread between do_arrive's decrement of
\* the root and its unchecked compare-and-swap, and that compare-and-swap
\* will succeed unless force_termination intervenes.
THEOREM AdvanceCorrect == Spec => []AdvanceOwned
  BY Invariance, InitOwned, NextOwned, PTL DEF Spec

(***************************************************************************)
(* A phaser without children: Phasers = {Root}.                            *)
(*                                                                         *)
(* The root never reconciles, so what is shown here holds at any width of  *)
(* the phase.  The invariant relates what each client believes (role,      *)
(* todo, seen) to the phase and to its parties at every point of its       *)
(* operation, and the word to all parties together.                        *)
(***************************************************************************)

\* Threads hold so many parties together, each of them f[t].
Parties(f) ==
  Cardinality({x \in Threads \X (1 .. CountSize) : x[2] <= f[x[1]]})

\* The root counts what the threads hold, and what of it has not arrived.
Counted ==
  /\ \A t \in Threads : /\ held[t] \in 0 .. Weight[t]
                        /\ left[t] \in 0 .. held[t]
  /\ state[Root].parties = Parties(held)
  /\ unarrived_of(state[Root]) = Parties(left)
  /\ ~state[Root].term /\ state[Root].pending = 0 => touched

\* The states of a client between its operations.
Outside(t) == ~state[Root].term => held[t] = 0
Unarrived(t) ==
  left[t] > 0 /\ todo[t] = left[t] /\ seen[t] = state[Root].phase
Renewed(t) == left[t] > 0 /\ left[t] = held[t]
Waiting(t) ==
  \/ left[t] = 0 /\ held[t] > 0 /\ seen[t] = state[Root].phase
  \/ Renewed(t) /\ state[Root].phase = NextPhase(seen[t])

\* One of its parties has arrived, and the client has not been told yet.
Arrived(t) ==
  IF todo[t] > 1
  THEN left[t] = todo[t] - 1 /\ seen[t] = state[Root].phase
  ELSE held[t] = 0 \/ Waiting(t)

\* A new phase has begun, and the client has not been told yet.
Entered(t) == Renewed(t) /\ out[t].phase = state[Root].phase

Resting(t) ==
  /\ pc[t] \in {"client", "load", "cas", "ret"}
  /\ role[t] = "out" => Outside(t)
  /\ role[t] = "in" => Unarrived(t)
  /\ role[t] = "arrived" => Waiting(t)

Registering(t) ==
  /\ role[t] = "out"
  /\ pc[t] \in {"load", "await", "cas", "ret"}
  /\ IF pc[t] = "ret" /\ out[t].cond = "normal" /\ ~out[t].term
     THEN Entered(t) ELSE Outside(t)

Arriving(t) ==
  /\ role[t] = "in"
  /\ pc[t] \in {"load", "cas", "adv", "ret"}
  /\ pc[t] \in {"load", "cas"} => Unarrived(t)
  /\ pc[t] \in {"adv", "ret"} =>
       /\ out[t].cond = "normal"
       /\ ~out[t].term => Arrived(t) /\ out[t].phase = seen[t]

ToldNext(t) ==
  pc[t] = "ret" =>
    /\ out[t].cond = "normal"
    /\ ~out[t].term => Entered(t) /\ out[t].phase = NextPhase(seen[t])

ArrivingAndWaiting(t) ==
  /\ role[t] = "in"
  /\ pc[t] \in {"load", "cas", "adv", "await", "ret"}
  /\ pc[t] \in {"load", "cas"} => Unarrived(t) /\ todo[t] = 1
  /\ pc[t] \in {"adv", "await"} => Waiting(t)
  /\ pc[t] = "await" => ~out[t].term /\ out[t].phase = seen[t]
  /\ ToldNext(t)

AwaitingAdvance(t) ==
  /\ role[t] = "arrived"
  /\ pc[t] \in {"load", "await", "ret"}
  /\ pc[t] # "ret" => Waiting(t)
  /\ pc[t] = "await" => ~out[t].term /\ out[t].phase = seen[t]
  /\ ToldNext(t)

Follows(t) ==
  /\ out[t].term => state[Root].term
  /\ pc[t] = "client" <=> op[t] = "none"
  /\ op[t] \in {"none", "query", "term"} => Resting(t)
  /\ op[t] = "register" => Registering(t)
  /\ op[t] \in {"arrive", "dereg"} => Arriving(t)
  /\ op[t] = "aaa" => ArrivingAndWaiting(t)
  /\ op[t] = "await" => AwaitingAdvance(t)

FlatInv == Counted /\ \A t \in Threads : Follows(t)

(***************************************************************************)
(* Counting parties.                                                       *)
(***************************************************************************)
PartySet(f) == {x \in Threads \X (1 .. CountSize) : x[2] <= f[x[1]]}

\* A finite set of threads has finitely many parties.
LEMMA PartySetFinite ==
  ASSUME IsFiniteSet(Threads), NEW f
  PROVE  IsFiniteSet(PartySet(f)) /\ Parties(f) = Cardinality(PartySet(f))
         /\ Parties(f) \in Nat
<1>1. IsFiniteSet(1 .. CountSize)
  BY FS_Interval, WidthAssumption
<1>2. IsFiniteSet(Threads \X (1 .. CountSize))
  BY <1>1, FS_Product
<1>3. PartySet(f) \subseteq Threads \X (1 .. CountSize)
  BY DEF PartySet
<1>4. IsFiniteSet(PartySet(f))
  BY <1>2, <1>3, FS_Subset
<1>5. QED BY <1>4, FS_CardinalityType DEF Parties, PartySet

\* There are none exactly if nobody has any.
LEMMA PartiesNone ==
  ASSUME IsFiniteSet(Threads), NEW f \in [Threads -> 0 .. CountSize]
  PROVE  Parties(f) = 0 <=> \A t \in Threads : f[t] = 0
<1>1. Parties(f) = 0 <=> PartySet(f) = {}
  BY PartySetFinite, FS_EmptySet
<1>2. ASSUME NEW t \in Threads, f[t] # 0 PROVE <<t, 1>> \in PartySet(f)
  BY <1>2, WidthAssumption DEF PartySet
<1>3. ASSUME \A t \in Threads : f[t] = 0 PROVE PartySet(f) = {}
  BY <1>3 DEF PartySet
<1>4. QED BY <1>1, <1>2, <1>3

\* One party less.
LEMMA PartiesLess ==
  ASSUME IsFiniteSet(Threads), NEW f \in [Threads -> 0 .. CountSize],
         NEW t \in Threads, f[t] # 0, NEW g, g = [f EXCEPT ![t] = @ - 1]
  PROVE  Parties(g) = Parties(f) - 1
<1> DEFINE x == <<t, f[t]>>
<1>1. x \in PartySet(f)
  BY WidthAssumption DEF PartySet
<1>2. PartySet(g) = PartySet(f) \ {x}
  <2>1. ASSUME NEW y \in Threads \X (1 .. CountSize)
        PROVE  y \in PartySet(g) <=> y \in PartySet(f) /\ y # x
    <3>1. PICK u \in Threads, k \in 1 .. CountSize : y = <<u, k>>
      OBVIOUS
    <3>2. y \in PartySet(g) <=> k <= g[u]
      BY <3>1 DEF PartySet
    <3>3. y \in PartySet(f) <=> k <= f[u]
      BY <3>1 DEF PartySet
    <3>4. y = x <=> u = t /\ k = f[t]
      BY <3>1
    <3>5. CASE u = t
      BY <3>2, <3>3, <3>4, <3>5, WidthAssumption
    <3>6. CASE u # t
      BY <3>2, <3>3, <3>4, <3>6
    <3>7. QED BY <3>5, <3>6
  <2>2. QED BY <2>1 DEF PartySet
<1>3. Cardinality(PartySet(f) \ {x}) = Cardinality(PartySet(f)) - 1
  BY <1>1, PartySetFinite, FS_RemoveElement
<1>4. QED BY <1>2, <1>3, PartySetFinite

\* n parties more, of a thread that had none.
LEMMA PartiesMore ==
  ASSUME IsFiniteSet(Threads), NEW f \in [Threads -> 0 .. CountSize],
         NEW t \in Threads, f[t] = 0, NEW n \in 0 .. CountSize,
         NEW g, g = [f EXCEPT ![t] = n]
  PROVE  Parties(g) = Parties(f) + n
<1> DEFINE A == {t} \X (1 .. n)
<1>1. IsFiniteSet(1 .. n) /\ Cardinality(1 .. n) = n
  <2>1. n \in Int /\ 1 \in Int /\ (IF 1 > n THEN 0 ELSE n - 1 + 1) = n
    BY WidthAssumption
  <2>2. QED BY <2>1, FS_Interval
<1>2. IsFiniteSet({t}) /\ Cardinality({t}) = 1
  BY FS_Singleton
<1>3. IsFiniteSet(A) /\ Cardinality(A) = n
  <2>1. IsFiniteSet(A) /\ Cardinality(A) = Cardinality({t}) * Cardinality(1 .. n)
    BY <1>1, <1>2, FS_Product
  <2>2. QED BY <1>1, <1>2, <2>1, WidthAssumption
<1>4. PartySet(g) = PartySet(f) \cup A /\ PartySet(f) \cap A = {}
  <2>1. ASSUME NEW y
        PROVE  /\ y \in PartySet(g) <=> y \in PartySet(f) \/ y \in A
               /\ ~(y \in PartySet(f) /\ y \in A)
    <3>1. CASE y \notin Threads \X (1 .. CountSize)
      BY <3>1, WidthAssumption DEF PartySet
    <3>2. ASSUME NEW u \in Threads, NEW k \in 1 .. CountSize, y = <<u, k>>
          PROVE  /\ y \in PartySet(g) <=> y \in PartySet(f) \/ y \in A
                 /\ ~(y \in PartySet(f) /\ y \in A)
      <4>1. y \in PartySet(g) <=> k <= g[u]
        BY <3>2 DEF PartySet
      <4>2. y \in PartySet(f) <=> k <= f[u]
        BY <3>2 DEF PartySet
      <4>3. y \in A <=> u = t /\ k <= n
        BY <3>2
      <4>4. QED BY <4>1, <4>2, <4>3
    <3>3. CASE y \in Threads \X (1 .. CountSize)
      <4>1. PICK u \in Threads, k \in 1 .. CountSize : y = <<u, k>>
        BY <3>3
      <4>2. QED BY <3>2, <4>1
    <3>4. QED BY <3>1, <3>3
  <2>2. QED BY <2>1
<1> HIDE DEF A
<1>5. Cardinality(PartySet(g)) = Cardinality(PartySet(f)) + Cardinality(A)
  <2>1. Cardinality(PartySet(f) \cap A) = 0
    BY <1>4, FS_EmptySet
  <2>2. IsFiniteSet(PartySet(f)) /\ Cardinality(PartySet(f)) \in Nat
        /\ Cardinality(A) \in Nat
    BY <1>3, PartySetFinite, FS_CardinalityType
  <2>3. Cardinality(PartySet(f) \cup A)
        = Cardinality(PartySet(f)) + Cardinality(A) - Cardinality(PartySet(f) \cap A)
    BY <1>3, <2>2, FS_Union
  <2>4. Cardinality(PartySet(g))
        = Cardinality(PartySet(f)) + Cardinality(A) - 0
    BY <1>4, <2>1, <2>3
  <2>5. QED BY <2>2, <2>4
<1>6. QED BY <1>3, <1>5, PartySetFinite

\* PartiesAt of a phaser without children.
LEMMA PartiesAtRoot ==
  ASSUME Phasers = {Root}, IsFiniteSet(Threads), NEW f, NEW b
  PROVE  PartiesAt(Root, f, b) = Parties(f)
<1>1. {c \in Phasers : Parent[c] = Root /\ b[c]} = {}
  BY TreeAssumption
<1>2. {x \in Threads \X (1 .. CountSize) : Home[x[1]] = Root /\ x[2] <= f[x[1]]}
      = PartySet(f)
  BY ClientAssumption DEF PartySet
<1>3. Cardinality({}) = 0
  BY FS_EmptySet
<1>4. PartiesAt(Root, f, b) = Cardinality(PartySet(f)) + 0
  BY <1>1, <1>2, <1>3 DEF PartiesAt
<1>5. QED BY <1>4, PartySetFinite

(***************************************************************************)
(* The steps.                                                              *)
(***************************************************************************)

\* Where a thread can be when there is only the root.
LEMMA InRoot ==
  ASSUME Phasers = {Root}, IInv, NEW t \in Threads
  PROVE  /\ state[Root] \in Word /\ Shaped(state[Root])
         /\ out[t] \in PhaseType /\ op[t] \in Ops /\ pc[t] \in Labels
         /\ todo[t] \in Int /\ held[t] \in Int /\ left[t] \in Int
         /\ seen[t] \in Phase
         /\ caller[t][Root] = NoPhaser
         /\ Registrations(t, Root) = Weight[t] /\ Home[t] = Root
         /\ Deregisters(t, Root) = IF op[t] = "dereg" THEN 1 ELSE 0
         /\ pc[t] # "client" =>
              /\ cur[t] = Root
              /\ pc[t] \notin BelowRoot
              /\ snap[t][Root] \in Word
              /\ Fit(t, op[t], Root, pc[t], snap[t][Root])
<1>1. SharedType /\ LocalType /\ Safe(t) /\ ClientType /\ GhostType
  BY DEF IInv, LocalInv
<1>2. Home[t] = Root /\ Root \in Phasers
  BY ClientAssumption
<1>3. caller[t][Root] = NoPhaser
  BY <1>1, <1>2 DEF LocalType, Safe
<1>4. /\ state[Root] \in Word /\ Shaped(state[Root])
      /\ out[t] \in PhaseType /\ op[t] \in Ops /\ pc[t] \in Labels
      /\ todo[t] \in Int /\ held[t] \in Int /\ left[t] \in Int
      /\ seen[t] \in Phase
  BY <1>1, <1>2 DEF SharedType, WordShape, LocalType, ClientType, GhostType
<1>5. /\ Registrations(t, Root) = Weight[t]
      /\ Deregisters(t, Root) = IF op[t] = "dereg" THEN 1 ELSE 0
  BY <1>2 DEF Registrations, Deregisters
<1>6. ASSUME pc[t] # "client"
      PROVE  /\ cur[t] = Root
             /\ pc[t] \notin BelowRoot
             /\ snap[t][Root] \in Word
             /\ Fit(t, op[t], Root, pc[t], snap[t][Root])
  <2>1. cur[t] = Root /\ Fit(t, op[t], Root, pc[t], snap[t][Root])
    BY <1>1, <1>6 DEF Safe
  <2>2. QED BY <1>1, <1>2, <2>1 DEF Fit, LocalType
<1>7. QED BY <1>2, <1>3, <1>4, <1>5, <1>6

\* What t sees of itself: the locals on which Follows depends.
SameLocals(t) ==
  /\ pc'[t] = pc[t] /\ op'[t] = op[t] /\ out'[t] = out[t]
  /\ role'[t] = role[t] /\ todo'[t] = todo[t] /\ seen'[t] = seen[t]

\* A thread that does nothing while the phase stays.
LEMMA FollowsFrame ==
  ASSUME NEW t \in Threads, Follows(t), SameLocals(t),
         held'[t] = held[t], left'[t] = left[t],
         state'[Root].phase = state[Root].phase,
         state[Root].term => state'[Root].term
  PROVE  Follows(t)'
<1> USE DEF SameLocals
<1>1. /\ Outside(t) => Outside(t)'
      /\ Unarrived(t) => Unarrived(t)'
      /\ Waiting(t) => Waiting(t)'
      /\ Arrived(t) => Arrived(t)'
      /\ Entered(t) => Entered(t)'
  BY DEF Outside, Unarrived, Waiting, Renewed, Arrived, Entered
<1>2. /\ Resting(t) => Resting(t)'
      /\ Registering(t) => Registering(t)'
      /\ Arriving(t) => Arriving(t)'
      /\ ArrivingAndWaiting(t) => ArrivingAndWaiting(t)'
      /\ AwaitingAdvance(t) => AwaitingAdvance(t)'
  BY <1>1 DEF Resting, Registering, Arriving, ArrivingAndWaiting,
              AwaitingAdvance, ToldNext
<1>3. QED BY <1>2 DEF Follows

\* A step of t that stores nothing.
LEMMA QuietStep ==
  ASSUME FlatInv, NEW t \in Threads, UNCHANGED <<state, held, left, touched>>,
         \A u \in Threads : u # t => SameLocals(u), Follows(t)'
  PROVE  FlatInv' /\ UNCHANGED Flat!bvars
<1>1. Counted'
  BY DEF FlatInv, Counted, Parties, unarrived_of
<1>2. ASSUME NEW u \in Threads PROVE Follows(u)'
  BY FollowsFrame DEF FlatInv
<1>3. QED BY <1>1, <1>2 DEF FlatInv, Flat!bvars

\* Nobody who has an arrival to make is refused.
LEMMA UnarrivedCounts ==
  ASSUME Phasers = {Root}, IsFiniteSet(Threads), IInv, FlatInv
  PROVE  /\ held \in [Threads -> 0 .. CountSize]
         /\ left \in [Threads -> 0 .. CountSize]
         /\ unarrived_of(state[Root]) = 0 <=> \A t \in Threads : left[t] = 0
         /\ state[Root].parties = 0 <=> \A t \in Threads : held[t] = 0
<1>1. held \in [Threads -> 0 .. CountSize] /\ left \in [Threads -> 0 .. CountSize]
  BY ClientAssumption, WidthAssumption DEF FlatInv, Counted, IInv, GhostType
<1>2. QED BY <1>1, PartiesNone DEF FlatInv, Counted

\* What an operation does with the word it has just loaded.
LEMMA ExamineFollows ==
  ASSUME Phasers = {Root}, IsFiniteSet(Threads), IInv, FlatInv,
         NEW t \in Threads, pc[t] \in {"load", "cas"},
         Examine(t, Root, state[Root]),
         UNCHANGED <<state, op, client, ghost>>
  PROVE  Follows(t)'
<1> DEFINE w == state[Root]
<1>1. /\ Follows(t) /\ w \in Word /\ w.term \in BOOLEAN
      /\ op[t] \in Ops \ {"none"}
  BY InRoot DEF FlatInv, Follows, Word
<1>2. /\ op'[t] = op[t] /\ role'[t] = role[t] /\ todo'[t] = todo[t]
      /\ seen'[t] = seen[t] /\ held'[t] = held[t] /\ left'[t] = left[t]
      /\ state'[Root] = w
  BY DEF client, ghost
<1>3. /\ Outside(t) => Outside(t)'
      /\ Unarrived(t) => Unarrived(t)'
      /\ Waiting(t) => Waiting(t)'
      /\ Renewed(t) => Renewed(t)'
  BY <1>2 DEF Outside, Unarrived, Waiting, Renewed
<1>4. ASSUME NEW l, NEW o, Goto(t, l, o) PROVE pc'[t] = l /\ out'[t] = o
  BY <1>4 DEF Goto, IInv, LocalInv, LocalType
<1>5. /\ make(w).term = w.term /\ make(w).phase = w.phase
      /\ make(w).cond = "normal"
      /\ make_err(w).term = w.term /\ make_err(w).cond = "erroneous"
      /\ NoOut.term = FALSE
  BY DEF make, make_err, NoOut, NoWord, define_state
<1>6. Unarrived(t) => unarrived_of(w) # 0
  BY UnarrivedCounts DEF Unarrived
<1>7. CASE w.term
  <2>1. Return(t, make(w))
    BY <1>7 DEF Examine
  <2>2. pc'[t] = "ret" /\ out'[t] = make(w)
    BY <1>4, <2>1 DEF Return
  <2>3. QED
    BY <1>1, <1>2, <1>3, <1>5, <1>7, <2>2
    DEF Follows, Resting, Registering, Arriving, ArrivingAndWaiting,
        AwaitingAdvance, ToldNext, Ops
<1>8. CASE ~w.term /\ op[t] = "register"
  <2>1. ExamineRegister(t, Root, w)
    BY <1>8 DEF Examine
  <2>2. \/ pc'[t] = "ret" /\ out'[t] = make_err(w)
        \/ pc'[t] = "await" /\ out'[t] = make(w)
        \/ pc'[t] = "cas" /\ out'[t] = NoOut
    BY <1>4, <2>1 DEF ExamineRegister, WaitOrCas, Return
  <2>3. QED
    BY <1>1, <1>2, <1>3, <1>5, <1>8, <2>2 DEF Follows, Registering
<1>9. CASE ~w.term /\ op[t] \in ArriveOps
  <2>1. \/ unarrived_of(w) = 0
        \/ Goto(t, "cas", NoOut)
    BY <1>9 DEF Examine, ArriveOps
  <2>2. Unarrived(t)
    BY <1>1, <1>9 DEF Follows, Arriving, ArrivingAndWaiting, ArriveOps
  <2>3. pc'[t] = "cas" /\ out'[t] = NoOut
    BY <1>4, <1>6, <2>1, <2>2
  <2>4. QED
    BY <1>1, <1>2, <1>3, <1>5, <1>9, <2>2, <2>3
    DEF Follows, Arriving, ArrivingAndWaiting, ToldNext, ArriveOps
<1>10. CASE ~w.term /\ op[t] = "await"
  <2>1. Waiting(t)
    BY <1>1, <1>10 DEF Follows, AwaitingAdvance
  <2>2. CASE w.phase = seen[t]
    <3>1. pc'[t] = "await" /\ out'[t] = make(w)
      BY <1>4, <1>10, <2>2 DEF Examine, ArriveOps
    <3>2. QED
      BY <1>1, <1>2, <1>3, <1>5, <1>10, <2>1, <2>2, <3>1
      DEF Follows, AwaitingAdvance, ToldNext
  <2>3. CASE w.phase # seen[t]
    <3>1. pc'[t] = "ret" /\ out'[t] = make(w)
      BY <1>4, <1>10, <2>3 DEF Examine, ArriveOps, Return
    <3>2. Renewed(t) /\ w.phase = NextPhase(seen[t])
      BY <2>1, <2>3 DEF Waiting
    <3>3. QED
      BY <1>1, <1>2, <1>3, <1>5, <1>10, <3>1, <3>2
      DEF Follows, AwaitingAdvance, ToldNext, Entered
  <2>4. QED BY <2>2, <2>3
<1>11. CASE ~w.term /\ op[t] \in {"query", "term"}
  <2>1. \/ pc'[t] = "ret" /\ out'[t] = make(w)
        \/ pc'[t] = "cas" /\ out'[t] = NoOut
    BY <1>4, <1>11 DEF Examine, ArriveOps, Return
  <2>2. QED
    BY <1>1, <1>2, <1>3, <1>5, <1>11, <2>1 DEF Follows, Resting
<1>12. QED
  BY <1>1, <1>7, <1>8, <1>9, <1>10, <1>11 DEF Ops, ArriveOps

\* The other threads' locals when t goes on.
LEMMA OthersSame ==
  ASSUME IInv, NEW t \in Threads, NEW l, NEW o, Goto(t, l, o),
         UNCHANGED <<op, client>>
  PROVE  /\ \A u \in Threads : u # t => SameLocals(u)
         /\ pc'[t] = l /\ out'[t] = o
         /\ op'[t] = op[t] /\ role'[t] = role[t] /\ todo'[t] = todo[t]
         /\ seen'[t] = seen[t]
  BY DEF Goto, SameLocals, IInv, LocalInv, LocalType, client

\* Examining the root's word is a step that stores nothing.
LEMMA ExamineQuiet ==
  ASSUME Phasers = {Root}, IsFiniteSet(Threads), IInv, FlatInv,
         NEW t \in Threads, pc[t] \in {"load", "cas"},
         Examine(t, Root, state[Root]),
         UNCHANGED <<state, op, client, ghost>>
  PROVE  FlatInv' /\ UNCHANGED Flat!bvars
<1>1. \E l, o : Goto(t, l, o)
  BY DEF Examine, ExamineRegister, WaitOrCas, Return
<1>2. \A u \in Threads : u # t => SameLocals(u)
  BY <1>1, OthersSame
<1>3. QED BY <1>2, ExamineFollows, QuietStep DEF ghost

\* state.load() at the head of an operation.
LEMMA FlatLoad ==
  ASSUME Phasers = {Root}, IsFiniteSet(Threads), IInv, FlatInv,
         NEW t \in Threads, Load(t)
  PROVE  FlatInv' /\ UNCHANGED Flat!bvars
<1>1. cur[t] = Root /\ pc[t] = "load"
  BY InRoot DEF Load
<1>2. Examine(t, Root, state[Root])
  BY <1>1 DEF Load, Loop
<1>3. QED BY <1>1, <1>2, ExamineQuiet DEF Load, shared

\* await_advance returns.
LEMMA FlatAwait ==
  ASSUME Phasers = {Root}, IInv, FlatInv, NEW t \in Threads, Await(t)
  PROVE  FlatInv' /\ UNCHANGED Flat!bvars
<1> DEFINE w == state[Root]
<1>1. Follows(t) /\ pc[t] = "await" /\ op[t] \in Ops /\ w \in Word
      /\ out[t] \in PhaseType
  BY InRoot DEF FlatInv, Await
<1>2. UNCHANGED <<state, op, client, held, left, touched>>
  BY DEF Await, shared, ghost
<1>3. op[t] \in {"register", "aaa", "await"}
  BY <1>1 DEF Follows, Registering, Arriving, Ops, Resting
<1>4. /\ Outside(t) => Outside(t)'
      /\ Renewed(t) => Renewed(t)'
  BY <1>2 DEF Outside, Renewed
<1>5. CASE op[t] = "register"
  <2>1. Goto(t, "load", NoOut)
    BY <1>5 DEF Await
  <2>2. /\ \A u \in Threads : u # t => SameLocals(u)
        /\ pc'[t] = "load" /\ out'[t] = NoOut
        /\ op'[t] = op[t] /\ role'[t] = role[t]
    BY <1>2, <2>1, OthersSame
  <2>3. Outside(t) /\ role[t] = "out"
    BY <1>1, <1>5 DEF Follows, Registering
  <2>4. Follows(t)'
    BY <1>4, <1>5, <2>2, <2>3
    DEF Follows, Registering, NoOut, make, NoWord, define_state
  <2>5. QED BY <1>2, <2>2, <2>4, QuietStep
<1>6. CASE op[t] \in {"aaa", "await"}
  <2>1. Goto(t, "ret", make(w))
    BY <1>6 DEF Await, Return
  <2>2. /\ \A u \in Threads : u # t => SameLocals(u)
        /\ pc'[t] = "ret" /\ out'[t] = make(w)
        /\ op'[t] = op[t] /\ role'[t] = role[t] /\ seen'[t] = seen[t]
    BY <1>2, <2>1, OthersSame
  <2>3. Waiting(t) /\ ~out[t].term /\ out[t].phase = seen[t]
    BY <1>1, <1>6 DEF Follows, ArrivingAndWaiting, AwaitingAdvance
  <2>4. w.term \/ (Renewed(t) /\ w.phase = NextPhase(seen[t]))
    <3>1. w.term # out[t].term \/ w.phase # seen[t]
      BY <2>3 DEF Await, SamePhase
    <3>2. w.term \in BOOLEAN /\ out[t].term \in BOOLEAN
      BY <1>1 DEF Word, PhaseType
    <3>3. QED BY <2>3, <3>1, <3>2 DEF Waiting
  <2>5. ToldNext(t)'
    BY <1>2, <1>4, <2>2, <2>4 DEF ToldNext, Entered, make
  <2>6. Follows(t)'
    BY <1>1, <1>2, <1>6, <2>2, <2>5
    DEF Follows, ArrivingAndWaiting, AwaitingAdvance, make
  <2>7. QED BY <1>2, <2>2, <2>6, QuietStep
<1>7. QED BY <1>3, <1>5, <1>6

\* A client begins an operation.
LEMMA FlatBegin ==
  ASSUME Phasers = {Root}, IInv, FlatInv, NEW t \in Threads,
         Participate(t) \/ Visit(t)
  PROVE  FlatInv' /\ UNCHANGED Flat!bvars
<1>1. Follows(t) /\ LocalType
  BY DEF FlatInv, IInv, LocalInv
<1>2. PICK o \in Ops \ {"none"} :
        /\ \E p : Begin(t, o, p)
        /\ o = "register" => role[t] = "out"
        /\ o \in ArriveOps => role[t] = "in" /\ (o = "aaa" => todo[t] = 1)
        /\ o = "await" => role[t] = "arrived"
  BY DEF Participate, Visit, BeginPaid, arrive, arrive_and_await_advance,
         arrive_and_deregister, await_advance, register_some,
         get_unarrived_parties, force_termination, Ops, ArriveOps
<1>3. /\ pc[t] = "client"
      /\ pc' = [pc EXCEPT ![t] = "load"] /\ op' = [op EXCEPT ![t] = o]
      /\ UNCHANGED <<state, out, role, todo, seen, held, left, touched>>
  BY <1>2 DEF Begin, shared, ghost
<1>4. pc'[t] = "load" /\ op'[t] = o
  BY <1>1, <1>3 DEF LocalType
<1>5. \A u \in Threads : u # t => SameLocals(u)
  BY <1>1, <1>3 DEF SameLocals, LocalType
<1>6. op[t] = "none" /\ Resting(t)
  BY <1>1, <1>3 DEF Follows
<1>7. Follows(t)'
  BY <1>1, <1>2, <1>3, <1>4, <1>6
  DEF Follows, Resting, Registering, Arriving, ArrivingAndWaiting,
      AwaitingAdvance, ToldNext, Outside, Unarrived, Waiting, Renewed,
      Ops, ArriveOps
<1>8. QED BY <1>3, <1>5, <1>7, QuietStep

\* An operation returns to its client.
LEMMA FlatComplete ==
  ASSUME Phasers = {Root}, IInv, FlatInv, NEW t \in Threads, Complete(t)
  PROVE  FlatInv' /\ UNCHANGED Flat!bvars
<1> DEFINE o == out[t]
<1>1. /\ Follows(t) /\ LocalType /\ ClientType /\ pc[t] = "ret"
      /\ op[t] \in Ops /\ o \in PhaseType
      /\ todo[t] \in Int /\ held[t] \in Int /\ left[t] \in Int
  BY InRoot DEF FlatInv, IInv, LocalInv, Complete
<1>2. /\ pc' = [pc EXCEPT ![t] = "client"] /\ op' = [op EXCEPT ![t] = "none"]
      /\ out' = [out EXCEPT ![t] = NoOut]
      /\ UNCHANGED <<state, held, left, touched>>
  BY DEF Complete, shared, ghost
<1>3. pc'[t] = "client" /\ op'[t] = "none" /\ out'[t] = NoOut
  BY <1>1, <1>2 DEF LocalType
<1>4. op[t] # "none"
  BY <1>1 DEF Follows
<1>5. \A u \in Threads : u # t => SameLocals(u)
  <2>1. \A u \in Threads : u # t =>
          role'[u] = role[u] /\ todo'[u] = todo[u] /\ seen'[u] = seen[u]
    BY <1>1 DEF Complete, Outcome, ClientType
  <2>2. QED BY <1>1, <1>2, <2>1 DEF SameLocals, LocalType
<1>6. ~NoOut.term
  BY DEF NoOut, make, NoWord, define_state
<1>7. ASSUME /\ role'[t] = "out" => Outside(t)'
             /\ role'[t] = "in" => Unarrived(t)'
             /\ role'[t] = "arrived" => Waiting(t)'
      PROVE  Follows(t)'
  BY <1>3, <1>6, <1>7 DEF Follows, Resting
<1>8. CASE op[t] \in {"query", "term"} \/ o.cond = "erroneous"
  <2>1. UNCHANGED <<role, todo, seen>>
    BY <1>1, <1>8
    DEF Complete, Outcome, Follows, Arriving, ArrivingAndWaiting,
        AwaitingAdvance, ToldNext
  <2>2. op[t] \in {"query", "term", "register"}
    BY <1>1, <1>4, <1>8
    DEF Follows, Arriving, ArrivingAndWaiting, AwaitingAdvance, ToldNext, Ops
  <2>3. ASSUME op[t] = "register" PROVE Follows(t)'
    <3>1. role[t] = "out" /\ Outside(t)
      BY <1>1, <1>8, <2>3 DEF Follows, Registering
    <3>2. QED BY <1>2, <1>7, <2>1, <3>1 DEF Outside
  <2>4. ASSUME op[t] \in {"query", "term"} PROVE Follows(t)'
    <3>1. Resting(t)
      BY <1>1, <2>4 DEF Follows
    <3>2. QED
      BY <1>2, <1>7, <2>1, <3>1
      DEF Resting, Outside, Unarrived, Waiting, Renewed
  <2>5. Follows(t)'
    BY <2>2, <2>3, <2>4
  <2>6. QED BY <1>2, <1>5, <2>5, QuietStep
<1>9. CASE op[t] \in {"register", "await", "aaa"} /\ o.cond = "normal"
  <2>1. /\ role'[t] = IF o.term THEN "out" ELSE "in"
        /\ todo'[t] = IF o.term THEN 0 ELSE held[t]
        /\ seen'[t] = o.phase
    BY <1>1, <1>9 DEF Complete, Outcome, ClientType
  <2>2. CASE o.term
    <3>1. state[Root].term
      BY <1>1, <2>2 DEF Follows
    <3>2. QED BY <1>2, <1>5, <1>7, <2>1, <2>2, <3>1, QuietStep DEF Outside
  <2>3. CASE ~o.term
    <3>1. Entered(t)
      BY <1>1, <1>9, <2>3
      DEF Follows, Registering, ArrivingAndWaiting, AwaitingAdvance, ToldNext
    <3>2. role'[t] = "in" /\ Unarrived(t)'
      BY <1>1, <1>2, <2>1, <2>3, <3>1 DEF Entered, Renewed, Unarrived
    <3>3. QED BY <1>2, <1>5, <1>7, <3>2, QuietStep
  <2>4. QED BY <2>2, <2>3
<1>10. CASE op[t] \in {"arrive", "dereg"} /\ o.cond = "normal"
  <2>1. /\ role'[t] = IF o.term THEN "out" ELSE IF held[t] = 0 THEN "out"
                      ELSE IF todo[t] > 1 THEN "in" ELSE "arrived"
        /\ todo'[t] = IF o.term THEN 0 ELSE todo[t] - 1
        /\ seen'[t] = o.phase
    BY <1>1, <1>10 DEF Complete, Outcome, ClientType
  <2>2. CASE o.term
    <3>1. state[Root].term
      BY <1>1, <2>2 DEF Follows
    <3>2. QED BY <1>2, <1>5, <1>7, <2>1, <2>2, <3>1, QuietStep DEF Outside
  <2>3. CASE ~o.term
    <3>1. Arrived(t) /\ o.phase = seen[t]
      BY <1>1, <1>10, <2>3 DEF Follows, Arriving
    <3>2. CASE held[t] = 0
      BY <1>2, <1>5, <1>7, <2>1, <2>3, <3>2, QuietStep DEF Outside
    <3>3. CASE held[t] # 0 /\ todo[t] > 1
      <4>1. role'[t] = "in" /\ Unarrived(t)'
        BY <1>1, <1>2, <2>1, <2>3, <3>1, <3>3 DEF Arrived, Unarrived
      <4>2. QED BY <1>2, <1>5, <1>7, <4>1, QuietStep
    <3>4. CASE held[t] # 0 /\ ~(todo[t] > 1)
      <4>1. role'[t] = "arrived" /\ Waiting(t)'
        BY <1>1, <1>2, <2>1, <2>3, <3>1, <3>4 DEF Arrived, Waiting, Renewed
      <4>2. QED BY <1>2, <1>5, <1>7, <4>1, QuietStep
    <3>5. QED BY <3>2, <3>3, <3>4
  <2>4. QED BY <2>2, <2>3
<1>11. QED
  BY <1>1, <1>4, <1>8, <1>9, <1>10 DEF Ops, PhaseType, Cond

\* Another thread's step on the root while the phase stays.
LEMMA FollowOthers ==
  ASSUME FlatInv, NEW t \in Threads,
         \A u \in Threads : u # t =>
           SameLocals(u) /\ held'[u] = held[u] /\ left'[u] = left[u],
         state'[Root].phase = state[Root].phase,
         state[Root].term => state'[Root].term,
         Follows(t)'
  PROVE  \A u \in Threads : Follows(u)'
  BY FollowsFrame DEF FlatInv

\* An arrival is the barrier's arrival.
LEMMA FlatArrive ==
  ASSUME Phasers = {Root}, IsFiniteSet(Threads), IInv, FlatInv,
         NEW t \in Threads, pc[t] = "cas", state[Root] = snap[t][Root],
         ArriveCas(t, Root, snap[t][Root]), UNCHANGED <<op, client>>
  PROVE  FlatInv' /\ \E d \in {0, 1} : Flat!Arrive(t, d)
<1> DEFINE s == snap[t][Root]
           d == Deregisters(t, Root)
           w == Adjusted(s, d)
<1>1. /\ s \in Word /\ Shaped(s) /\ op[t] \in ArriveOps /\ ~s.term
      /\ Follows(t) /\ Counted /\ LocalType /\ GhostType /\ Home[t] = Root
      /\ d = (IF op[t] = "dereg" THEN 1 ELSE 0) /\ d \in {0, 1}
      /\ todo[t] \in Int /\ state \in [Phasers -> Word]
  BY InRoot
  DEF Fit, CanCas, ArriveCas, FlatInv, IInv, LocalInv, SharedType
<1>2. Unarrived(t) /\ role[t] = "in" /\ (op[t] = "aaa" => todo[t] = 1)
  BY <1>1 DEF Follows, Arriving, ArrivingAndWaiting, ArriveOps
<1>3. /\ unarrived_of(s) # 0
      /\ held \in [Threads -> 0 .. CountSize]
      /\ left \in [Threads -> 0 .. CountSize]
  BY <1>2, UnarrivedCounts DEF Unarrived
<1>4. /\ w \in Word /\ Shaped(w) /\ w.phase = s.phase /\ w.term = s.term
      /\ w.pending = s.pending - 1 /\ w.parties = s.parties - d
  BY <1>1, <1>3, AdjustedWord DEF Adjusted
<1>5. /\ state' = [state EXCEPT ![Root] = w]
      /\ left' = [left EXCEPT ![t] = @ - 1]
      /\ held' = [held EXCEPT ![t] = @ - d]
      /\ touched' = TRUE
  BY <1>1 DEF ArriveCas
<1>6. state'[Root] = w
  BY <1>1, <1>5
<1>7. \/ Goto(t, "await", make(s)) /\ op[t] = "aaa"
      \/ Goto(t, "ret", make(w)) /\ op[t] # "aaa"
      \/ Goto(t, "adv", make(w))
  BY DEF ArriveCas, Return
<1>8. /\ \A u \in Threads : u # t => SameLocals(u)
      /\ \/ pc'[t] = "await" /\ out'[t] = make(s) /\ op[t] = "aaa"
         \/ pc'[t] = "ret" /\ out'[t] = make(w) /\ op[t] # "aaa"
         \/ pc'[t] = "adv" /\ out'[t] = make(w)
      /\ op'[t] = op[t] /\ role'[t] = role[t] /\ todo'[t] = todo[t]
      /\ seen'[t] = seen[t]
  BY <1>7, OthersSame
<1>9. /\ left'[t] = left[t] - 1 /\ held'[t] = held[t] - d
      /\ \A u \in Threads : u # t => left'[u] = left[u] /\ held'[u] = held[u]
  BY <1>3, <1>5
<1>10. /\ held[t] \in 0 .. Weight[t] /\ left[t] \in 0 .. held[t]
       /\ left[t] > 0 /\ Weight[t] \in Nat
  BY <1>1, <1>2, ClientAssumption, WidthAssumption DEF Counted, Unarrived
<1>11. Follows(t)'
  <2>1. /\ make(s).term = s.term /\ make(s).phase = s.phase
        /\ make(w).term = s.term /\ make(w).phase = s.phase
        /\ make(w).cond = "normal"
    BY <1>4 DEF make
  <2>2. seen[t] = s.phase /\ todo[t] = left[t]
    BY <1>2 DEF Unarrived
  <2>3. op[t] = "aaa" => Waiting(t)'
    <3>1. op[t] = "aaa" => left'[t] = 0 /\ held'[t] > 0
      BY <1>1, <1>2, <1>9, <1>10, <2>2
    <3>2. QED BY <1>4, <1>6, <1>8, <2>2, <3>1 DEF Waiting
  <2>4. Arrived(t)'
    BY <1>4, <1>6, <1>8, <1>9, <1>10, <2>2, <1>1 DEF Arrived, Waiting
  <2>5. CASE op[t] = "aaa"
    BY <1>1, <1>2, <1>4, <1>6, <1>8, <2>1, <2>2, <2>3, <2>5
    DEF Follows, ArrivingAndWaiting, ToldNext
  <2>6. CASE op[t] # "aaa"
    BY <1>1, <1>2, <1>4, <1>6, <1>8, <2>1, <2>2, <2>4, <2>6
    DEF Follows, Arriving, ArriveOps
  <2>7. QED BY <2>5, <2>6
<1>12. \A u \in Threads : Follows(u)'
  <2>1. state'[Root].phase = state[Root].phase
        /\ state'[Root].term = state[Root].term
    BY <1>4, <1>6
  <2>2. QED BY <1>8, <1>9, <1>11, <2>1, FollowOthers
<1>13. Counted'
  <2>1. \A u \in Threads : /\ held'[u] \in 0 .. Weight[u]
                           /\ left'[u] \in 0 .. held'[u]
    <3>1. held'[t] \in 0 .. Weight[t] /\ left'[t] \in 0 .. held'[t]
      BY <1>1, <1>9, <1>10
    <3>2. QED BY <1>1, <1>9, <3>1 DEF Counted
  <2>2. Parties(left') = Parties(left) - 1
    <3>1. left[t] # 0 /\ left' = [left EXCEPT ![t] = @ - 1]
      BY <1>1, <1>5, <1>10
    <3>2. QED BY <1>3, <3>1, PartiesLess
  <2>3. Parties(held') = Parties(held) - d
    <3>1. CASE d = 1
      <4>1. held[t] # 0 /\ held' = [held EXCEPT ![t] = @ - 1]
        <5>1. held[t] # 0
          BY <1>10
        <5>2. held[t] - d = held[t] - 1
          BY <3>1
        <5>3. QED BY <1>5, <5>1, <5>2
      <4>2. QED BY <1>3, <3>1, <4>1, PartiesLess
    <3>2. CASE d = 0
      <4>1. held' = held
        BY <1>3, <1>5, <3>2
      <4>2. Parties(held) \in Nat
        BY PartySetFinite
      <4>3. QED BY <3>2, <4>1, <4>2
    <3>3. QED BY <1>1, <3>1, <3>2
  <2>4. s.parties # 0 /\ s.pending = Parties(left) /\ s.parties = Parties(held)
    BY <1>1, <1>3 DEF Counted, unarrived_of
  <2>5. unarrived_of(w) = Parties(left')
    <3>1. s.pending <= s.parties /\ s.pending \in Nat /\ s.parties \in Nat
      BY <1>1, <2>4, WidthAssumption DEF Shaped, Word, Count
    <3>2. s.pending # 0
      BY <1>3, <2>4 DEF unarrived_of
    <3>3. CASE w.parties = 0
      BY <1>1, <1>4, <2>2, <2>4, <3>1, <3>2, <3>3 DEF unarrived_of
    <3>4. CASE w.parties # 0
      BY <1>4, <2>2, <2>4, <3>4 DEF unarrived_of
    <3>5. QED BY <3>3, <3>4
  <2>6. w.parties = Parties(held')
    BY <1>4, <2>3, <2>4
  <2>7. Counted' <=>
          /\ \A u \in Threads : /\ held'[u] \in 0 .. Weight[u]
                                /\ left'[u] \in 0 .. held'[u]
          /\ w.parties = Parties(held')
          /\ unarrived_of(w) = Parties(left')
          /\ ~w.term /\ w.pending = 0 => touched'
    BY <1>6 DEF Counted, Parties, unarrived_of
  <2>8. QED BY <1>5, <2>1, <2>5, <2>6, <2>7
<1>14. Flat!Arrive(t, d)
  BY <1>1, <1>4, <1>5, <1>6, <1>10 DEF Flat!Arrive
<1>15. QED BY <1>1, <1>12, <1>13, <1>14 DEF FlatInv

\* A registration is the barrier's registration.
LEMMA FlatRegister ==
  ASSUME Phasers = {Root}, IsFiniteSet(Threads), IInv, FlatInv,
         NEW t \in Threads, pc[t] = "cas", state[Root] = snap[t][Root],
         RegisterCas(t, Root, snap[t][Root]), UNCHANGED <<op, client>>
  PROVE  FlatInv' /\ Flat!Register(t)
<1> DEFINE s == snap[t][Root]
           n == Weight[t]
           w == Enrolled(s, n)
<1>1. /\ s \in Word /\ Shaped(s) /\ op[t] = "register" /\ ~s.term
      /\ ~Overflows(s, n) /\ s.pending # 0
      /\ Follows(t) /\ Counted /\ LocalType /\ GhostType /\ Home[t] = Root
      /\ Registrations(t, Root) = n
      /\ state \in [Phasers -> Word] /\ n \in 1 .. CountSize - 1
  BY InRoot, ClientAssumption
  DEF Fit, CanCas, RegisterCas, FlatInv, IInv, LocalInv, SharedType
<1>2. role[t] = "out" /\ held[t] = 0 /\ left[t] = 0
  <2>1. Outside(t) /\ role[t] = "out"
    BY <1>1 DEF Follows, Registering
  <2>2. held[t] = 0
    BY <1>1, <2>1 DEF Outside
  <2>3. QED BY <1>1, <2>1, <2>2 DEF Counted
<1>3. /\ held \in [Threads -> 0 .. CountSize]
      /\ left \in [Threads -> 0 .. CountSize]
  BY UnarrivedCounts
<1>4. /\ w \in Word /\ Shaped(w) /\ w.phase = s.phase
      /\ w.parties = s.parties + n
  BY <1>1, EnrolledWord
<1>5. /\ state' = [state EXCEPT ![Root] = w]
      /\ Goto(t, "ret", make(s))
      /\ held' = [held EXCEPT ![t] = n] /\ left' = [left EXCEPT ![t] = n]
      /\ touched' = touched
  BY <1>1 DEF RegisterCas, Return
<1>6. state'[Root] = w
  BY <1>1, <1>5
<1>7. w.term = s.term
  BY DEF Enrolled, to_state
<1>8. /\ \A u \in Threads : u # t => SameLocals(u)
      /\ pc'[t] = "ret" /\ out'[t] = make(s)
      /\ op'[t] = op[t] /\ role'[t] = role[t]
  BY <1>5, OthersSame
<1>9. /\ left'[t] = n /\ held'[t] = n /\ n > 0
      /\ \A u \in Threads : u # t => left'[u] = left[u] /\ held'[u] = held[u]
  BY <1>1, <1>3, <1>5
<1>10. Follows(t)'
  <2>1. /\ make(s).term = s.term /\ make(s).phase = s.phase
        /\ make(s).cond = "normal"
    BY DEF make
  <2>2. Entered(t)'
    BY <1>4, <1>6, <1>8, <1>9, <2>1 DEF Entered, Renewed
  <2>3. QED
    BY <1>1, <1>2, <1>8, <2>1, <2>2 DEF Follows, Registering
<1>11. \A u \in Threads : Follows(u)'
  BY <1>4, <1>6, <1>7, <1>8, <1>9, <1>10, FollowOthers
<1>12. Counted'
  <2>1. \A u \in Threads : /\ held'[u] \in 0 .. Weight[u]
                           /\ left'[u] \in 0 .. held'[u]
    <3>1. held'[t] \in 0 .. Weight[t] /\ left'[t] \in 0 .. held'[t]
      BY <1>1, <1>9, WidthAssumption
    <3>2. QED BY <1>1, <1>9, <3>1 DEF Counted
  <2>2. n \in 0 .. CountSize
    BY <1>1, WidthAssumption
  <2>3. Parties(left') = Parties(left) + n
    <3>1. left[t] = 0 /\ left' = [left EXCEPT ![t] = n]
      BY <1>2, <1>5
    <3>2. \A g : g = [left EXCEPT ![t] = n] => Parties(g) = Parties(left) + n
      BY <1>3, <2>2, <3>1, PartiesMore
    <3>3. QED BY <3>1, <3>2, Zenon
  <2>4. Parties(held') = Parties(held) + n
    <3>1. held[t] = 0 /\ held' = [held EXCEPT ![t] = n]
      BY <1>2, <1>5
    <3>2. \A g : g = [held EXCEPT ![t] = n] => Parties(g) = Parties(held) + n
      BY <1>3, <2>2, <3>1, PartiesMore
    <3>3. QED BY <3>1, <3>2, Zenon
  <2>5. w.parties = Parties(held')
    BY <1>1, <1>4, <2>4 DEF Counted
  <2>6. /\ s.parties \in Count /\ s.pending \in Count /\ w.parties \in Count
        /\ n \in Count
    BY <1>1, <1>4, WidthAssumption DEF Word, Count
  <2>7. w.pending = unarrived_of(s) + n
    <3>1. CASE s.parties = 0
      <4>1. w.pending = n % CountSize
        BY <3>1 DEF Enrolled, to_state
      <4>2. n % CountSize = n
        BY <2>6, ModSmall, WidthAssumption DEF Count
      <4>3. unarrived_of(s) + n = n
        BY <3>1, <2>6, WidthAssumption DEF unarrived_of, Count
      <4>4. QED BY <4>1, <4>2, <4>3
    <3>2. CASE s.parties # 0
      <4>1. w.pending = (s.pending + n) % CountSize
        BY <3>2 DEF Enrolled, to_state
      <4>2. s.pending + n \in Count
        <5>1. s.pending <= s.parties
          BY <1>1, <3>2 DEF Shaped
        <5>2. s.parties + n \in Count
          BY <1>4, <2>6
        <5>3. QED BY <2>6, <5>1, <5>2, WidthAssumption DEF Count
      <4>3. (s.pending + n) % CountSize = s.pending + n
        BY <4>2, ModSmall, WidthAssumption DEF Count
      <4>4. QED BY <3>2, <4>1, <4>3 DEF unarrived_of
    <3>3. QED BY <3>1, <3>2
  <2>8. unarrived_of(w) = Parties(left')
    <3>1. w.parties # 0
      BY <1>1, <1>4, <2>6, WidthAssumption DEF Count
    <3>2. QED BY <1>1, <2>3, <2>7, <3>1 DEF Counted, unarrived_of
  <2>9. w.pending # 0
    BY <1>1, EnrolledPending
  <2>10. Counted' <=>
          /\ \A u \in Threads : /\ held'[u] \in 0 .. Weight[u]
                                /\ left'[u] \in 0 .. held'[u]
          /\ w.parties = Parties(held')
          /\ unarrived_of(w) = Parties(left')
          /\ ~w.term /\ w.pending = 0 => touched'
    BY <1>6 DEF Counted, Parties, unarrived_of
  <2>11. QED BY <2>1, <2>5, <2>8, <2>9, <2>10
<1>13. Flat!Register(t)
  BY <1>2, <1>4, <1>5, <1>6, <1>7 DEF Flat!Register
<1>14. QED BY <1>11, <1>12, <1>13 DEF FlatInv

\* force_termination is the barrier's.
LEMMA FlatTerminate ==
  ASSUME Phasers = {Root}, IInv, FlatInv,
         NEW t \in Threads, pc[t] = "cas", state[Root] = snap[t][Root],
         TerminateCas(t, Root, snap[t][Root]), UNCHANGED <<op, client>>
  PROVE  FlatInv' /\ Flat!Terminate
<1> DEFINE s == state[Root]
           w == Terminated(s)
<1>1. /\ op[t] = "term" /\ Follows(t) /\ Counted
      /\ state \in [Phasers -> Word]
  BY DEF TerminateCas, FlatInv, IInv, SharedType
<1>2. /\ state'[Root] = w /\ Goto(t, "ret", make(s))
      /\ UNCHANGED <<held, left, touched>>
  BY <1>1 DEF TerminateCas, Return, ghost
<1>3. /\ w.term /\ w.phase = s.phase /\ w.parties = s.parties
      /\ w.pending = s.pending
  BY DEF Terminated
<1>4. /\ \A u \in Threads : u # t => SameLocals(u)
      /\ pc'[t] = "ret" /\ op'[t] = op[t] /\ role'[t] = role[t]
      /\ todo'[t] = todo[t] /\ seen'[t] = seen[t]
  BY <1>2, OthersSame
<1>5. Follows(t)'
  <2>1. Resting(t)
    BY <1>1 DEF Follows
  <2>2. Resting(t)'
    BY <1>2, <1>3, <1>4, <2>1
    DEF Resting, Outside, Unarrived, Waiting, Renewed
  <2>3. QED BY <1>1, <1>2, <1>3, <1>4, <2>2 DEF Follows
<1>6. \A u \in Threads : Follows(u)'
  BY <1>2, <1>3, <1>4, <1>5, FollowOthers
<1>7. Counted'
  <2>1. unarrived_of(w) = unarrived_of(s)
    BY <1>3 DEF unarrived_of
  <2>2. Counted' <=>
          /\ \A u \in Threads : held[u] \in 0 .. Weight[u]
                                /\ left[u] \in 0 .. held[u]
          /\ w.parties = Parties(held)
          /\ unarrived_of(w) = Parties(left)
          /\ ~w.term /\ w.pending = 0 => touched
    BY <1>2 DEF Counted, Parties, unarrived_of
  <2>3. QED BY <1>1, <1>3, <2>1, <2>2 DEF Counted
<1>8. Flat!Terminate
  BY <1>2, <1>3 DEF Flat!Terminate
<1>9. QED BY <1>6, <1>7, <1>8 DEF FlatInv

\* What a thread may rely on when a phase has ended: everybody has arrived.
LEMMA FollowsAdvance ==
  ASSUME NEW t \in Threads, Follows(t), SameLocals(t),
         held[t] \in Nat, left[t] = 0, ~state[Root].term,
         held'[t] = held[t], left'[t] = held[t],
         state'[Root].phase = NextPhase(state[Root].phase)
  PROVE  Follows(t)'
<1> USE DEF SameLocals
<1>1. /\ Outside(t) => Outside(t)'
      /\ ~Unarrived(t) /\ ~Entered(t)
      /\ Waiting(t) => Waiting(t)'
      /\ Arrived(t) => Arrived(t)'
  BY DEF Outside, Unarrived, Waiting, Renewed, Arrived, Entered
<1>2. ~out[t].term
  BY DEF Follows
<1>3. /\ Resting(t) => Resting(t)'
      /\ Registering(t) => Registering(t)'
      /\ Arriving(t) => Arriving(t)'
      /\ ArrivingAndWaiting(t) => ArrivingAndWaiting(t)'
      /\ AwaitingAdvance(t) => AwaitingAdvance(t)'
  BY <1>1, <1>2 DEF Resting, Registering, Arriving, ArrivingAndWaiting,
                    AwaitingAdvance, ToldNext
<1>4. QED BY <1>2, <1>3 DEF Follows

\* The last arriver's compare-and-swap is the barrier's advance, or has been
\* overtaken by a termination.
LEMMA FlatAdvance ==
  ASSUME Phasers = {Root}, IsFiniteSet(Threads), IInv, AdvanceOwned, FlatInv,
         NEW t \in Threads, AdvanceCas(t)
  PROVE  FlatInv' /\ (Flat!Advance \/ UNCHANGED Flat!bvars)
<1> DEFINE s == snap[t][Root]
           w == Advanced(s)
<1>1. /\ pc[t] = "adv" /\ Follows(t) /\ Counted /\ s \in Word /\ ~s.term
      /\ s.pending = 0 /\ op[t] \in Ops /\ state[Root] \in Word
      /\ out[t] \in PhaseType
      /\ state \in [Phasers -> Word] /\ LocalType /\ GhostType
  BY InRoot DEF AdvanceCas, Fit, FlatInv, IInv, LocalInv, SharedType
<1>2. op[t] \in ArriveOps /\ role[t] = "in"
  BY <1>1 DEF Follows, Resting, Registering, Arriving, ArrivingAndWaiting,
              AwaitingAdvance, Ops, ArriveOps
<1>3. Goto(t, "ret", IF op[t] = "aaa" THEN make(state'[Root]) ELSE out[t])
      /\ UNCHANGED <<op, client, held>>
  BY DEF AdvanceCas, Return
<1>4. /\ \A u \in Threads : u # t => SameLocals(u)
      /\ pc'[t] = "ret" /\ op'[t] = op[t] /\ role'[t] = role[t]
      /\ out'[t] = IF op[t] = "aaa" THEN make(state'[Root]) ELSE out[t]
      /\ todo'[t] = todo[t] /\ seen'[t] = seen[t]
  BY <1>3, OthersSame
<1>5. CASE state[Root] # s
  <2>1. UNCHANGED <<state, left, touched, held>>
    BY <1>5 DEF AdvanceCas
  <2>2. state[Root].term
    BY <1>1, <1>5 DEF AdvanceOwned
  <2>3. Follows(t)'
    BY <1>1, <1>2, <1>4, <2>1, <2>2
    DEF Follows, Arriving, ArrivingAndWaiting, ToldNext, make, Arrived,
        Waiting, Renewed, ArriveOps
  <2>4. QED BY <1>4, <2>1, <2>3, QuietStep
<1>6. CASE state[Root] = s
  <2>1. /\ state'[Root] = w /\ left' = held /\ touched' = FALSE /\ held' = held
    BY <1>1, <1>6 DEF AdvanceCas
  <2>2. /\ \A u \in Threads : left[u] = 0
        /\ held \in [Threads -> 0 .. CountSize]
        /\ touched
        /\ s.parties = 0 <=> \A u \in Threads : held[u] = 0
    <3>1. unarrived_of(s) = 0
      BY <1>1 DEF unarrived_of
    <3>2. QED BY <1>1, <1>6, <3>1, UnarrivedCounts DEF Counted
  <2>3. w \in Word /\ w.phase = NextPhase(s.phase)
    BY <1>1, AdvancedWord
  <2>4. w.term = on_advance(s.parties)
    BY DEF Advanced, to_state
  <2>5. ASSUME NEW u \in Threads, u # t PROVE Follows(u)'
    <3>1. /\ Follows(u) /\ SameLocals(u) /\ held[u] \in Nat
          /\ held'[u] = held[u] /\ left'[u] = held[u]
      BY <1>4, <2>1, <2>2, <2>5 DEF FlatInv
    <3>2. QED BY <1>1, <1>6, <2>1, <2>2, <2>3, <3>1, FollowsAdvance
  <2>6. Follows(t)'
    <3>1. held'[t] = held[t] /\ left'[t] = held[t] /\ left[t] = 0
          /\ held[t] \in Nat
      BY <2>1, <2>2
    <3>2. CASE op[t] = "aaa"
      <4>1. held[t] > 0 /\ seen[t] = s.phase
        BY <1>1, <1>6, <3>1, <3>2
        DEF Follows, ArrivingAndWaiting, Waiting, Renewed
      <4>2. out'[t] = make(w)
        BY <1>4, <2>1, <3>2
      <4>3. make(w).phase = w.phase /\ make(w).term = w.term
            /\ make(w).cond = "normal"
        BY DEF make
      <4>4. Entered(t)' /\ w.phase = NextPhase(seen[t])
        BY <2>1, <2>3, <3>1, <4>1, <4>2, <4>3 DEF Entered, Renewed
      <4>5. QED
        BY <1>1, <1>2, <1>4, <2>1, <3>2, <4>2, <4>3, <4>4
        DEF Follows, ArrivingAndWaiting, ToldNext
    <3>3. CASE op[t] # "aaa"
      <4>1. Arriving(t) /\ op[t] \in {"arrive", "dereg"} /\ ~out[t].term
        BY <1>1, <1>2, <1>6, <3>3 DEF Follows, ArriveOps
      <4>2. Arrived(t) /\ out[t].cond = "normal" /\ out[t].phase = seen[t]
        BY <1>1, <4>1 DEF Arriving
      <4>3. Arrived(t)'
        BY <1>4, <1>6, <2>1, <2>3, <3>1, <4>2 DEF Arrived, Waiting, Renewed
      <4>4. QED
        BY <1>1, <1>2, <1>4, <3>3, <4>1, <4>2, <4>3 DEF Follows, Arriving
    <3>4. QED BY <3>2, <3>3
  <2>7. Counted'
    <3>1. \A u \in Threads : held[u] \in 0 .. Weight[u]
                             /\ held[u] \in 0 .. held[u]
      BY <1>1, ClientAssumption, WidthAssumption DEF Counted
    <3>2. /\ s.parties \in Count /\ 0 \in Count /\ 1 \in Count
      BY <1>1, WidthAssumption DEF Word, Count
    <3>3. w.parties = s.parties /\ unarrived_of(w) = s.parties
      <4>1. /\ 0 % CountSize = 0 /\ 1 % CountSize = 1
            /\ s.parties % CountSize = s.parties
        BY <3>2, ModSmall, WidthAssumption DEF Count
      <4>2. on_advance(s.parties) => s.parties = 0
        BY DEF on_advance
      <4>3. CASE s.parties = 0
        <5>1. w.parties = 0 % CountSize \/ w.parties = s.parties % CountSize
          BY <4>3 DEF Advanced, to_state
        <5>2. w.parties = 0
          BY <4>1, <4>3, <5>1
        <5>3. QED BY <4>3, <5>2 DEF unarrived_of
      <4>4. CASE s.parties # 0
        <5>1. w.parties = s.parties % CountSize
              /\ w.pending = s.parties % CountSize
          BY <4>2, <4>4 DEF Advanced, to_state
        <5>2. QED BY <4>1, <4>4, <5>1 DEF unarrived_of
      <4>5. QED BY <4>3, <4>4
    <3>4. ~w.term => w.pending # 0
      BY <1>1, AdvancedPending
    <3>5. s.parties = Parties(held)
      BY <1>1, <1>6 DEF Counted
    <3>6. Counted' <=>
            /\ \A u \in Threads : held[u] \in 0 .. Weight[u]
                                  /\ held[u] \in 0 .. held[u]
            /\ w.parties = Parties(held)
            /\ unarrived_of(w) = Parties(held)
            /\ ~w.term /\ w.pending = 0 => touched'
      BY <2>1 DEF Counted, Parties, unarrived_of
    <3>7. QED BY <3>1, <3>3, <3>4, <3>5, <3>6
  <2>8. Flat!Advance
    BY <1>1, <1>6, <2>1, <2>2, <2>3, <2>4
    DEF Flat!Advance, Flat!AllArrived, NextPhase, on_advance
  <2>9. QED BY <2>5, <2>6, <2>7, <2>8 DEF FlatInv
<1>7. QED BY <1>5, <1>6

\* A compare-and-swap of the root's word.
LEMMA FlatCas ==
  ASSUME Phasers = {Root}, IsFiniteSet(Threads), IInv, FlatInv,
         NEW t \in Threads, Cas(t)
  PROVE  FlatInv' /\ (Flat!Next \/ UNCHANGED Flat!bvars)
<1>1. cur[t] = Root /\ pc[t] = "cas"
  BY InRoot DEF Cas
<1>2. CASE state[Root] = snap[t][Root] /\ ArriveCas(t, Root, snap[t][Root])
  BY <1>1, <1>2, FlatArrive DEF Cas, Flat!Next
<1>3. CASE state[Root] = snap[t][Root] /\ RegisterCas(t, Root, snap[t][Root])
  BY <1>1, <1>3, FlatRegister DEF Cas, Flat!Next
<1>4. CASE state[Root] = snap[t][Root] /\ TerminateCas(t, Root, snap[t][Root])
  BY <1>1, <1>4, FlatTerminate DEF Cas, Flat!Next
<1>5. CASE RetryCas(t, Root)
  <2>1. CASE Loop(t, Root, state[Root])
    BY <1>1, <1>5, <2>1, ExamineQuiet DEF Cas, RetryCas, Loop
  <2>2. CASE UNCHANGED <<pc, out, copy>>
    <3>1. \A u \in Threads : SameLocals(u)
      BY <2>2 DEF Cas, client, SameLocals
    <3>2. UNCHANGED <<state, held, left, touched>>
      BY <1>5 DEF RetryCas, ghost
    <3>3. Follows(t)'
      BY <3>1, <3>2, FollowsFrame DEF FlatInv
    <3>4. QED BY <3>1, <3>2, <3>3, QuietStep
  <2>3. QED BY <1>5, <2>1, <2>2 DEF RetryCas
<1>6. QED BY <1>1, <1>2, <1>3, <1>4, <1>5 DEF Cas

\* Every step keeps the invariant and is a step of the barrier or none.
LEMMA FlatStep ==
  ASSUME Phasers = {Root}, IsFiniteSet(Threads), IInv, AdvanceOwned, FlatInv,
         [Next]_vars
  PROVE  FlatInv' /\ [Flat!Next]_(Flat!bvars)
<1>1. CASE UNCHANGED vars
  <2>1. UNCHANGED <<state, held, left, touched>>
    BY <1>1 DEF vars, shared, ghost
  <2>2. \A u \in Threads : SameLocals(u)
    BY <1>1 DEF vars, local, client, SameLocals
  <2>3. \A u \in Threads : Follows(u)'
    BY <2>1, <2>2, FollowsFrame DEF FlatInv
  <2>4. Counted'
    BY <2>1 DEF FlatInv, Counted, Parties, unarrived_of
  <2>5. QED BY <2>1, <2>3, <2>4 DEF FlatInv, Flat!bvars
<1>2. ASSUME NEW t \in Threads, Run(t) PROVE FlatInv' /\ [Flat!Next]_(Flat!bvars)
  <2>1. pc[t] \notin BelowRoot
    BY InRoot DEF BelowRoot
  <2>2. ~ReconcileLoad(t) /\ ~ReconcileCas(t) /\ ~Lock(t) /\ ~Commit(t)
        /\ ~CommitLoad(t) /\ ~EmptyCas(t)
    BY <2>1 DEF ReconcileLoad, ReconcileCas, Lock, Commit, CommitLoad, EmptyCas,
                BelowRoot
  <2>3. ~Resume(t)
    BY InRoot DEF Resume
  <2>4. CASE Load(t)
    BY <2>4, FlatLoad
  <2>5. CASE Cas(t)
    BY <2>5, FlatCas
  <2>6. CASE AdvanceCas(t)
    BY <2>6, FlatAdvance DEF Flat!Next
  <2>7. CASE Await(t)
    BY <2>7, FlatAwait
  <2>8. CASE Complete(t)
    BY <2>8, FlatComplete
  <2>9. QED BY <1>2, <2>2, <2>3, <2>4, <2>5, <2>6, <2>7, <2>8 DEF Run
<1>3. ASSUME NEW t \in Threads, Participate(t) \/ Visit(t)
      PROVE  FlatInv' /\ [Flat!Next]_(Flat!bvars)
  BY <1>3, FlatBegin
<1>4. QED BY <1>1, <1>2, <1>3 DEF Next

\* The constructor's state is the barrier's initial state.
LEMMA FlatInit ==
  ASSUME Phasers = {Root}, IsFiniteSet(Threads), Init
  PROVE  FlatInv /\ Flat!Init
<1> DEFINE f == [t \in Threads |-> IF t \in Members THEN Weight[t] ELSE 0]
<1>1. PICK n \in [Phasers -> Count] :
        /\ n[Root] = PartiesAt(Root, todo, [c \in Phasers |-> n[c] > 0])
        /\ state = [p \in Phasers |->
             define_state(IF n[p] = 0 /\ p # Root THEN 0 ELSE InitPhase,
                          n[p], IF n[p] = 0 THEN 1 ELSE n[p])]
  BY DEF Init
<1>2. /\ state[Root].term = FALSE /\ state[Root].phase = InitPhase
      /\ state[Root].parties = n[Root]
      /\ state[Root].pending = IF n[Root] = 0 THEN 1 ELSE n[Root]
  BY <1>1 DEF define_state
<1>3. n[Root] = Parties(todo)
  BY <1>1, PartiesAtRoot
<1>4. todo = f /\ held = f /\ left = f /\ touched = FALSE
  BY DEF Init
<1>5. \A t \in Threads : f[t] \in {0, Weight[t]} /\ f[t] \in 0 .. Weight[t]
                         /\ f[t] \in 0 .. f[t]
  BY ClientAssumption, WidthAssumption
<1>6. Counted
  <2>1. unarrived_of(state[Root]) = n[Root]
    BY <1>2 DEF unarrived_of
  <2>2. state[Root].pending # 0
    BY <1>2
  <2>3. QED BY <1>2, <1>3, <1>4, <1>5, <2>1, <2>2 DEF Counted
<1>7. ASSUME NEW t \in Threads PROVE Follows(t)
  <2>1. /\ pc[t] = "client" /\ op[t] = "none" /\ out[t] = NoOut
        /\ role[t] = IF t \in Members THEN "in" ELSE "out"
        /\ seen[t] = InitPhase
    BY DEF Init
  <2>2. ~NoOut.term
    BY DEF NoOut, make, NoWord, define_state
  <2>3. t \in Members => Unarrived(t)
    BY <1>2, <1>4, <2>1, ClientAssumption, WidthAssumption DEF Unarrived
  <2>4. t \notin Members => Outside(t)
    BY <1>4 DEF Outside
  <2>5. QED BY <2>1, <2>2, <2>3, <2>4 DEF Follows, Resting
<1>8. Flat!Init
  BY <1>2, <1>4, <1>5, WidthAssumption DEF Flat!Init
<1>9. QED BY <1>6, <1>7, <1>8 DEF FlatInv

\* What the invariant says of the properties of the runs.
LEMMA FlatProperties ==
  ASSUME Phasers = {Root}, IsFiniteSet(Threads), IInv, FlatInv
  PROVE  Accounting /\ PartyPinsPhase /\ ReturnedPhases
<1>1. Accounting
  <2>1. Current(Root) = state[Root]
    BY DEF Current, SamePhase
  <2>2. \A f, b : PartiesAt(Root, f, b) = Parties(f)
    BY PartiesAtRoot
  <2>3. /\ state[Root].parties = Parties(held)
        /\ unarrived_of(state[Root]) = Parties(left)
    BY DEF FlatInv, Counted
  <2>4. ASSUME NEW p \in Phasers
        PROVE  /\ state[p].parties =
                    PartiesAt(p, held, [c \in Phasers |-> state[c].parties > 0])
               /\ unarrived_of(Current(p)) =
                    PartiesAt(p, left, [c \in Phasers |-> unarrived_of(Current(c)) > 0])
    <3>1. p = Root
      OBVIOUS
    <3>2. QED BY <2>1, <2>2, <2>3, <3>1
  <2>5. QED BY <2>4 DEF Accounting
<1>2. PartyPinsPhase
  BY DEF PartyPinsPhase, FlatInv, Follows, Resting, Unarrived, Waiting, Renewed
<1>3. ReturnedPhases
  <2> SUFFICES ASSUME NEW t \in Threads, pc[t] = "ret", ~out[t].term
               PROVE  /\ op[t] \in {"arrive", "dereg"} =>
                           out[t] = [term |-> FALSE, phase |-> seen[t],
                                     cond |-> "normal"]
                      /\ op[t] \in {"await", "aaa"} =>
                           out[t] = [term |-> FALSE, phase |-> NextPhase(seen[t]),
                                     cond |-> "normal"]
    BY DEF ReturnedPhases
  <2>1. Follows(t) /\ out[t] \in PhaseType
    BY InRoot DEF FlatInv
  <2>2. \A ph : out[t].cond = "normal" /\ out[t].phase = ph =>
          out[t] = [term |-> FALSE, phase |-> ph, cond |-> "normal"]
    BY <2>1 DEF PhaseType
  <2>3. QED
    BY <2>1, <2>2
    DEF Follows, Arriving, ArrivingAndWaiting, AwaitingAdvance, ToldNext
<1>4. QED BY <1>1, <1>2, <1>3

\* The three state properties and the refinement for a phaser without
\* children, as invariants of the specification.
LEMMA FlatInvariance ==
  ASSUME Phasers = {Root}, IsFiniteSet(Threads)
  PROVE  Spec => /\ [](IInv /\ FlatInv)
                 /\ Flat!Init /\ [][Flat!Next]_(Flat!bvars)
<1>1. Init => IInv /\ AdvanceOwned /\ FlatInv /\ Flat!Init
  BY InitIInv, InitOwned, FlatInit
<1>2. IInv /\ AdvanceOwned /\ FlatInv /\ [Next]_vars =>
        (IInv /\ AdvanceOwned /\ FlatInv)' /\ [Flat!Next]_(Flat!bvars)
  BY NextStep, NextOwned, FlatStep
<1>3. QED BY <1>1, <1>2, PTL DEF Spec

\* Between operations the word of a phaser without children counts exactly
\* the registered parties, and has pending exactly those that have not
\* arrived: do_register and do_arrive lose and invent none, whatever the
\* order of their compare-and-swaps.
THEOREM RootAccounting ==
  ASSUME Phasers = {Root}, IsFiniteSet(Threads)
  PROVE  Spec => []Accounting
<1>1. IInv /\ FlatInv => Accounting
  BY FlatProperties
<1>2. QED BY <1>1, FlatInvariance, PTL

\* A party of a phaser without children pins the phase it was told, and the
\* phase is at most one ahead of a party that has arrived.
THEOREM RootPinsPhase ==
  ASSUME Phasers = {Root}, IsFiniteSet(Threads)
  PROVE  Spec => []PartyPinsPhase
<1>1. IInv /\ FlatInv => PartyPinsPhase
  BY FlatProperties
<1>2. QED BY <1>1, FlatInvariance, PTL

\* At a phaser without children an arrival returns the phase it arrived in,
\* a wait the next one, and neither is refused.
THEOREM RootReturnedPhases ==
  ASSUME Phasers = {Root}, IsFiniteSet(Threads)
  PROVE  Spec => []ReturnedPhases
<1>1. IInv /\ FlatInv => ReturnedPhases
  BY FlatProperties
<1>2. QED BY <1>1, FlatInvariance, PTL

\* A phaser without children is a barrier: every compare-and-swap on its
\* word is a step of the barrier, and no other step shows.
THEOREM RootIsBarrier ==
  ASSUME Phasers = {Root}, IsFiniteSet(Threads)
  PROVE  Spec => ImplementsBarrier
  BY FlatInvariance, PTL DEF ImplementsBarrier, Flat!Spec

(***************************************************************************)
(* A tree of phasers.                                                      *)
(*                                                                         *)
(* A thread that stalls in reconcile_state for a whole cycle of phases     *)
(* finds the word it remembers and resets a child that is up to date (TLC  *)
(* finds ChildLag violated with PhaseSize = 2), and a child that gets its  *)
(* parties although the parent refused it (do_register ignores the result) *)
(* is in nobody's books.  As long as the phase of the root has not wrapped *)
(* round, and a phaser with children has room for all who may register     *)
(* with it, a tree of any depth is a barrier.                              *)
(***************************************************************************)

\* The phase of the root has not wrapped round.
Unwrapped == [][state'[Root].phase >= state[Root].phase]_vars

\* A constructor takes the parent, so every phaser is at a finite depth.
IsDepth(d) ==
  /\ \E n \in Nat : d \in [Phasers -> 0 .. n]
  /\ \A p \in Phasers \ {Root} : d[p] = d[Parent[p]] + 1
\* The parents form a tree below the root.
Rooted == \E d : IsDepth(d)
\* The depth of every phaser.
Depth  == CHOOSE d : IsDepth(d)

\* Threads register at p f[t] parties, and the children in S one each.
PartiesOf(p, f) ==
  {x \in Threads \X (1 .. CountSize) : Home[x[1]] = p /\ x[2] <= f[x[1]]}
ChildrenIn(p, S) == {c \in S : Parent[c] = p}
Total(p, f, S) == Cardinality(PartiesOf(p, f)) + Cardinality(ChildrenIn(p, S))

\* No registration of a child is refused by its parent.
Roomy ==
  \A p, c \in Phasers : Parent[c] = p => Total(p, Weight, Phasers) < CountSize

\* The hypotheses on the tree: finitely many threads and phasers, and those.
Tree == IsFiniteSet(Threads) /\ IsFiniteSet(Phasers) /\ Rooted /\ Roomy

\* The least of a set of numbers.
LEMMA Least ==
  ASSUME NEW T \in SUBSET Nat, T # {}
  PROVE  \E n \in T : \A m \in T : n <= m
<1> DEFINE R == {x \in Nat \X Nat : x[1] < x[2]}
<1>1. IsWellFoundedOn(R, Nat)
  BY NatLessThanWellFounded DEF OpToRel
<1>2. \A x, y \in Nat : x < y => <<x, y>> \in R
  OBVIOUS
<1> HIDE DEF R
<1>3. PICK n \in T : \A m \in T : ~ (<<m, n>> \in R)
  BY <1>1, WFMin
<1>4. \A m \in T : n <= m
  <2> SUFFICES ASSUME NEW m \in T PROVE n <= m
    OBVIOUS
  <2>1. ~ (m < n)
    BY <1>2, <1>3
  <2>2. QED BY <2>1
<1>5. QED BY <1>4

\* The depth of a phaser.
LEMMA DepthType ==
  ASSUME Rooted
  PROVE  /\ Depth \in [Phasers -> Nat]
         /\ \A p \in Phasers \ {Root} : Parent[p] \in Phasers /\ Depth[p] = Depth[Parent[p]] + 1
         /\ \E n \in Nat : \A p \in Phasers : Depth[p] <= n
<1>1. IsDepth(Depth)
  BY DEF Rooted, Depth
<1>2. PICK n \in Nat : Depth \in [Phasers -> 0 .. n]
  BY <1>1 DEF IsDepth
<1>3. \A p \in Phasers : Depth[p] \in 0 .. n
  BY <1>2
<1>4. Depth \in [Phasers -> Nat]
  BY <1>2, <1>3
<1>5. \A p \in Phasers : Depth[p] <= n
  BY <1>3
<1>6. \A p \in Phasers \ {Root} : Parent[p] \in Phasers
  BY TreeAssumption
<1>7. \A p \in Phasers \ {Root} : Depth[p] = Depth[Parent[p]] + 1
  BY <1>1 DEF IsDepth
<1>8. QED BY <1>4, <1>5, <1>6, <1>7

\* What climbs from every phaser in S to its parent is at the root.
LEMMA Upwards ==
  ASSUME Rooted, NEW S \in SUBSET Phasers, S # {},
         \A p \in S : p # Root => Parent[p] \in S
  PROVE  Root \in S
<1> DEFINE T == {Depth[p] : p \in S}
<1>1. T \in SUBSET Nat /\ T # {}
  BY DepthType
<1>2. PICK n \in T : \A m \in T : n <= m
  BY <1>1, Least
<1>3. PICK p \in S : n = Depth[p]
  BY <1>2
<1>4. ASSUME p # Root PROVE FALSE
  <2>1. Parent[p] \in S
    BY <1>4
  <2>2. n <= Depth[Parent[p]]
    BY <1>2, <2>1
  <2>3. Depth[p] = Depth[Parent[p]] + 1 /\ Depth[Parent[p]] \in Nat /\ Depth[p] \in Nat
    BY <1>4, <2>1, DepthType
  <2>4. QED BY <1>3, <2>2, <2>3
<1>5. QED BY <1>3, <1>4

\* What goes down from every phaser in S to a child does not start.
LEMMA Downwards ==
  ASSUME Rooted, NEW S \in SUBSET Phasers,
         \A p \in S : \E c \in S : c # Root /\ Parent[c] = p
  PROVE  S = {}
<1>1. PICK n \in Nat : \A p \in Phasers : Depth[p] <= n
  BY DepthType
<1> DEFINE T == {n - Depth[p] : p \in S}
<1>2. \A p \in S : Depth[p] \in Nat /\ Depth[p] <= n
  BY <1>1, DepthType
<1>3. T \in SUBSET Nat
  BY <1>2
<1>4. ASSUME S # {} PROVE FALSE
  <2>1. T # {}
    BY <1>4
  <2>2. PICK m \in T : \A k \in T : m <= k
    BY <1>3, <2>1, Least
  <2>3. PICK p \in S : m = n - Depth[p]
    BY <2>2
  <2>4. PICK c \in S : c # Root /\ Parent[c] = p
    OBVIOUS
  <2>5. m <= n - Depth[c]
    BY <2>2
  <2>6. Depth[c] = Depth[p] + 1
    BY <2>4, DepthType
  <2>7. Depth[p] \in Nat /\ Depth[c] \in Nat
    BY <1>2
  <2>8. QED BY <2>3, <2>5, <2>6, <2>7
<1>5. QED BY <1>4

(***************************************************************************)
(* Counting the parties of a phaser and its children.                      *)
(***************************************************************************)
\* The counts are finite.
LEMMA TotalType ==
  ASSUME Tree, NEW p \in Phasers, NEW f, NEW S \in SUBSET Phasers
  PROVE  /\ IsFiniteSet(PartiesOf(p, f)) /\ Cardinality(PartiesOf(p, f)) \in Nat
         /\ IsFiniteSet(ChildrenIn(p, S)) /\ Cardinality(ChildrenIn(p, S)) \in Nat
         /\ Total(p, f, S) = Cardinality(PartiesOf(p, f)) + Cardinality(ChildrenIn(p, S))
         /\ Total(p, f, S) \in Nat
<1>1. IsFiniteSet(PartiesOf(p, f))
  <2>1. PartiesOf(p, f) \subseteq PartySet(f)
    BY DEF PartiesOf, PartySet
  <2>2. IsFiniteSet(Threads)
    BY DEF Tree
  <2>3. QED BY <2>1, <2>2, PartySetFinite, FS_Subset
<1>2. IsFiniteSet(ChildrenIn(p, S))
  <2>1. ChildrenIn(p, S) \subseteq Phasers
    BY DEF ChildrenIn
  <2>2. QED BY <2>1, FS_Subset DEF Tree
<1>3. /\ Cardinality(PartiesOf(p, f)) \in Nat
      /\ Cardinality(ChildrenIn(p, S)) \in Nat
  BY <1>1, <1>2, FS_CardinalityType
<1>4. QED BY <1>1, <1>2, <1>3 DEF Total

\* Nobody counts exactly if no thread has parties and no child is counted.
LEMMA TotalNone ==
  ASSUME Tree, NEW p \in Phasers, NEW f \in [Threads -> 0 .. CountSize],
         NEW S \in SUBSET Phasers
  PROVE  Total(p, f, S) = 0 <=> /\ \A t \in Threads : Home[t] = p => f[t] = 0
                                /\ \A c \in S : Parent[c] # p
<1>1. Total(p, f, S) = 0 <=> PartiesOf(p, f) = {} /\ ChildrenIn(p, S) = {}
  <2> DEFINE a == Cardinality(PartiesOf(p, f))
             b == Cardinality(ChildrenIn(p, S))
  <2>1. a \in Nat /\ b \in Nat /\ Total(p, f, S) = a + b
    BY TotalType
  <2>2. (a = 0 <=> PartiesOf(p, f) = {}) /\ (b = 0 <=> ChildrenIn(p, S) = {})
    BY TotalType, FS_EmptySet
  <2> HIDE DEF a, b
  <2>3. QED BY <2>1, <2>2
<1>2. ASSUME NEW t \in Threads, Home[t] = p, f[t] # 0
      PROVE  <<t, 1>> \in PartiesOf(p, f)
  BY <1>2, WidthAssumption DEF PartiesOf
<1>3. ASSUME \A t \in Threads : Home[t] = p => f[t] = 0
      PROVE  PartiesOf(p, f) = {}
  BY <1>3 DEF PartiesOf
<1>4. ChildrenIn(p, S) = {} <=> \A c \in S : Parent[c] # p
  BY DEF ChildrenIn
<1>5. QED BY <1>1, <1>2, <1>3, <1>4

\* One party of t less.
LEMMA TotalLess ==
  ASSUME Tree, NEW p \in Phasers, NEW f \in [Threads -> 0 .. CountSize],
         NEW S \in SUBSET Phasers, NEW t \in Threads, f[t] # 0,
         NEW g, g[t] = f[t] - 1, \A u \in Threads : u # t => g[u] = f[u]
  PROVE  Total(p, g, S) = IF p = Home[t] THEN Total(p, f, S) - 1 ELSE Total(p, f, S)
<1> DEFINE x == <<t, f[t]>>
<1>1. CASE p = Home[t]
  <2>1. x \in PartiesOf(p, f)
    BY <1>1, WidthAssumption DEF PartiesOf
  <2>2. PartiesOf(p, g) = PartiesOf(p, f) \ {x}
    <3>1. ASSUME NEW y \in Threads \X (1 .. CountSize)
          PROVE  y \in PartiesOf(p, g) <=> y \in PartiesOf(p, f) /\ y # x
      <4>1. PICK u \in Threads, k \in 1 .. CountSize : y = <<u, k>>
        OBVIOUS
      <4>2. y \in PartiesOf(p, g) <=> Home[u] = p /\ k <= g[u]
        BY <4>1 DEF PartiesOf
      <4>3. y \in PartiesOf(p, f) <=> Home[u] = p /\ k <= f[u]
        BY <4>1 DEF PartiesOf
      <4>4. y = x <=> u = t /\ k = f[t]
        BY <4>1
      <4>5. CASE u = t
        BY <4>2, <4>3, <4>4, <4>5, WidthAssumption
      <4>6. CASE u # t
        BY <4>2, <4>3, <4>4, <4>6
      <4>7. QED BY <4>5, <4>6
    <3>2. QED BY <3>1 DEF PartiesOf
  <2>3. Cardinality(PartiesOf(p, g)) = Cardinality(PartiesOf(p, f)) - 1
    <3>1. IsFiniteSet(PartiesOf(p, f))
      BY TotalType
    <3> HIDE DEF x
    <3>2. Cardinality(PartiesOf(p, f) \ {x}) = Cardinality(PartiesOf(p, f)) - 1
      BY <2>1, <3>1, FS_RemoveElement
    <3>3. QED BY <2>2, <3>2
  <2>4. QED
    <3> DEFINE a == Cardinality(PartiesOf(p, f))
               b == Cardinality(ChildrenIn(p, S))
    <3>1. a \in Nat /\ b \in Nat /\ Total(p, f, S) = a + b
      BY TotalType
    <3>2. Total(p, g, S) = (a - 1) + b
      BY <2>3 DEF Total
    <3> HIDE DEF a, b
    <3>3. QED BY <1>1, <3>1, <3>2
<1>2. CASE p # Home[t]
  <2>1. \A u \in Threads : Home[u] = p => g[u] = f[u]
    BY <1>2
  <2>2. PartiesOf(p, g) = PartiesOf(p, f)
    BY <2>1 DEF PartiesOf
  <2>3. QED BY <1>2, <2>2 DEF Total
<1>3. QED BY <1>1, <1>2

\* n parties more, of a thread that had none.
LEMMA TotalMore ==
  ASSUME Tree, NEW p \in Phasers, NEW f \in [Threads -> 0 .. CountSize],
         NEW S \in SUBSET Phasers, NEW t \in Threads, f[t] = 0,
         NEW n \in 0 .. CountSize,
         NEW g, g[t] = n, \A u \in Threads : u # t => g[u] = f[u]
  PROVE  Total(p, g, S) = IF p = Home[t] THEN Total(p, f, S) + n ELSE Total(p, f, S)
<1> DEFINE A == {t} \X (1 .. n)
<1>1. CASE p = Home[t]
  <2>1. IsFiniteSet(1 .. n) /\ Cardinality(1 .. n) = n
    <3>1. n \in Int /\ 1 \in Int /\ (IF 1 > n THEN 0 ELSE n - 1 + 1) = n
      BY WidthAssumption
    <3>2. QED BY <3>1, FS_Interval
  <2>2. IsFiniteSet(A) /\ Cardinality(A) = n
    <3>1. IsFiniteSet({t}) /\ Cardinality({t}) = 1
      BY FS_Singleton
    <3>2. IsFiniteSet(A) /\ Cardinality(A) = Cardinality({t}) * Cardinality(1 .. n)
      BY <2>1, <3>1, FS_Product
    <3>3. QED BY <2>1, <3>1, <3>2, WidthAssumption
  <2>3. PartiesOf(p, g) = PartiesOf(p, f) \cup A /\ PartiesOf(p, f) \cap A = {}
    <3>1. A \subseteq Threads \X (1 .. CountSize)
      BY WidthAssumption
    <3>2. ASSUME NEW y \in Threads \X (1 .. CountSize)
          PROVE  /\ y \in PartiesOf(p, g) <=> y \in PartiesOf(p, f) \/ y \in A
                 /\ ~(y \in PartiesOf(p, f) /\ y \in A)
      <4>1. PICK u \in Threads, k \in 1 .. CountSize : y = <<u, k>>
        OBVIOUS
      <4>2. y \in PartiesOf(p, g) <=> Home[u] = p /\ k <= g[u]
        BY <4>1 DEF PartiesOf
      <4>3. y \in PartiesOf(p, f) <=> Home[u] = p /\ k <= f[u]
        BY <4>1 DEF PartiesOf
      <4>4. y \in A <=> u = t /\ k <= n
        BY <4>1
      <4>5. CASE u = t
        BY <1>1, <4>2, <4>3, <4>4, <4>5
      <4>6. CASE u # t
        BY <4>2, <4>3, <4>4, <4>6
      <4>7. QED BY <4>5, <4>6
    <3>3. PartiesOf(p, g) \subseteq Threads \X (1 .. CountSize)
          /\ PartiesOf(p, f) \subseteq Threads \X (1 .. CountSize)
      BY DEF PartiesOf
    <3> HIDE DEF A
    <3>4. QED BY <3>1, <3>2, <3>3
  <2> HIDE DEF A
  <2>4. Cardinality(PartiesOf(p, g)) = Cardinality(PartiesOf(p, f)) + n
    <3>1. Cardinality(PartiesOf(p, f) \cap A) = 0
      BY <2>3, FS_EmptySet
    <3>2. Cardinality(PartiesOf(p, f) \cup A)
          = Cardinality(PartiesOf(p, f)) + Cardinality(A)
            - Cardinality(PartiesOf(p, f) \cap A)
      <4>1. IsFiniteSet(PartiesOf(p, f))
        BY TotalType
      <4>2. QED BY <2>2, <4>1, FS_Union
    <3>3. Cardinality(PartiesOf(p, f)) \in Nat
      BY TotalType
    <3>4. Cardinality(PartiesOf(p, g)) = Cardinality(PartiesOf(p, f)) + n - 0
      BY <2>2, <2>3, <3>1, <3>2
    <3>5. QED BY <3>3, <3>4, WidthAssumption
  <2>5. QED
    <3> DEFINE a == Cardinality(PartiesOf(p, f))
               b == Cardinality(ChildrenIn(p, S))
    <3>1. a \in Nat /\ b \in Nat /\ Total(p, f, S) = a + b
      BY TotalType
    <3>2. Total(p, g, S) = (a + n) + b
      BY <2>4 DEF Total
    <3> HIDE DEF a, b
    <3>3. QED BY <1>1, <3>1, <3>2, WidthAssumption
<1>2. CASE p # Home[t]
  <2>1. \A u \in Threads : Home[u] = p => g[u] = f[u]
    BY <1>2
  <2>2. PartiesOf(p, g) = PartiesOf(p, f)
    BY <2>1 DEF PartiesOf
  <2>3. QED BY <1>2, <2>2 DEF Total
<1>3. QED BY <1>1, <1>2

\* A child less.
LEMMA TotalDrop ==
  ASSUME Tree, NEW p \in Phasers, NEW f, NEW S \in SUBSET Phasers, NEW c \in S
  PROVE  Total(p, f, S \ {c}) =
           IF p = Parent[c] THEN Total(p, f, S) - 1 ELSE Total(p, f, S)
<1>1. CASE p = Parent[c]
  <2>1. c \in ChildrenIn(p, S) /\ ChildrenIn(p, S \ {c}) = ChildrenIn(p, S) \ {c}
    BY <1>1 DEF ChildrenIn
  <2>2. Cardinality(ChildrenIn(p, S) \ {c}) = Cardinality(ChildrenIn(p, S)) - 1
    BY <2>1, TotalType, FS_RemoveElement
  <2> DEFINE a == Cardinality(PartiesOf(p, f))
             b == Cardinality(ChildrenIn(p, S))
  <2>3. a \in Nat /\ b \in Nat /\ Total(p, f, S) = a + b
    BY TotalType
  <2>4. Total(p, f, S \ {c}) = a + (b - 1)
    BY <2>1, <2>2 DEF Total
  <2> HIDE DEF a, b
  <2>5. QED BY <1>1, <2>3, <2>4
<1>2. CASE p # Parent[c]
  <2>1. ChildrenIn(p, S \ {c}) = ChildrenIn(p, S)
    BY <1>2 DEF ChildrenIn
  <2>2. QED BY <1>2, <2>1 DEF Total
<1>3. QED BY <1>1, <1>2

\* A child more.
LEMMA TotalAdd ==
  ASSUME Tree, NEW p \in Phasers, NEW f, NEW S \in SUBSET Phasers,
         NEW c \in Phasers \ S
  PROVE  Total(p, f, S \cup {c}) =
           IF p = Parent[c] THEN Total(p, f, S) + 1 ELSE Total(p, f, S)
<1> DEFINE R == S \cup {c}
<1>1. R \in SUBSET Phasers /\ c \in R /\ R \ {c} = S
  OBVIOUS
<1> HIDE DEF R
<1>2. Total(p, f, R \ {c}) = IF p = Parent[c] THEN Total(p, f, R) - 1 ELSE Total(p, f, R)
  BY <1>1, TotalDrop
<1>3. Total(p, f, R) \in Nat /\ Total(p, f, S) \in Nat
  BY <1>1, TotalType
<1>4. Total(p, f, R) = IF p = Parent[c] THEN Total(p, f, S) + 1 ELSE Total(p, f, S)
  <2> DEFINE a == Total(p, f, R)
             b == Total(p, f, S)
  <2>1. a \in Nat /\ b \in Nat /\ b = IF p = Parent[c] THEN a - 1 ELSE a
    BY <1>1, <1>2, <1>3
  <2> HIDE DEF a, b
  <2>2. a = IF p = Parent[c] THEN b + 1 ELSE b
    BY <2>1
  <2>3. QED BY <2>2 DEF a, b
<1>5. QED BY <1>4 DEF R

\* More parties and more children are not fewer.
LEMMA TotalBound ==
  ASSUME Tree, NEW p \in Phasers, NEW f \in [Threads -> 0 .. CountSize],
         NEW g \in [Threads -> 0 .. CountSize], \A t \in Threads : f[t] <= g[t],
         NEW S \in SUBSET Phasers, NEW R \in SUBSET Phasers, S \subseteq R
  PROVE  Total(p, f, S) <= Total(p, g, R)
<1>1. PartiesOf(p, f) \subseteq PartiesOf(p, g)
  <2>1. ASSUME NEW y \in PartiesOf(p, f) PROVE y \in PartiesOf(p, g)
    <3>1. PICK u \in Threads, k \in 1 .. CountSize : y = <<u, k>>
      BY DEF PartiesOf
    <3>2. Home[u] = p /\ k <= f[u]
      BY <3>1 DEF PartiesOf
    <3>3. f[u] \in Int /\ g[u] \in Int /\ f[u] <= g[u] /\ k \in Int
      BY WidthAssumption
    <3>4. k <= g[u]
      BY <3>2, <3>3
    <3>5. QED BY <3>1, <3>2, <3>4 DEF PartiesOf
  <2>2. QED BY <2>1
<1>2. ChildrenIn(p, S) \subseteq ChildrenIn(p, R)
  BY DEF ChildrenIn
<1>3. /\ Cardinality(PartiesOf(p, f)) <= Cardinality(PartiesOf(p, g))
      /\ Cardinality(ChildrenIn(p, S)) <= Cardinality(ChildrenIn(p, R))
  BY <1>1, <1>2, TotalType, FS_Subset
<1>4. QED
  <2> DEFINE a == Cardinality(PartiesOf(p, f))
             b == Cardinality(ChildrenIn(p, S))
             h == Cardinality(PartiesOf(p, g))
             k == Cardinality(ChildrenIn(p, R))
  <2>1. a \in Nat /\ b \in Nat /\ Total(p, f, S) = a + b
    BY TotalType
  <2>2. h \in Nat /\ k \in Nat /\ Total(p, g, R) = h + k
    BY TotalType
  <2> HIDE DEF a, b, h, k
  <2>3. a <= h /\ b <= k
    BY <1>3 DEF a, b, h, k
  <2>4. QED BY <2>1, <2>2, <2>3

\* The same count as the model's PartiesAt.
LEMMA PartiesAtTotal ==
  ASSUME NEW p \in Phasers, NEW f, NEW S \in SUBSET Phasers
  PROVE  PartiesAt(p, f, [c \in Phasers |-> c \in S]) = Total(p, f, S)
<1>1. {c \in Phasers : Parent[c] = p /\ [d \in Phasers |-> d \in S][c]} = ChildrenIn(p, S)
  BY DEF ChildrenIn
<1>2. QED BY <1>1 DEF PartiesAt, Total, PartiesOf

(***************************************************************************)
(* The invariant.  A thread climbs from its home, frame by frame; in each  *)
(* frame below the one it is in it is registering, holding self_lock of an *)
(* empty child, or has taken the last pending party out of the child.      *)
(***************************************************************************)
Now  == state[Root].phase
\* The root is not terminated.
Live == ~state[Root].term

\* w is not ahead of the root, and terminated only with it.
Old(w) == w.phase <= Now /\ (w.term => ~Live /\ w.phase = Now)

Trying == {"load", "rec", "recCas", "cas"}
Entry  == {"commit", "commitLoad"}

\* t is above c in the tree, in a call that c made.
Called(t, c) == c # Root /\ caller[t][Parent[c]] = c

\* t has not yet arrived at the parent for c, whose last party has arrived.
ArrivesFor(t, c) ==
  op[t] \in ArriveOps /\ pc[t] \in Trying /\ caller[t][cur[t]] = c

\* t has registered c with the parent, but not yet itself with c.
Entering(t, c) ==
  /\ op[t] = "register"
  /\ \/ cur[t] = c /\ pc[t] \in Entry
     \/ caller[t][cur[t]] = c /\ pc[t] = "ret" /\ ~out[t].term

\* t holds self_lock of c.
LockHeld(t, c) ==
  op[t] = "register" /\ (Called(t, c) \/ (cur[t] = c /\ pc[t] \in Entry))
\* t has taken the last pending party out of c.
Passed(t, c) ==
  op[t] \in ArriveOps /\ (Called(t, c) \/ (cur[t] = c /\ pc[t] = "empty"))

\* The frames of t form a path from its home up to the phaser it is in.
Place(t) ==
  /\ \A q \in Phasers : caller[t][q] # NoPhaser =>
       /\ Parent[caller[t][q]] = q
       /\ q = cur[t] \/ (Depth[cur[t]] < Depth[q] /\ Called(t, q))
  /\ IF op[t] = "register" \/ op[t] \in ArriveOps
     THEN \A q \in Phasers : (q = cur[t] \/ Called(t, q)) =>
            /\ Depth[q] <= Depth[Home[t]]
            /\ caller[t][q] = NoPhaser <=> q = Home[t]
     ELSE \A q \in Phasers : caller[t][q] = NoPhaser
  /\ op[t] = "term" => cur[t] = Root

\* What t may rely on in its locals.
Fits(t) ==
  /\ pc[t] = "client" <=> op[t] = "none"
  /\ pc[t] \in {"recCas", "rec2Cas"} /\ ~out[t].term =>
       ~copy[t].term /\ copy[t].phase < out[t].phase
  /\ pc[t] \in {"rec2", "rec2Cas"} =>
       snap[t][cur[t]].parties # 0 \/ snap[t][cur[t]].pending = 0
  /\ pc[t] = "cas" /\ op[t] = "register" /\ cur[t] # Root =>
       snap[t][cur[t]].parties # 0
  /\ pc[t] = "lock" => snap[t][cur[t]].parties = 0 /\ snap[t][cur[t]].pending = 1
  /\ pc[t] = "empty" => snap[t][cur[t]].parties = 0
  /\ \A c \in Phasers : Passed(t, c) =>
       /\ snap[t][c].pending = 0
       /\ op[t] = "aaa" => snap[t][c].parties # 0

\* Nothing t remembers is ahead of the root.
Dated(t) ==
  /\ Old(copy[t]) /\ Old(out[t]) /\ \A q \in Phasers : Old(snap[t][q])
  /\ seen[t] <= Now
  /\ held[t] \in 0 .. Weight[t] /\ left[t] \in 0 .. held[t]

\* A registration that the parent has counted pins the phase.
Pins(t) ==
  \A c \in Phasers :
    Entering(t, c) /\ pc[t] # "commitLoad" /\ ~out[t].term => out[t].phase = Now

\* An arrival is not refused, nor is the registration of a child.
Heard(t) ==
  /\ (pc[t] = "rec" /\ Live) \/ (pc[t] = "recCas" /\ ~out[t].term) =>
       /\ op[t] \in ArriveOps =>
            copy[t].parties # 0 /\ (copy[t].phase = Now => copy[t].pending # 0)
       /\ op[t] = "register" /\ caller[t][cur[t]] # NoPhaser =>
            copy[t].parties + 1 < CountSize
  /\ op[t] = "register" /\ pc[t] = "ret" /\ caller[t][cur[t]] # NoPhaser =>
       out[t].cond = "normal"
  /\ pc[t] = "commit" => out[t].cond = "normal"

\* What the client believes, at each point of its operation.
AtHome(t) == cur[t] = Home[t]

Rests(t) ==
  /\ pc[t] \in {"client", "load", "rec", "recCas", "cas", "ret"}
  /\ role[t] = "out" => Outside(t)
  /\ role[t] = "in" => Unarrived(t)
  /\ role[t] = "arrived" => Waiting(t)

Joins(t) ==
  /\ role[t] = "out"
  /\ pc[t] \in Trying \cup Entry \cup {"rec2", "rec2Cas", "await", "lock", "ret"}
  /\ IF pc[t] = "ret" /\ AtHome(t) /\ out[t].cond = "normal" /\ ~out[t].term
     THEN Entered(t)
     ELSE /\ Outside(t)
          /\ \/ pc[t] \in Entry \cup {"rec2", "rec2Cas", "lock", "cas"}
             \/ ~AtHome(t)
             \/ pc[t] = "recCas" /\ ~out[t].term
             => held[t] = 0

Arrives(t) ==
  /\ role[t] = "in"
  /\ pc[t] \in Trying \cup {"adv", "empty", "ret"}
  /\ pc[t] \in Trying =>
       IF AtHome(t) THEN Unarrived(t) ELSE Arrived(t) /\ seen[t] = Now
  /\ pc[t] \in {"adv", "empty", "ret"} =>
       /\ out[t].cond = "normal"
       /\ ~out[t].term => Arrived(t) /\ out[t].phase = seen[t]

ArrivesAndWaits(t) ==
  /\ role[t] = "in"
  /\ pc[t] \in Trying \cup {"adv", "await", "ret"}
  /\ pc[t] \in Trying =>
       IF AtHome(t) THEN Unarrived(t) /\ todo[t] = 1 ELSE Waiting(t) /\ seen[t] = Now
  /\ pc[t] \in {"adv", "await"} => Waiting(t)
  /\ pc[t] = "await" => ~out[t].term /\ out[t].phase = seen[t]
  /\ ToldNext(t)

\* The phase of an arrival under way.
InPhase(t) ==
  /\ pc[t] = "recCas" /\ ~out[t].term => out[t].phase = seen[t]
  /\ pc[t] = "cas" => snap[t][cur[t]].phase = seen[t]

Awaits(t) ==
  /\ role[t] = "arrived"
  /\ pc[t] \in {"load", "rec", "recCas", "await", "ret"}
  /\ pc[t] # "ret" => Waiting(t)
  /\ pc[t] = "recCas" /\ ~out[t].term => out[t].phase >= seen[t]
  /\ pc[t] = "await" => ~out[t].term /\ out[t].phase = seen[t]
  /\ ToldNext(t)

Keeps(t) ==
  /\ op[t] \in {"none", "query", "term"} => Rests(t)
  /\ op[t] = "register" => Joins(t)
  /\ op[t] \in {"arrive", "dereg"} => Arrives(t)
  /\ op[t] = "aaa" => ArrivesAndWaits(t)
  /\ op[t] \in ArriveOps => InPhase(t)
  /\ op[t] = "await" => Awaits(t)

\* All that a thread relies on.
Mine(t) == Place(t) /\ Fits(t) /\ Dated(t) /\ Pins(t) /\ Heard(t) /\ Keeps(t)

\* A child behind the root has nobody pending, as ChildLag says.
Lags ==
  \A c \in Phasers :
    \/ state[c].phase = Now
    \/ state[c].parties = 0
    \/ state[c].pending = 0 /\ Now = state[c].phase + 1

\* A locked child stays empty.
Locks(t) ==
  \A c \in Phasers : LockHeld(t, c) =>
    lock[c] = t /\ state[c].parties = 0 /\ state[c].pending = 1

\* Until the phase ends, a word without pending parties stays.
Finish(t) ==
  \A c \in Phasers :
    /\ Passed(t, c) /\ snap[t][c].phase = Now => state[c] = snap[t][c]
    /\ ArrivesFor(t, c) => snap[t][c].phase = Now /\ touched
\* One thread at a time is in charge of a child.
Alone ==
  \A t, u \in Threads, c \in Phasers :
    /\ Passed(t, c) /\ snap[t][c].phase = Now
    /\ Passed(u, c) /\ snap[u][c].phase = Now
    => t = u

\* Arrivals that p has still to see in this phase.
Due(p) ==
  IF state[p].parties = 0 THEN 0
  ELSE IF state[p].phase = Now THEN state[p].pending ELSE state[p].parties

\* The children registered with their parents, and those that have still to
\* arrive there.
Regd ==
  {c \in Phasers :
     \/ state[c].parties # 0
     \/ \E t \in Threads : ArrivesFor(t, c) /\ snap[t][c].parties = 0
     \/ \E t \in Threads : Entering(t, c)}
Owing ==
  {c \in Phasers :
     \/ Due(c) # 0
     \/ \E t \in Threads : ArrivesFor(t, c) \/ Entering(t, c)}
\* Every phaser counts its threads' parties and its children.
Books ==
  \A p \in Phasers : /\ state[p].parties = Total(p, held, Regd)
                     /\ Due(p) = Total(p, left, Owing)

\* What holds until the root terminates.
LiveInv ==
  /\ Alone /\ Books
  /\ state[Root].pending = 0 => touched
  /\ \A t \in Threads : Locks(t) /\ Finish(t)

\* The inductive invariant.
TreeInv ==
  /\ \A p \in Phasers : Old(state[p])
  /\ \A t \in Threads : Mine(t)
  /\ Lags
  /\ Live => LiveInv

(***************************************************************************)
(* Frames.                                                                 *)
(***************************************************************************)

\* Where t is.
LEMMA PlaceFacts ==
  ASSUME IInv, Rooted, NEW t \in Threads, Place(t), pc[t] # "client"
  PROVE  /\ cur[t] \in Phasers /\ Home[t] \in Phasers /\ ~Called(t, cur[t])
         /\ caller[t][cur[t]] # NoPhaser =>
              /\ caller[t][cur[t]] \in Phasers \ {Root}
              /\ Parent[caller[t][cur[t]]] = cur[t]
              /\ Called(t, caller[t][cur[t]])
              /\ op[t] = "register" \/ op[t] \in ArriveOps
              /\ cur[t] # Home[t]
              /\ caller[t][cur[t]] # cur[t]
         /\ op[t] = "register" \/ op[t] \in ArriveOps =>
              (caller[t][cur[t]] = NoPhaser <=> cur[t] = Home[t])
         /\ op[t] \notin {"register"} \cup ArriveOps => caller[t][cur[t]] = NoPhaser
<1>1. LocalType /\ Safe(t)
  BY DEF IInv, LocalInv
<1>2. cur[t] \in Phasers /\ Home[t] \in Phasers
  BY <1>1, ClientAssumption DEF Safe
<1>3. ~Called(t, cur[t])
  <2> SUFFICES ASSUME cur[t] # Root, caller[t][Parent[cur[t]]] = cur[t] PROVE FALSE
    BY DEF Called
  <2> DEFINE q == Parent[cur[t]]
  <2>1. q \in Phasers /\ cur[t] # NoPhaser /\ caller[t][q] # NoPhaser
    BY <1>2, TreeAssumption
  <2>2. q = cur[t] \/ Depth[cur[t]] < Depth[q]
    BY <2>1 DEF Place
  <2>3. Depth[cur[t]] = Depth[q] + 1 /\ Depth[q] \in Nat
    BY <1>2, <2>1, DepthType
  <2> HIDE DEF q
  <2>4. QED BY <2>2, <2>3
<1>4. ASSUME caller[t][cur[t]] # NoPhaser
      PROVE  /\ caller[t][cur[t]] \in Phasers \ {Root}
             /\ Parent[caller[t][cur[t]]] = cur[t]
             /\ Called(t, caller[t][cur[t]])
             /\ op[t] = "register" \/ op[t] \in ArriveOps
             /\ cur[t] # Home[t]
             /\ caller[t][cur[t]] # cur[t]
  <2>1. caller[t][cur[t]] \in Phasers \ {Root}
    BY <1>1, <1>2, <1>4 DEF LocalType, Safe
  <2>2. Parent[caller[t][cur[t]]] = cur[t]
    BY <1>2, <1>4 DEF Place
  <2>3. Called(t, caller[t][cur[t]])
    BY <2>1, <2>2 DEF Called
  <2>4. op[t] = "register" \/ op[t] \in ArriveOps
    BY <1>2, <1>4 DEF Place
  <2>5. cur[t] # Home[t]
    BY <1>2, <1>4, <2>4 DEF Place
  <2>6. QED BY <1>3, <2>1, <2>2, <2>3, <2>4, <2>5
<1>5. op[t] = "register" \/ op[t] \in ArriveOps =>
        (caller[t][cur[t]] = NoPhaser <=> cur[t] = Home[t])
  BY <1>2 DEF Place
<1>6. QED BY <1>2, <1>3, <1>4, <1>5

\* What t has of itself.
Same(t) ==
  /\ pc'[t] = pc[t] /\ op'[t] = op[t] /\ cur'[t] = cur[t]
  /\ caller'[t] = caller[t] /\ snap'[t] = snap[t] /\ copy'[t] = copy[t]
  /\ out'[t] = out[t] /\ role'[t] = role[t] /\ todo'[t] = todo[t]
  /\ seen'[t] = seen[t]

\* The phase of the root stays, and it is not revived.
Still == state'[Root].phase = Now /\ (state[Root].term => state'[Root].term)

\* A thread that does nothing.
LEMMA KeepsFrame ==
  ASSUME NEW t \in Threads, Keeps(t), Same(t), Still,
         held'[t] = held[t], left'[t] = left[t]
  PROVE  Keeps(t)'
<1> USE DEF Same, Still, Now
<1>1. /\ Outside(t) => Outside(t)'
      /\ Unarrived(t) => Unarrived(t)'
      /\ Waiting(t) => Waiting(t)'
      /\ Arrived(t) => Arrived(t)'
      /\ Entered(t) => Entered(t)'
      /\ AtHome(t)' <=> AtHome(t)
      /\ Now' = Now
  BY DEF Outside, Unarrived, Waiting, Renewed, Arrived, Entered, AtHome
<1>2. (Rests(t) => Rests(t)') /\ (InPhase(t) => InPhase(t)')
  BY <1>1 DEF Rests, InPhase
<1>3. Joins(t) => Joins(t)'
  BY <1>1 DEF Joins
<1>4. Arrives(t) => Arrives(t)'
  BY <1>1 DEF Arrives
<1>5. ToldNext(t) => ToldNext(t)'
  BY <1>1 DEF ToldNext
<1>6. (ArrivesAndWaits(t) => ArrivesAndWaits(t)') /\ (Awaits(t) => Awaits(t)')
  BY <1>1, <1>5 DEF ArrivesAndWaits, Awaits
<1>7. QED BY <1>2, <1>3, <1>4, <1>6 DEF Keeps

\* Nor does what it relies on change.
LEMMA MineFrame ==
  ASSUME NEW t \in Threads, Mine(t), Same(t), Still,
         held'[t] = held[t], left'[t] = left[t]
  PROVE  Mine(t)'
<1>1. Place(t)'
  BY DEF Mine, Place, Same, Called
<1>2. Fits(t)'
  BY DEF Mine, Fits, Same, Passed, Called
<1>3. Dated(t)'
  BY DEF Mine, Dated, Same, Old, Live, Still, Now
<1>4. Pins(t)' /\ Heard(t)'
  BY DEF Mine, Pins, Heard, Same, Still, Now, Live, Entering
<1>5. Keeps(t)'
  BY KeepsFrame DEF Mine
<1>6. QED BY <1>1, <1>2, <1>3, <1>4, <1>5 DEF Mine

\* What a step of t leaves of its claims on its children.
Steady(t) ==
  \A c \in Phasers :
    /\ Passed(t, c)' => Passed(t, c) /\ snap'[t][c] = snap[t][c]
    /\ ArrivesFor(t, c)' <=> ArrivesFor(t, c)
    /\ ArrivesFor(t, c) => snap'[t][c] = snap[t][c]
    /\ Entering(t, c)' <=> Entering(t, c)

\* Its claims do not change either.
LEMMA SteadySame ==
  ASSUME NEW t \in Threads, Same(t)
  PROVE  Steady(t) /\ \A c \in Phasers : LockHeld(t, c)' <=> LockHeld(t, c)
  BY DEF Steady, Same, Passed, ArrivesFor, Entering, Called, LockHeld

\* A step of t inside its frame.
LEMMA SteadyMove ==
  ASSUME IInv, Rooted, NEW t \in Threads, Place(t), pc[t] # "client",
         op'[t] = op[t], cur'[t] = cur[t], caller'[t] = caller[t],
         \A q \in Phasers : q # cur[t] => snap'[t][q] = snap[t][q],
         pc'[t] # "empty",
         op[t] \in ArriveOps /\ caller[t][cur[t]] # NoPhaser =>
           (pc'[t] \in Trying <=> pc[t] \in Trying),
         op[t] = "register" => (pc'[t] \in Entry <=> pc[t] \in Entry),
         op[t] = "register" /\ caller[t][cur[t]] # NoPhaser =>
           ((pc'[t] = "ret" /\ ~out'[t].term) <=> (pc[t] = "ret" /\ ~out[t].term))
  PROVE  /\ Steady(t)
         /\ \A c \in Phasers : LockHeld(t, c)' => LockHeld(t, c)
<1>1. /\ cur[t] \in Phasers /\ ~Called(t, cur[t])
      /\ caller[t][cur[t]] # NoPhaser => caller[t][cur[t]] # cur[t]
  BY PlaceFacts
<1>2. NoPhaser \notin Phasers
  BY TreeAssumption
<1> SUFFICES ASSUME NEW c \in Phasers
             PROVE  /\ Passed(t, c)' => Passed(t, c) /\ snap'[t][c] = snap[t][c]
                    /\ ArrivesFor(t, c)' <=> ArrivesFor(t, c)
                    /\ ArrivesFor(t, c) => snap'[t][c] = snap[t][c]
                    /\ Entering(t, c)' <=> Entering(t, c)
                    /\ LockHeld(t, c)' => LockHeld(t, c)
  BY DEF Steady
<1>3. Called(t, c)' <=> Called(t, c)
  BY DEF Called
<1>4. Passed(t, c)' => Passed(t, c) /\ snap'[t][c] = snap[t][c]
  BY <1>1, <1>3 DEF Passed
<1>5. ArrivesFor(t, c)' <=> ArrivesFor(t, c)
  BY <1>2 DEF ArrivesFor
<1>6. ArrivesFor(t, c) => snap'[t][c] = snap[t][c]
  BY <1>1, <1>2 DEF ArrivesFor
<1>7. Entering(t, c)' <=> Entering(t, c)
  BY <1>2 DEF Entering
<1>8. LockHeld(t, c)' => LockHeld(t, c)
  BY <1>3 DEF LockHeld
<1>9. QED BY <1>4, <1>5, <1>6, <1>7, <1>8

\* The books when all claims and all words stay.
LEMMA BooksFrame ==
  ASSUME Books, \A u \in Threads : Steady(u),
         UNCHANGED <<held, left>>,
         \A c \in Phasers : state'[c].parties = state[c].parties /\ Due(c)' = Due(c)
  PROVE  Books'
<1>1. Regd' = Regd
  <2>1. \A c \in Phasers : c \in Regd' <=> c \in Regd
    BY DEF Regd, Steady
  <2>2. Regd \subseteq Phasers /\ Regd' \subseteq Phasers
    BY DEF Regd
  <2>3. QED BY <2>1, <2>2
<1>2. Owing' = Owing
  <2>1. \A c \in Phasers : c \in Owing' <=> c \in Owing
    BY DEF Owing, Steady
  <2>2. Owing \subseteq Phasers /\ Owing' \subseteq Phasers
    BY DEF Owing
  <2>3. QED BY <2>1, <2>2
<1>3. ASSUME NEW p \in Phasers
      PROVE  /\ state'[p].parties = Total(p, held', Regd')
             /\ Due(p)' = Total(p, left', Owing')
  BY <1>1, <1>2 DEF Books
<1>4. QED BY <1>3 DEF Books, Total, PartiesOf, ChildrenIn

\* A step of t that does not show.
LEMMA Calm ==
  ASSUME TreeInv, NEW t \in Threads,
         \A u \in Threads : u # t => Same(u),
         UNCHANGED <<held, left, touched>>, state'[Root] = state[Root],
         Mine(t)',
         \A p \in Phasers : Old(state[p])', Lags',
         Live => /\ Steady(t)
                 /\ \A c \in Phasers : /\ state'[c].parties = state[c].parties
                                       /\ Due(c)' = Due(c)
                 /\ \A u \in Threads : Locks(u)'
                 /\ \A u \in Threads, c \in Phasers :
                      Passed(u, c)' /\ snap[u][c].phase = Now => state'[c] = state[c]
  PROVE  TreeInv' /\ UNCHANGED Flat!bvars
<1>1. Still /\ (Live' <=> Live) /\ Now' = Now
  BY DEF Still, Live, Now
<1>2. \A u \in Threads : Mine(u)'
  BY <1>1, MineFrame DEF TreeInv
<1>3. ASSUME Live PROVE LiveInv'
  <2>1. LiveInv /\ \A u \in Threads : Steady(u)
    BY <1>3, SteadySame DEF TreeInv
  <2>2. Books'
    BY <1>3, <2>1, BooksFrame DEF LiveInv
  <2>3. ASSUME NEW u \in Threads, NEW c \in Phasers
        PROVE  /\ Passed(u, c)' => Passed(u, c) /\ snap'[u][c] = snap[u][c]
               /\ ArrivesFor(u, c)' => ArrivesFor(u, c) /\ snap'[u][c] = snap[u][c]
    BY <2>1 DEF Steady
  <2>4. Alone'
    <3>1. ASSUME NEW u \in Threads, NEW v \in Threads, NEW c \in Phasers,
                 Passed(u, c)', snap'[u][c].phase = Now',
                 Passed(v, c)', snap'[v][c].phase = Now'
          PROVE  u = v
      BY <1>1, <2>1, <2>3, <3>1 DEF LiveInv, Alone
    <3>2. QED BY <3>1 DEF Alone
  <2>5. \A u \in Threads : Finish(u)'
    <3>1. ASSUME NEW u \in Threads, NEW c \in Phasers
          PROVE  /\ Passed(u, c)' /\ snap'[u][c].phase = Now' => state'[c] = snap'[u][c]
                 /\ ArrivesFor(u, c)' => snap'[u][c].phase = Now' /\ touched'
      BY <1>1, <1>3, <2>1, <2>3 DEF LiveInv, Finish
    <3>2. QED BY <3>1 DEF Finish
  <2>6. state'[Root].pending = 0 => touched'
    BY <2>1 DEF LiveInv
  <2>7. QED BY <1>3, <2>2, <2>4, <2>5, <2>6 DEF LiveInv
<1>4. TreeInv'
  BY <1>1, <1>2, <1>3 DEF TreeInv
<1>5. QED BY <1>4 DEF Flat!bvars

(***************************************************************************)
(* What a thread finds in the words.                                       *)
(***************************************************************************)

\* A claim on a child is made from a call of that child.
LEMMA Claims ==
  ASSUME IInv, Rooted, TreeInv, NEW t \in Threads, NEW c \in Phasers
  PROVE  /\ ArrivesFor(t, c) => /\ Passed(t, c) /\ c # Root
                                /\ cur[t] \in Phasers /\ Parent[c] = cur[t]
         /\ Entering(t, c) => LockHeld(t, c) /\ c # Root
<1>1. Place(t) /\ Fits(t) /\ c # NoPhaser
  BY TreeAssumption DEF TreeInv, Mine
<1>2. ASSUME ArrivesFor(t, c)
      PROVE  Passed(t, c) /\ c # Root /\ cur[t] \in Phasers /\ Parent[c] = cur[t]
  <2>1. pc[t] # "client" /\ op[t] \in ArriveOps /\ caller[t][cur[t]] = c
    BY <1>2 DEF ArrivesFor, Trying
  <2>2. Called(t, c) /\ c # Root /\ cur[t] \in Phasers /\ Parent[c] = cur[t]
    BY <1>1, <2>1, PlaceFacts
  <2>3. QED BY <2>1, <2>2 DEF Passed
<1>3. ASSUME Entering(t, c) PROVE LockHeld(t, c) /\ c # Root
  <2>1. pc[t] # "client" /\ op[t] = "register"
    BY <1>3 DEF Entering, Entry
  <2>2. CASE cur[t] = c /\ pc[t] \in Entry
    <3>1. c # Root
      BY <2>1, <2>2, InPhaser DEF Fit, BelowRoot, Entry
    <3>2. QED BY <2>1, <2>2, <3>1 DEF LockHeld
  <2>3. CASE caller[t][cur[t]] = c
    <3>1. Called(t, c) /\ c # Root
      BY <1>1, <2>1, <2>3, PlaceFacts
    <3>2. QED BY <2>1, <3>1 DEF LockHeld
  <2>4. QED BY <1>3, <2>2, <2>3 DEF Entering
<1>4. QED BY <1>2, <1>3

\* The child that t has locked is not yet in anybody's books.
LEMMA Fresh ==
  ASSUME IInv, Rooted, TreeInv, Live, NEW t \in Threads, NEW c \in Phasers,
         LockHeld(t, c)
  PROVE  /\ lock[c] = t /\ state[c].parties = 0 /\ state[c].pending = 1
         /\ \A u \in Threads : ~ArrivesFor(u, c) /\ (Entering(u, c) => u = t)
         /\ ~Entering(t, c) => c \notin Regd /\ c \notin Owing
<1>1. lock[c] = t /\ state[c].parties = 0 /\ state[c].pending = 1
  BY DEF TreeInv, LiveInv, Locks
<1>2. ASSUME NEW u \in Threads, ArrivesFor(u, c) PROVE FALSE
  <2>1. Passed(u, c) /\ Finish(u) /\ Fits(u)
    BY <1>2, Claims DEF TreeInv, LiveInv, Mine
  <2>2. snap[u][c].phase = Now
    BY <1>2, <2>1 DEF Finish
  <2>3. state[c].pending = 0
    BY <2>1, <2>2 DEF Finish, Fits
  <2>4. QED BY <1>1, <2>3
<1>3. ASSUME NEW u \in Threads, Entering(u, c) PROVE u = t
  <2>1. LockHeld(u, c) /\ Locks(u)
    BY <1>3, Claims DEF TreeInv, LiveInv
  <2>2. QED BY <1>1, <2>1 DEF Locks
<1>4. Due(c) = 0
  BY <1>1 DEF Due
<1>5. QED BY <1>1, <1>2, <1>3, <1>4 DEF Regd, Owing

\* The histories are counts.
LEMMA Counts ==
  ASSUME IInv, Tree, TreeInv
  PROVE  /\ held \in [Threads -> 0 .. CountSize] /\ left \in [Threads -> 0 .. CountSize]
         /\ Weight \in [Threads -> 0 .. CountSize]
         /\ \A t \in Threads : held[t] <= Weight[t] /\ left[t] <= held[t]
         /\ Regd \in SUBSET Phasers /\ Owing \in SUBSET Phasers
<1>1. \A t \in Threads : Weight[t] \in 0 .. CountSize
  BY ClientAssumption, WidthAssumption
<1>2. \A t \in Threads : held[t] \in 0 .. Weight[t] /\ left[t] \in 0 .. held[t]
  BY DEF TreeInv, Mine, Dated
<1>3. ASSUME NEW t \in Threads
      PROVE  /\ held[t] \in 0 .. CountSize /\ left[t] \in 0 .. CountSize
             /\ held[t] <= Weight[t] /\ left[t] <= held[t]
  BY <1>1, <1>2, WidthAssumption
<1>4. Weight \in [Threads -> 0 .. CountSize]
  BY <1>1, ClientAssumption
<1>5. held \in [Threads -> Int] /\ left \in [Threads -> Int]
  BY DEF IInv, GhostType
<1>6. held \in [Threads -> 0 .. CountSize] /\ left \in [Threads -> 0 .. CountSize]
  BY <1>3, <1>5
<1>7. QED BY <1>3, <1>4, <1>6 DEF Regd, Owing

\* The word that t finds at the head of its loop has room for the child that
\* called, or lacks the arrival it is about to make.
LEMMA Wanted ==
  ASSUME IInv, Tree, TreeInv, Live, NEW t \in Threads,
         pc[t] \in Trying \cup {"lock"}
  PROVE  /\ op[t] \in ArriveOps =>
              /\ state[cur[t]].parties # 0
              /\ state[cur[t]].phase = Now => state[cur[t]].pending # 0
         /\ op[t] = "register" /\ caller[t][cur[t]] # NoPhaser =>
              state[cur[t]].parties + 1 < CountSize
<1> DEFINE p == cur[t]
<1>1. /\ p \in Phasers /\ Rooted /\ Mine(t) /\ LiveInv /\ Books /\ pc[t] # "client"
      /\ state[p] \in Word
  BY InPhaser DEF Tree, TreeInv, LiveInv, Trying
<1>2. ASSUME op[t] \in ArriveOps
      PROVE  state[p].parties # 0 /\ (state[p].phase = Now => state[p].pending # 0)
  <2>1. pc[t] \in Trying
    BY <1>1, <1>2 DEF Mine, Keeps, Arrives, ArrivesAndWaits, ArriveOps, Trying
  <2>2. Total(p, left, Owing) # 0
    <3>1. CASE p = Home[t]
      <4>1. left[t] # 0
        BY <1>1, <1>2, <2>1, <3>1
        DEF Mine, Keeps, Arrives, ArrivesAndWaits, ArriveOps, AtHome, Unarrived
      <4>2. QED BY <3>1, <4>1, <1>1, Counts, TotalNone
    <3>2. CASE p # Home[t]
      <4>1. /\ caller[t][p] \in Phasers /\ Parent[caller[t][p]] = p
        BY <1>1, <1>2, <3>2, PlaceFacts DEF Mine
      <4>2. caller[t][p] \in Owing
        BY <1>2, <2>1, <4>1 DEF Owing, ArrivesFor
      <4>3. QED BY <1>1, <4>1, <4>2, Counts, TotalNone
    <3>3. QED BY <3>1, <3>2
  <2>3. Due(p) # 0
    BY <1>1, <2>2 DEF Books
  <2>4. QED BY <2>3 DEF Due
<1>3. ASSUME op[t] = "register", caller[t][p] # NoPhaser
      PROVE  state[p].parties + 1 < CountSize
  <2> DEFINE c == caller[t][p]
  <2>1. c \in Phasers /\ Parent[c] = p /\ Called(t, c) /\ c # p
    BY <1>1, <1>3, PlaceFacts DEF Mine
  <2>2. LockHeld(t, c) /\ ~Entering(t, c)
    BY <1>3, <2>1 DEF LockHeld, Entering, Trying, Entry
  <2>3. c \notin Regd
    BY <1>1, <2>1, <2>2, Fresh
  <2>4. Total(p, held, Regd \cup {c}) = Total(p, held, Regd) + 1
    BY <1>1, <2>1, <2>3, Counts, TotalAdd
  <2>5. Total(p, held, Regd \cup {c}) <= Total(p, Weight, Phasers)
    <3>1. Regd \cup {c} \in SUBSET Phasers /\ Phasers \in SUBSET Phasers
          /\ Regd \cup {c} \subseteq Phasers
      BY <2>1, Counts
    <3>2. QED BY <1>1, <3>1, Counts, TotalBound
  <2>6. Total(p, Weight, Phasers) < CountSize
    BY <1>1, <2>1 DEF Tree, Roomy
  <2>7. Total(p, held, Regd) \in Nat /\ Total(p, Weight, Phasers) \in Nat
        /\ state[p].parties = Total(p, held, Regd)
    BY <1>1, Counts, TotalType DEF Books
  <2>8. QED
    <3> DEFINE x == Total(p, held, Regd)
               y == Total(p, held, Regd \cup {c})
               z == Total(p, Weight, Phasers)
    <3>1. x \in Nat /\ z \in Nat /\ y = x + 1 /\ y <= z /\ z < CountSize
      BY <2>4, <2>5, <2>6, <2>7
    <3>2. CountSize \in Nat
      BY WidthAssumption
    <3> HIDE DEF x, y, z
    <3>3. x + 1 < CountSize
      BY <3>1, <3>2
    <3>4. QED BY <3>3, <2>7 DEF x
<1>4. QED BY <1>2, <1>3

(***************************************************************************)
(* A step of t inside its frame that leaves its client's affairs alone.    *)
(***************************************************************************)
Move(t, l, o, k, w) ==
  /\ pc'[t] = l /\ out'[t] = o /\ copy'[t] = k /\ snap'[t][cur[t]] = w
  /\ \A q \in Phasers : q # cur[t] => snap'[t][q] = snap[t][q]
  /\ op'[t] = op[t] /\ cur'[t] = cur[t] /\ caller'[t] = caller[t]
  /\ role'[t] = role[t] /\ todo'[t] = todo[t] /\ seen'[t] = seen[t]
  /\ held'[t] = held[t] /\ left'[t] = left[t]

\* Such a step to l, with the result o and the locals k and w, when the new
\* point of its operation may rely on them.
LEMMA MoveMine ==
  ASSUME IInv, Rooted, NEW t \in Threads, Mine(t), pc[t] # "client", Still,
         NEW l, NEW o, NEW k, NEW w, Move(t, l, o, k, w),
         l \notin {"client", "empty"},
         Old(o), Old(k), Old(w),
         l \in {"recCas", "rec2Cas"} /\ ~o.term => ~k.term /\ k.phase < o.phase,
         l \in {"rec2", "rec2Cas"} => w.parties # 0 \/ w.pending = 0,
         l = "cas" /\ op[t] = "register" /\ cur[t] # Root => w.parties # 0,
         l = "lock" => w.parties = 0 /\ w.pending = 1,
         op[t] = "register" /\ ~o.term /\ l = "commit" => o.phase = Now,
         op[t] = "register" /\ ~o.term /\ l = "ret" => caller[t][cur[t]] = NoPhaser,
         op[t] = "register" /\ o.cond # "normal" /\ l = "ret" => caller[t][cur[t]] = NoPhaser,
         l = "commit" => o.cond = "normal",
         (l = "rec" /\ Live) \/ (l = "recCas" /\ ~o.term) =>
           /\ op[t] \in ArriveOps => k.parties # 0 /\ (k.phase = Now => k.pending # 0)
           /\ op[t] = "register" /\ caller[t][cur[t]] # NoPhaser =>
                k.parties + 1 < CountSize,
         Keeps(t)'
  PROVE  Mine(t)'
<1>1. Place(t) /\ Fits(t) /\ Dated(t) /\ Pins(t) /\ Heard(t)
  BY DEF Mine
<1>2. cur[t] \in Phasers /\ ~Called(t, cur[t])
  BY <1>1, PlaceFacts
<1>3. Place(t)'
  BY <1>1 DEF Place, Move, Called
<1>4. Fits(t)'
  <2>1. ASSUME NEW c \in Phasers, Passed(t, c)'
        PROVE  snap'[t][c].pending = 0 /\ (op'[t] = "aaa" => snap'[t][c].parties # 0)
    <3>1. Passed(t, c) /\ c # cur[t]
      BY <1>2, <2>1 DEF Passed, Called, Move
    <3>2. QED BY <1>1, <3>1 DEF Fits, Move
  <2>2. pc'[t] # "client" /\ op'[t] # "none"
    BY <1>1 DEF Fits, Move
  <2>3. QED BY <2>1, <2>2 DEF Fits, Move
<1>5. Dated(t)'
  <2>1. \A x : Old(x) => Old(x)'
    BY DEF Old, Still, Now, Live
  <2>2. ASSUME NEW q \in Phasers PROVE Old(snap'[t][q])
    BY <1>1, <1>2 DEF Dated, Move
  <2>3. Now' = Now
    BY DEF Now, Still
  <2>4. /\ Old(copy'[t]) /\ Old(out'[t]) /\ seen'[t] <= Now
        /\ held'[t] \in 0 .. Weight[t] /\ left'[t] \in 0 .. held'[t]
    BY <1>1 DEF Dated, Move
  <2>5. \A x : Old(x) => x.phase <= Now' /\ (x.term => ~Live' /\ x.phase = Now')
    BY DEF Old, Still, Now, Live
  <2>6. QED BY <2>2, <2>3, <2>4, <2>5 DEF Dated, Old
<1>6. Pins(t)'
  <2>1. ASSUME NEW c \in Phasers, Entering(t, c)', l # "commitLoad", ~o.term
        PROVE  o.phase = Now
    <3>1. op[t] = "register" /\ (l = "commit" \/ (l = "ret" /\ caller[t][cur[t]] = c))
      BY <2>1 DEF Entering, Move, Entry
    <3>2. c # NoPhaser
      BY TreeAssumption
    <3>3. QED BY <2>1, <3>1, <3>2
  <2>2. Now' = Now
    BY DEF Now, Still
  <2>3. QED BY <2>1, <2>2 DEF Pins, Move
<1>7. Heard(t)'
  <2>1. Now' = Now /\ (Live' => Live)
    BY DEF Now, Still, Live
  <2>2. QED BY <2>1 DEF Heard, Move
<1>8. QED BY <1>3, <1>4, <1>5, <1>6, <1>7 DEF Mine

\* What the client believes stays.
LEMMA Beliefs ==
  ASSUME NEW t \in Threads, Still, todo'[t] = todo[t], seen'[t] = seen[t],
         held'[t] = held[t], left'[t] = left[t]
  PROVE  /\ Now' = Now
         /\ Outside(t) => Outside(t)'
         /\ Unarrived(t) => Unarrived(t)'
         /\ Waiting(t) => Waiting(t)'
         /\ Renewed(t) => Renewed(t)'
         /\ Arrived(t) => Arrived(t)'
  BY DEF Now, Still, Outside, Unarrived, Waiting, Renewed, Arrived

\* The next phase, short of wrapping.
LEMMA NextPhaseValue ==
  ASSUME NEW ph \in Phase
  PROVE  NextPhase(ph) = IF ph + 1 = PhaseSize THEN 0 ELSE ph + 1
<1>1. ph + 1 \in 1 .. PhaseSize /\ PhaseSize \in Nat /\ PhaseSize > 1
  BY WidthAssumption DEF Phase
<1>2. CASE ph + 1 = PhaseSize
  <2>1. PhaseSize % PhaseSize = 0
    BY <1>1
  <2>2. QED BY <1>2, <2>1 DEF NextPhase
<1>3. CASE ph + 1 # PhaseSize
  <2>1. ph + 1 \in 0 .. PhaseSize - 1
    BY <1>1, <1>3 DEF Phase
  <2>2. (ph + 1) % PhaseSize = ph + 1
    BY <1>1, <2>1, ModSmall
  <2>3. QED BY <1>3, <2>2 DEF NextPhase
<1>4. QED BY <1>2, <1>3

\* w is what t has to find for its operation to go on as its client expects.
Ready(t, w) ==
  /\ Old(w)
  /\ ~w.term =>
       /\ op[t] \in ArriveOps => unarrived_of(w) # 0 /\ w.phase = seen[t]
       /\ op[t] = "register" =>
            held[t] = 0 /\ (caller[t][cur[t]] # NoPhaser => w.parties + 1 < CountSize)
       /\ op[t] = "await" => w.phase >= seen[t]

\* A registration of a child is not refused.
LEMMA NoOverflow ==
  ASSUME NEW w \in Word, w.parties + 1 < CountSize
  PROVE  ~Overflows(w, 1)
<1>1. w.parties \in Nat /\ CountSize \in Nat
  BY WidthAssumption DEF Word, Count
<1>2. 1 + w.parties \in 0 .. CountSize - 1
  BY <1>1
<1>3. (1 + w.parties) % CountSize = 1 + w.parties
  BY <1>1, <1>2, ModSmall
<1>4. QED BY <1>1, <1>3 DEF Overflows

\* Where Examine leads.
LEMMA ExamineMoves ==
  ASSUME IInv, NEW t \in Threads, pc[t] # "client", NEW w,
         Examine(t, cur[t], w), UNCHANGED <<op, cur, caller, client, held, left>>
  PROVE  \/ /\ w.term \/ op[t] = "query"
            /\ Move(t, "ret", make(w), NoWord, w)
         \/ /\ ~w.term /\ op[t] \in ArriveOps /\ unarrived_of(w) = 0
         \/ /\ ~w.term /\ op[t] \in ArriveOps
            /\ Move(t, "cas", NoOut, NoWord, w)
         \/ /\ ~w.term /\ op[t] = "await" /\ w.phase = seen[t]
            /\ Move(t, "await", make(w), NoWord, w)
         \/ /\ ~w.term /\ op[t] = "await" /\ w.phase # seen[t]
            /\ Move(t, "ret", make(w), NoWord, w)
         \/ /\ ~w.term /\ op[t] = "term"
            /\ Move(t, "cas", NoOut, NoWord, w)
         \/ /\ ~w.term /\ op[t] = "register" /\ Overflows(w, Registrations(t, cur[t]))
            /\ Move(t, "ret", make_err(w), NoWord, w)
         \/ /\ ~w.term /\ op[t] = "register" /\ cur[t] = Root
            /\ \/ Move(t, "await", make(w), NoWord, w)
               \/ Move(t, "cas", NoOut, NoWord, w)
         \/ /\ ~w.term /\ op[t] = "register" /\ cur[t] # Root
            /\ w.parties # 0 \/ w.pending = 0
            /\ Move(t, "rec2", NoOut, w, w)
         \/ /\ ~w.term /\ op[t] = "register" /\ cur[t] # Root
            /\ w.parties = 0 /\ w.pending # 0
            /\ Move(t, "lock", NoOut, NoWord, w)
<1>1. LocalType /\ cur[t] \in Phasers
  BY InPhaser DEF IInv, LocalInv
<1>2. ASSUME NEW l, NEW o, NEW k, Goto(t, l, o), copy' = [copy EXCEPT ![t] = k]
      PROVE  Move(t, l, o, k, w)
  <2>1. snap' = [snap EXCEPT ![t][cur[t]] = w]
    BY DEF Examine
  <2>2. QED BY <1>1, <1>2, <2>1 DEF Goto, LocalType, Move, client
<1>3. CASE op[t] # "register" \/ w.term
  <2>1. \/ (w.term \/ op[t] = "query") /\ Goto(t, "ret", make(w))
        \/ /\ ~w.term /\ op[t] \in ArriveOps
           /\ \/ unarrived_of(w) = 0
              \/ Goto(t, "cas", NoOut)
        \/ /\ ~w.term /\ op[t] = "await"
           /\ IF w.phase = seen[t] THEN Goto(t, "await", make(w))
                                   ELSE Goto(t, "ret", make(w))
        \/ ~w.term /\ op[t] = "term" /\ Goto(t, "cas", NoOut)
    BY <1>3 DEF Examine, Return
  <2>2. copy' = [copy EXCEPT ![t] = NoWord]
    BY <1>3 DEF Examine
  <2>3. \A l, o : Goto(t, l, o) => Move(t, l, o, NoWord, w)
    BY <1>2, <2>2
  <2>4. QED BY <2>1, <2>3
<1>4. CASE op[t] = "register" /\ ~w.term
  <2>1. ExamineRegister(t, cur[t], w)
    BY <1>4 DEF Examine
  <2>2. \/ /\ Overflows(w, Registrations(t, cur[t]))
           /\ Goto(t, "ret", make_err(w)) /\ copy' = [copy EXCEPT ![t] = NoWord]
        \/ /\ cur[t] = Root /\ copy' = [copy EXCEPT ![t] = NoWord]
           /\ Goto(t, "await", make(w)) \/ Goto(t, "cas", NoOut)
        \/ /\ cur[t] # Root /\ (w.parties # 0 \/ w.pending = 0)
           /\ Goto(t, "rec2", NoOut) /\ copy' = [copy EXCEPT ![t] = w]
        \/ /\ cur[t] # Root /\ w.parties = 0 /\ w.pending # 0
           /\ Goto(t, "lock", NoOut) /\ copy' = [copy EXCEPT ![t] = NoWord]
    BY <2>1 DEF ExamineRegister, WaitOrCas, Return
  <2>3. QED BY <1>2, <1>4, <2>2
<1>5. QED BY <1>3, <1>4

\* What Examine makes of the word it returns.
LEMMA Made ==
  ASSUME NEW w \in Word, Old(w), state[Root] \in Word
  PROVE  /\ make(w).term = w.term /\ make(w).phase = w.phase /\ make(w).cond = "normal"
         /\ make_err(w).term = w.term /\ make_err(w).phase = w.phase
         /\ make_err(w).cond = "erroneous"
         /\ NoOut.term = FALSE /\ NoOut.cond = "normal"
         /\ Old(make(w)) /\ Old(make_err(w)) /\ Old(NoOut) /\ Old(NoWord)
         /\ make(w) \in PhaseType
<1>1. /\ make(w).term = w.term /\ make(w).phase = w.phase /\ make(w).cond = "normal"
      /\ make_err(w).term = w.term /\ make_err(w).phase = w.phase
      /\ make_err(w).cond = "erroneous"
      /\ NoOut.term = FALSE /\ NoOut.phase = 0 /\ NoOut.cond = "normal"
      /\ NoWord.term = FALSE /\ NoWord.phase = 0
  BY DEF make, make_err, NoOut, NoWord, define_state
<1>2. Now \in Nat
  BY WidthAssumption DEF Now, Word, Phase
<1>3. Old(NoOut) /\ Old(NoWord)
  BY <1>1, <1>2 DEF Old
<1>4. Old(make(w)) /\ Old(make_err(w))
  BY <1>1 DEF Old
<1>5. QED BY <1>1, <1>3, <1>4, MakeType

\* A register call of a child finds room for it.
LEMMA ChildFits ==
  ASSUME IInv, Rooted, NEW t \in Threads, Place(t), pc[t] # "client", op[t] = "register",
         caller[t][cur[t]] # NoPhaser, NEW w \in Word, w.parties + 1 < CountSize
  PROVE  ~Overflows(w, Registrations(t, cur[t]))
<1>1. cur[t] # Home[t]
  BY PlaceFacts
<1>2. Registrations(t, cur[t]) = 1
  BY <1>1 DEF Registrations
<1>3. QED BY <1>2, NoOverflow

\* A register call that examines its word.
LEMMA ExamineRegisters ==
  ASSUME IInv, Rooted, NEW t \in Threads, Mine(t), pc[t] \in Trying, op[t] = "register",
         NEW w \in Word, Shaped(w), Ready(t, w), Examine(t, cur[t], w),
         UNCHANGED <<op, cur, caller, client, held, left>>, Still
  PROVE  /\ Mine(t)'
         /\ pc'[t] \notin Entry \cup {"empty"}
         /\ ~w.term /\ caller[t][cur[t]] # NoPhaser => pc'[t] # "ret"
<1>1. /\ pc[t] # "client" /\ Place(t) /\ Joins(t) /\ state[Root] \in Word
      /\ Old(w) /\ cur[t] \in Phasers
  BY InPhaser DEF Trying, Mine, Keeps, Ready
<1>2. \/ w.term /\ Move(t, "ret", make(w), NoWord, w)
      \/ /\ ~w.term /\ Overflows(w, Registrations(t, cur[t]))
         /\ Move(t, "ret", make_err(w), NoWord, w)
      \/ ~w.term /\ cur[t] = Root /\ Move(t, "await", make(w), NoWord, w)
      \/ ~w.term /\ cur[t] = Root /\ Move(t, "cas", NoOut, NoWord, w)
      \/ /\ ~w.term /\ cur[t] # Root /\ (w.parties # 0 \/ w.pending = 0)
         /\ Move(t, "rec2", NoOut, w, w)
      \/ /\ ~w.term /\ cur[t] # Root /\ w.parties = 0 /\ w.pending # 0
         /\ Move(t, "lock", NoOut, NoWord, w)
  BY <1>1, ExamineMoves DEF ArriveOps
<1>3. ~w.term => held[t] = 0 /\ (caller[t][cur[t]] # NoPhaser => w.parties + 1 < CountSize)
  BY DEF Ready
<1>4. role[t] = "out" /\ Outside(t) /\ (~AtHome(t) => held[t] = 0)
  BY <1>1 DEF Joins, Trying
<1>5. ASSUME NEW l, NEW o, NEW k, Move(t, l, o, k, w)
      PROVE  /\ pc'[t] = l /\ out'[t] = o /\ op'[t] = "register" /\ role'[t] = "out"
             /\ held'[t] = held[t] /\ (AtHome(t)' <=> AtHome(t)) /\ Outside(t)'
  <2>1. todo'[t] = todo[t] /\ seen'[t] = seen[t] /\ held'[t] = held[t] /\ left'[t] = left[t]
    BY <1>5 DEF Move
  <2>2. Outside(t)'
    BY <1>4, <2>1, Beliefs
  <2>3. AtHome(t)' <=> AtHome(t)
    BY <1>5 DEF Move, AtHome
  <2>4. QED BY <1>4, <1>5, <2>1, <2>2, <2>3 DEF Move
<1>6. /\ make(w).term = w.term /\ make(w).phase = w.phase /\ make(w).cond = "normal"
      /\ make_err(w).term = w.term /\ make_err(w).cond = "erroneous"
      /\ NoOut.term = FALSE /\ NoOut.cond = "normal"
      /\ Old(make(w)) /\ Old(make_err(w)) /\ Old(NoOut) /\ Old(NoWord)
  BY <1>1, Made
<1>7. ASSUME Joins(t)', op'[t] = "register" PROVE Keeps(t)'
  BY <1>7 DEF Keeps, ArriveOps
<1>8. CASE w.term /\ Move(t, "ret", make(w), NoWord, w)
  <2>0. pc'[t] = "ret" /\ out'[t].term = TRUE
    BY <1>1, <1>5, <1>6, <1>8 DEF Word
  <2>1. Keeps(t)'
    BY <1>4, <1>5, <1>7, <1>8, <2>0 DEF Joins, Entry
  <2>2. Mine(t)'
    <3>1. make(w).term /\ make(w).cond = "normal"
      BY <1>6, <1>8 DEF Word
    <3>2. QED BY <1>1, <1>6, <1>8, <2>1, <3>1, MoveMine
  <2>3. QED BY <1>8, <2>2 DEF Move, Entry
<1>9. CASE /\ ~w.term /\ Overflows(w, Registrations(t, cur[t]))
           /\ Move(t, "ret", make_err(w), NoWord, w)
  <2>1. caller[t][cur[t]] = NoPhaser
    BY <1>1, <1>3, <1>9, ChildFits
  <2>2. Keeps(t)'
    BY <1>4, <1>5, <1>6, <1>7, <1>9 DEF Joins, Entry
  <2>3. Mine(t)'
    BY <1>1, <1>6, <1>9, <2>1, <2>2, MoveMine
  <2>4. QED BY <1>9, <2>1, <2>3 DEF Move, Entry
<1>10. CASE ~w.term /\ Move(t, "await", make(w), NoWord, w)
  <2>1. Keeps(t)'
    BY <1>4, <1>5, <1>6, <1>7, <1>10 DEF Joins, Entry
  <2>2. Mine(t)'
    BY <1>1, <1>6, <1>10, <2>1, MoveMine
  <2>3. QED BY <1>10, <2>2 DEF Move, Entry
<1>11. CASE ~w.term /\ cur[t] = Root /\ Move(t, "cas", NoOut, NoWord, w)
  <2>1. Keeps(t)'
    BY <1>3, <1>4, <1>5, <1>6, <1>7, <1>11 DEF Joins, Trying
  <2>2. Mine(t)'
    BY <1>1, <1>6, <1>11, <2>1, MoveMine
  <2>3. QED BY <1>11, <2>2 DEF Move, Entry
<1>12. CASE /\ ~w.term /\ (w.parties # 0 \/ w.pending = 0)
            /\ Move(t, "rec2", NoOut, w, w)
  <2>1. Keeps(t)'
    BY <1>3, <1>4, <1>5, <1>6, <1>7, <1>12 DEF Joins
  <2>2. Mine(t)'
    BY <1>1, <1>6, <1>12, <2>1, MoveMine
  <2>3. QED BY <1>12, <2>2 DEF Move, Entry
<1>13. CASE /\ ~w.term /\ w.parties = 0 /\ w.pending # 0
            /\ Move(t, "lock", NoOut, NoWord, w)
  <2>1. Keeps(t)'
    BY <1>3, <1>4, <1>5, <1>6, <1>7, <1>13 DEF Joins
  <2>2. w.pending = 1
    BY <1>13, WidthAssumption DEF Shaped, Word, Count
  <2>3. Mine(t)'
    BY <1>1, <1>6, <1>13, <2>1, <2>2, MoveMine
  <2>4. QED BY <1>13, <2>3 DEF Move, Entry
<1>14. QED BY <1>2, <1>8, <1>9, <1>10, <1>11, <1>12, <1>13

\* An arrival, a wait or a visit that examines its word.
LEMMA ExamineOthers ==
  ASSUME IInv, Rooted, NEW t \in Threads, Mine(t), pc[t] \in Trying, op[t] # "register",
         NEW w \in Word, Shaped(w), Ready(t, w), Examine(t, cur[t], w),
         UNCHANGED <<op, cur, caller, client, held, left>>, Still
  PROVE  /\ Mine(t)' /\ pc'[t] # "empty"
         /\ ~w.term /\ op[t] \in ArriveOps => pc'[t] = "cas"
<1>1. /\ pc[t] # "client" /\ op[t] # "none" /\ Place(t) /\ Keeps(t) /\ state[Root] \in Word
      /\ Old(w) /\ cur[t] \in Phasers /\ seen[t] \in Phase
  BY InPhaser DEF Trying, Mine, Ready, Fits, IInv, ClientType
<1>2. \/ w.term /\ Move(t, "ret", make(w), NoWord, w)
      \/ op[t] = "query" /\ Move(t, "ret", make(w), NoWord, w)
      \/ ~w.term /\ op[t] \in ArriveOps /\ Move(t, "cas", NoOut, NoWord, w)
      \/ ~w.term /\ op[t] = "await" /\ w.phase = seen[t] /\ Move(t, "await", make(w), NoWord, w)
      \/ ~w.term /\ op[t] = "await" /\ w.phase # seen[t] /\ Move(t, "ret", make(w), NoWord, w)
      \/ ~w.term /\ op[t] = "term" /\ Move(t, "cas", NoOut, NoWord, w)
  BY <1>1, ExamineMoves DEF Ready
<1>3. /\ make(w).term = w.term /\ make(w).phase = w.phase /\ make(w).cond = "normal"
      /\ NoOut.term = FALSE /\ NoOut.cond = "normal"
      /\ Old(make(w)) /\ Old(NoOut) /\ Old(NoWord)
  BY <1>1, Made
<1>4. ASSUME NEW l, NEW o, NEW k, Move(t, l, o, k, w)
      PROVE  /\ pc'[t] = l /\ out'[t] = o /\ op'[t] = op[t] /\ role'[t] = role[t]
             /\ seen'[t] = seen[t] /\ todo'[t] = todo[t] /\ Now' = Now
             /\ snap'[t][cur[t]] = w /\ cur'[t] = cur[t]
             /\ (AtHome(t)' <=> AtHome(t)) /\ (Outside(t) => Outside(t)')
             /\ (Unarrived(t) => Unarrived(t)') /\ (Waiting(t) => Waiting(t)')
             /\ (Renewed(t) => Renewed(t)') /\ (Arrived(t) => Arrived(t)')
  <2>1. todo'[t] = todo[t] /\ seen'[t] = seen[t] /\ held'[t] = held[t] /\ left'[t] = left[t]
    BY <1>4 DEF Move
  <2>2. AtHome(t)' <=> AtHome(t)
    BY <1>4 DEF Move, AtHome
  <2>3. QED BY <1>4, <2>1, <2>2, Beliefs DEF Move
<1>5. CASE w.term /\ Move(t, "ret", make(w), NoWord, w)
  <2>0. pc'[t] = "ret" /\ out'[t].term = TRUE /\ out'[t].cond = "normal"
    <3>1. pc'[t] = "ret" /\ out'[t] = make(w)
      BY <1>4, <1>5
    <3>2. w.term = TRUE
      BY <1>5 DEF Word
    <3>3. QED BY <1>3, <3>1, <3>2
  <2>1. Keeps(t)'
    <3>1. CASE op[t] \in {"query", "term"}
      BY <1>1, <1>4, <1>5, <2>0, <3>1 DEF Keeps, Rests, ArriveOps
    <3>2. CASE op[t] \in {"arrive", "dereg"}
      BY <1>1, <1>4, <1>5, <2>0, <3>2 DEF Keeps, Arrives, InPhase, ArriveOps, Trying
    <3>3. CASE op[t] = "aaa"
      BY <1>1, <1>4, <1>5, <2>0, <3>3
      DEF Keeps, ArrivesAndWaits, InPhase, ToldNext, ArriveOps, Trying
    <3>4. CASE op[t] = "await"
      BY <1>1, <1>4, <1>5, <2>0, <3>4 DEF Keeps, Awaits, ToldNext, ArriveOps
    <3>5. op[t] \in Ops
      BY DEF IInv, LocalInv, LocalType
    <3>6. QED BY <1>1, <3>1, <3>2, <3>3, <3>4, <3>5 DEF Ops
  <2>2. Mine(t)'
    BY <1>1, <1>3, <1>5, <2>1, MoveMine
  <2>3. QED BY <1>5, <2>2 DEF Move
<1>6. CASE op[t] = "query" /\ Move(t, "ret", make(w), NoWord, w)
  <2>1. Keeps(t)'
    BY <1>1, <1>3, <1>4, <1>6 DEF Keeps, Rests, ArriveOps
  <2>2. Mine(t)'
    BY <1>1, <1>3, <1>6, <2>1, MoveMine
  <2>3. QED BY <1>6, <2>2 DEF Move, ArriveOps
<1>7. CASE ~w.term /\ op[t] \in ArriveOps /\ Move(t, "cas", NoOut, NoWord, w)
  <2>1. InPhase(t)'
    <3>1. w.phase = seen[t]
      BY <1>7 DEF Ready
    <3>2. pc'[t] = "cas" /\ snap'[t][cur'[t]].phase = seen'[t]
      BY <1>4, <1>7, <3>1
    <3>3. QED BY <3>2 DEF InPhase
  <2>2. Keeps(t)'
    <3>1. CASE op[t] \in {"arrive", "dereg"}
      BY <1>1, <1>4, <1>7, <2>1, <3>1 DEF Keeps, Arrives, ArriveOps, Trying
    <3>2. CASE op[t] = "aaa"
      BY <1>1, <1>4, <1>7, <2>1, <3>2 DEF Keeps, ArrivesAndWaits, ToldNext, ArriveOps, Trying
    <3>3. QED BY <1>7, <3>1, <3>2 DEF ArriveOps
  <2>3. Mine(t)'
    BY <1>1, <1>3, <1>7, <2>2, MoveMine DEF ArriveOps
  <2>4. QED BY <1>7, <2>3 DEF Move
<1>8. CASE /\ ~w.term /\ op[t] = "await" /\ w.phase = seen[t]
           /\ Move(t, "await", make(w), NoWord, w)
  <2>1. Keeps(t)'
    BY <1>1, <1>3, <1>4, <1>8 DEF Keeps, Awaits, ToldNext, ArriveOps, Trying
  <2>2. Mine(t)'
    BY <1>1, <1>3, <1>8, <2>1, MoveMine
  <2>3. QED BY <1>8, <2>2 DEF Move, ArriveOps
<1>9. CASE /\ ~w.term /\ op[t] = "await" /\ w.phase # seen[t]
           /\ Move(t, "ret", make(w), NoWord, w)
  <2>1. Waiting(t) /\ role[t] = "arrived"
    BY <1>1, <1>9 DEF Keeps, Awaits, Trying
  <2>2. w.phase \in Int /\ seen[t] \in Int /\ w.phase <= Now /\ w.phase >= seen[t]
        /\ Now \in Int
    BY <1>1, <1>9, WidthAssumption DEF Ready, Old, Word, Phase, Now
  <2>3. Renewed(t) /\ Now = NextPhase(seen[t])
    BY <1>9, <2>1, <2>2 DEF Waiting, Now
  <2>4. Now = seen[t] + 1
    <3>1. NextPhase(seen[t]) = 0 \/ NextPhase(seen[t]) = seen[t] + 1
      BY <1>1, NextPhaseValue
    <3>2. seen[t] >= 0
      BY <1>1, WidthAssumption DEF Phase
    <3>3. Now = 0 \/ Now = seen[t] + 1
      BY <2>3, <3>1
    <3>4. w.phase # seen[t]
      BY <1>9
    <3>5. QED BY <2>2, <3>2, <3>3, <3>4
  <2>5. w.phase = Now
    BY <1>9, <2>2, <2>4
  <2>6. Entered(t)' /\ make(w).phase = NextPhase(seen[t])
    <3>1. out'[t].phase = Now /\ Renewed(t)' /\ Now' = Now
      BY <1>3, <1>4, <1>9, <2>3, <2>5
    <3>2. QED BY <1>3, <2>3, <2>5, <3>1 DEF Entered, Now
  <2>7. Keeps(t)'
    BY <1>1, <1>3, <1>4, <1>9, <2>1, <2>6 DEF Keeps, Awaits, ToldNext, ArriveOps
  <2>8. Mine(t)'
    BY <1>1, <1>3, <1>9, <2>7, MoveMine
  <2>9. QED BY <1>9, <2>8 DEF Move, ArriveOps
<1>10. CASE ~w.term /\ op[t] = "term" /\ Move(t, "cas", NoOut, NoWord, w)
  <2>1. Keeps(t)'
    BY <1>1, <1>3, <1>4, <1>10 DEF Keeps, Rests, ArriveOps
  <2>2. Mine(t)'
    BY <1>1, <1>3, <1>10, <2>1, MoveMine
  <2>3. QED BY <1>10, <2>2 DEF Move, ArriveOps
<1>11. QED BY <1>2, <1>5, <1>6, <1>7, <1>8, <1>9, <1>10

\* Examining a word is a step inside the frame.
LEMMA ExamineMine ==
  ASSUME IInv, Rooted, NEW t \in Threads, Mine(t), pc[t] \in Trying,
         NEW w \in Word, Shaped(w), Ready(t, w), Examine(t, cur[t], w),
         UNCHANGED <<op, cur, caller, client, held, left>>, Still
  PROVE  /\ Mine(t)'
         /\ Live => /\ Steady(t)
                    /\ \A c \in Phasers : LockHeld(t, c)' => LockHeld(t, c)
<1>1. /\ Mine(t)' /\ pc'[t] # "empty"
      /\ op[t] = "register" => pc'[t] \notin Entry
      /\ ~w.term =>
           /\ op[t] \in ArriveOps => pc'[t] = "cas"
           /\ op[t] = "register" /\ caller[t][cur[t]] # NoPhaser => pc'[t] # "ret"
  BY ExamineRegisters, ExamineOthers DEF ArriveOps
<1>2. ASSUME Live
      PROVE  Steady(t) /\ \A c \in Phasers : LockHeld(t, c)' => LockHeld(t, c)
  <2>1. ~w.term /\ pc[t] # "client" /\ Place(t)
    BY <1>2 DEF Ready, Old, Trying, Mine
  <2>2. /\ op'[t] = op[t] /\ cur'[t] = cur[t] /\ caller'[t] = caller[t]
        /\ \A q \in Phasers : q # cur[t] => snap'[t][q] = snap[t][q]
    BY DEF Examine, IInv, LocalInv, LocalType
  <2>3. pc[t] \notin Entry /\ pc[t] # "ret" /\ "cas" \in Trying
    BY DEF Trying, Entry
  <2>4. QED BY <1>1, <2>1, <2>2, <2>3, SteadyMove
<1>3. QED BY <1>1, <1>2

(***************************************************************************)
(* The steps that do not show.                                             *)
(***************************************************************************)

\* The other threads, when t runs Examine or Loop.
LEMMA LoopOthers ==
  ASSUME IInv, NEW t \in Threads, NEW p, NEW w, Loop(t, p, w) \/ Examine(t, p, w),
         UNCHANGED <<op, cur, caller, client>>
  PROVE  \A u \in Threads : u # t => Same(u)
<1>1. LocalType
  BY DEF IInv, LocalInv
<1>2. /\ \E l, o : Goto(t, l, o)
      /\ \E k : copy' = [copy EXCEPT ![t] = k]
      /\ \E k : snap' = [snap EXCEPT ![t][p] = k]
  <2>1. CASE Examine(t, p, w)
    <3>1. CASE op[t] # "register" \/ w.term
      BY <2>1, <3>1 DEF Examine, Return
    <3>2. CASE op[t] = "register" /\ ~w.term
      BY <2>1, <3>2 DEF Examine, ExamineRegister, WaitOrCas, Return
    <3>3. QED BY <3>1, <3>2
  <2>2. QED BY <2>1 DEF Loop
<1>3. QED BY <1>1, <1>2 DEF Goto, LocalType, Same, client

\* A word of the root's phase is ready when it has what the operation wants.
LEMMA ReadyNow ==
  ASSUME IInv, NEW t \in Threads, Mine(t), pc[t] \in Trying, NEW w,
         Old(w), w.phase = Now,
         ~w.term =>
           /\ Live
           /\ op[t] \in ArriveOps => unarrived_of(w) # 0
           /\ op[t] = "register" /\ caller[t][cur[t]] # NoPhaser =>
                w.parties + 1 < CountSize
  PROVE  Ready(t, w)
<1>1. Keeps(t) /\ seen[t] <= Now
  BY DEF Mine, Dated
<1>2. op[t] \in ArriveOps => seen[t] = Now
  BY <1>1 DEF Keeps, Arrives, ArrivesAndWaits, ArriveOps, Unarrived, Now
<1>3. op[t] = "register" /\ Live => held[t] = 0
  BY <1>1 DEF Keeps, Joins, Trying, Outside, Live
<1>4. Now \in Int /\ seen[t] \in Int
  BY TreeAssumption, WidthAssumption DEF IInv, SharedType, ClientType, Word, Phase, Now
<1>5. QED BY <1>1, <1>2, <1>3, <1>4 DEF Ready

\* What t believes when it is sent back to the head of its loop.
LEMMA BackToLoop ==
  ASSUME IInv, NEW t \in Threads, Mine(t), pc[t] \in Trying \cup {"lock"}, Still,
         NEW k, NEW w, Move(t, "rec", NoOut, k, w)
  PROVE  Keeps(t)'
<1>1. /\ pc'[t] = "rec" /\ op'[t] = op[t] /\ role'[t] = role[t] /\ seen'[t] = seen[t]
      /\ held'[t] = held[t] /\ todo'[t] = todo[t] /\ left'[t] = left[t]
      /\ cur'[t] = cur[t]
  BY DEF Move
<1>2. /\ Keeps(t) /\ pc[t] \notin {"client", "ret"} /\ (AtHome(t)' <=> AtHome(t))
      /\ op[t] # "none"
  BY <1>1 DEF Mine, Trying, AtHome, Fits
<1>3. /\ Now' = Now
      /\ (Outside(t) => Outside(t)') /\ (Unarrived(t) => Unarrived(t)')
      /\ (Waiting(t) => Waiting(t)') /\ (Arrived(t) => Arrived(t)')
  BY <1>1, Beliefs
<1>4. pc[t] = "lock" => op[t] = "register"
  BY <1>2 DEF Keeps, Rests, Arrives, ArrivesAndWaits, Awaits, Trying, IInv,
              LocalInv, LocalType, Ops, ArriveOps
<1>5. op[t] \in {"query", "term"} => Rests(t)'
  BY <1>1, <1>2, <1>3 DEF Keeps, Rests
<1>6. op[t] = "register" => Joins(t)'
  BY <1>1, <1>2, <1>3 DEF Keeps, Joins, Trying, Entry, NoOut, make
<1>7. op[t] \in {"arrive", "dereg"} => Arrives(t)'
  BY <1>1, <1>2, <1>3 DEF Keeps, Arrives, Trying
<1>8. op[t] = "aaa" => ArrivesAndWaits(t)'
  BY <1>1, <1>2, <1>3, <1>4 DEF Keeps, ArrivesAndWaits, Trying, ToldNext
<1>9. op[t] = "await" => Awaits(t)'
  BY <1>1, <1>2, <1>3, <1>4 DEF Keeps, Awaits, Trying, ToldNext
<1>10. InPhase(t)'
  BY <1>1 DEF InPhase
<1>11. QED BY <1>1, <1>2, <1>5, <1>6, <1>7, <1>8, <1>9, <1>10 DEF Keeps

\* The head of the loop, with the word that is there.
LEMMA LoopMine ==
  ASSUME IInv, Tree, TreeInv, NEW t \in Threads, pc[t] \in Trying \cup {"lock"},
         Loop(t, cur[t], state[cur[t]]),
         UNCHANGED <<state, op, cur, caller, client, held, left>>
  PROVE  /\ Mine(t)'
         /\ Live => /\ Steady(t)
                    /\ \A c \in Phasers : LockHeld(t, c)' => LockHeld(t, c)
<1> DEFINE p == cur[t]
           w == state[p]
<1>1. /\ Mine(t) /\ Rooted /\ Still /\ pc[t] # "client" /\ p \in Phasers /\ w \in Word
      /\ Shaped(w) /\ Old(w) /\ Fit(t, op[t], p, pc[t], snap[t][p]) /\ state[Root] \in Word
  BY InPhaser DEF TreeInv, Tree, Still, Trying, Now
<1>2. Live => /\ op[t] \in ArriveOps => w.parties # 0 /\ (w.phase = Now => w.pending # 0)
              /\ op[t] = "register" /\ caller[t][p] # NoPhaser => w.parties + 1 < CountSize
  BY Wanted
<1>3. CASE p = Root /\ Examine(t, p, w)
  <2>1. pc[t] \in Trying
    BY <1>1, <1>3 DEF Fit, BelowRoot
  <2>2. Ready(t, w)
    <3>1. w.phase = Now /\ (~w.term => Live)
      BY <1>3 DEF Now, Live
    <3>2. QED BY <1>1, <1>2, <2>1, <3>1, ReadyNow DEF unarrived_of
  <2>3. QED BY <1>1, <1>3, <2>1, <2>2, ExamineMine
<1>4. CASE /\ p # Root
           /\ Goto(t, "rec", NoOut)
           /\ copy' = [copy EXCEPT ![t] = w]
           /\ snap' = [snap EXCEPT ![t][p] = NoWord]
  <2>1. Move(t, "rec", NoOut, w, NoWord)
    BY <1>1, <1>4 DEF Goto, IInv, LocalInv, LocalType, Move, client
  <2>2. Old(NoOut) /\ Old(NoWord)
    BY <1>1, Made
  <2>3. Keeps(t)'
    BY <1>1, <2>1, BackToLoop
  <2>4. Mine(t)'
    BY <1>1, <1>2, <2>1, <2>2, <2>3, MoveMine
  <2>5. op[t] \in ArriveOps => pc[t] \in Trying
    BY <1>1 DEF Mine, Keeps, Arrives, ArrivesAndWaits, ArriveOps, Trying
  <2>6. Steady(t) /\ \A c \in Phasers : LockHeld(t, c)' => LockHeld(t, c)
    <3>1. /\ op'[t] = op[t] /\ cur'[t] = cur[t] /\ caller'[t] = caller[t] /\ pc'[t] = "rec"
          /\ \A q \in Phasers : q # cur[t] => snap'[t][q] = snap[t][q]
      BY <2>1 DEF Move
    <3>2. pc[t] \notin Entry /\ pc[t] # "ret" /\ "rec" \notin Entry /\ "rec" \in Trying
      BY DEF Trying, Entry
    <3>3. QED BY <1>1, <2>5, <3>1, <3>2, SteadyMove DEF Mine
  <2>7. QED BY <2>4, <2>6
<1>5. QED BY <1>3, <1>4 DEF Loop

\* A step of t that stores nothing.
LEMMA Idle ==
  ASSUME TreeInv, NEW t \in Threads, \A u \in Threads : u # t => Same(u),
         UNCHANGED <<state, held, left, touched>>, Live => lock' = lock,
         Mine(t)',
         Live => /\ Steady(t)
                 /\ \A c \in Phasers : LockHeld(t, c)' => LockHeld(t, c)
  PROVE  TreeInv' /\ UNCHANGED Flat!bvars
<1>1. \A p \in Phasers : Old(state[p])'
  BY DEF TreeInv, Old, Now, Live
<1>2. ASSUME Live
      PROVE  /\ \A c \in Phasers : Due(c)' = Due(c)
             /\ \A u \in Threads : Locks(u)'
  <2>1. LiveInv /\ \A u \in Threads : Steady(u)
    BY <1>2, SteadySame DEF TreeInv
  <2>2. ASSUME NEW u \in Threads, NEW c \in Phasers, LockHeld(u, c)' PROVE LockHeld(u, c)
    BY <1>2, <2>2, SteadySame
  <2>3. \A u \in Threads : Locks(u)'
    BY <1>2, <2>1, <2>2 DEF LiveInv, Locks
  <2>4. \A c \in Phasers : Due(c)' = Due(c)
    BY DEF Due, Now
  <2>5. QED BY <2>3, <2>4
<1>3. Lags'
  BY DEF TreeInv, Lags, Now
<1>4. QED BY <1>1, <1>2, <1>3, Calm

\* A step of t inside its frame that stores nothing.
LEMMA IdleMove ==
  ASSUME IInv, Rooted, TreeInv, NEW t \in Threads, pc[t] # "client",
         \A u \in Threads : u # t => Same(u),
         UNCHANGED <<state, lock, held, left, touched>>, Mine(t)',
         NEW l, NEW o, NEW k, NEW w, Move(t, l, o, k, w), l # "empty",
         op[t] \in ArriveOps /\ caller[t][cur[t]] # NoPhaser =>
           (l \in Trying <=> pc[t] \in Trying),
         op[t] = "register" => (l \in Entry <=> pc[t] \in Entry),
         op[t] = "register" /\ caller[t][cur[t]] # NoPhaser =>
           ((l = "ret" /\ ~o.term) <=> (pc[t] = "ret" /\ ~out[t].term))
  PROVE  TreeInv' /\ UNCHANGED Flat!bvars
<1>1. Mine(t) /\ Place(t)
  BY DEF TreeInv, Mine
<1>2. /\ op'[t] = op[t] /\ cur'[t] = cur[t] /\ caller'[t] = caller[t] /\ pc'[t] = l
      /\ out'[t] = o
      /\ \A q \in Phasers : q # cur[t] => snap'[t][q] = snap[t][q]
  BY DEF Move
<1>3. Steady(t) /\ \A c \in Phasers : LockHeld(t, c)' => LockHeld(t, c)
  BY <1>1, <1>2, SteadyMove
<1>4. QED BY <1>3, Idle

\* state.load() at the head of an operation.
LEMMA TreeLoad ==
  ASSUME IInv, Tree, TreeInv, NEW t \in Threads, Load(t)
  PROVE  TreeInv' /\ UNCHANGED Flat!bvars
<1>1. /\ pc[t] \in Trying \cup {"lock"} /\ Loop(t, cur[t], state[cur[t]])
      /\ UNCHANGED <<state, lock, op, cur, caller, client, held, left, touched>>
  BY DEF Load, Trying, shared, ghost
<1>2. \A u \in Threads : u # t => Same(u)
  BY <1>1, LoopOthers
<1>3. /\ Mine(t)'
      /\ Live => /\ Steady(t)
                 /\ \A c \in Phasers : LockHeld(t, c)' => LockHeld(t, c)
  BY <1>1, LoopMine
<1>4. QED BY <1>1, <1>2, <1>3, Idle

\* A compare-and-swap that fails.
LEMMA TreeRetry ==
  ASSUME IInv, Tree, TreeInv, NEW t \in Threads, pc[t] = "cas",
         RetryCas(t, cur[t]), UNCHANGED <<lock, op, client>>
  PROVE  TreeInv' /\ UNCHANGED Flat!bvars
<1>1. /\ UNCHANGED <<state, lock, op, cur, caller, client, held, left, touched>>
      /\ LocalType /\ cur[t] \in Phasers /\ Mine(t) /\ Rooted
      /\ pc[t] \in Trying \cup {"lock"} /\ pc[t] # "client"
  BY InPhaser DEF RetryCas, ghost, IInv, LocalInv, TreeInv, Tree, Trying
<1>2. CASE op[t] # "term" /\ Loop(t, cur[t], state[cur[t]])
  <2>1. \A u \in Threads : u # t => Same(u)
    BY <1>1, <1>2, LoopOthers
  <2>2. /\ Mine(t)'
        /\ Live => /\ Steady(t)
                   /\ \A c \in Phasers : LockHeld(t, c)' => LockHeld(t, c)
    BY <1>1, <1>2, LoopMine
  <2>3. QED BY <1>1, <2>1, <2>2, Idle
<1>3. CASE /\ op[t] = "term" /\ snap' = [snap EXCEPT ![t][cur[t]] = state[cur[t]]]
           /\ UNCHANGED <<pc, out, copy>>
  <2>1. \A u \in Threads : u # t => Same(u)
    BY <1>1, <1>3 DEF Same, LocalType, client
  <2>2. Move(t, "cas", out[t], copy[t], state[cur[t]])
    BY <1>1, <1>3 DEF Move, LocalType, client
  <2>3. Keeps(t)'
    <3>1. Rests(t)
      BY <1>1, <1>3 DEF Mine, Keeps
    <3>2. /\ todo'[t] = todo[t] /\ seen'[t] = seen[t] /\ held'[t] = held[t]
          /\ left'[t] = left[t] /\ role'[t] = role[t]
      BY <2>2 DEF Move
    <3>3. Still
      BY <1>1 DEF Still, Now
    <3>4. Rests(t)'
      BY <1>3, <3>1, <3>2, <3>3, Beliefs DEF Rests
    <3>5. QED BY <1>1, <1>3, <3>4 DEF Keeps, ArriveOps
  <2>4. Mine(t)'
    <3>1. Old(out[t]) /\ Old(copy[t]) /\ Old(state[cur[t]]) /\ Still
      BY <1>1 DEF Mine, Dated, TreeInv, Still, Now
    <3>2. QED BY <1>1, <1>3, <2>2, <2>3, <3>1, MoveMine DEF ArriveOps
  <2>5. QED BY <1>1, <1>3, <2>1, <2>2, <2>4, IdleMove DEF ArriveOps
<1>4. QED BY <1>2, <1>3 DEF RetryCas

\* A wait ends.
LEMMA TreeAwait ==
  ASSUME IInv, Tree, TreeInv, NEW t \in Threads, Await(t)
  PROVE  TreeInv' /\ UNCHANGED Flat!bvars
<1> DEFINE w == state[Root]
           k == copy[t]
           s == snap[t][cur[t]]
<1>1. /\ UNCHANGED <<state, lock, op, cur, caller, snap, copy, client, held, left, touched>>
      /\ pc[t] = "await" /\ pc[t] # "client" /\ Mine(t) /\ Rooted /\ Still
      /\ cur[t] \in Phasers /\ w \in Word /\ out[t] \in PhaseType /\ op[t] \in Ops
  BY InPhaser DEF Await, shared, ghost, TreeInv, Tree, Still, Now, IInv, LocalInv, LocalType
<1>2. LocalType /\ Old(w) /\ Old(k) /\ Old(s) /\ Keeps(t)
  BY <1>1, TreeAssumption DEF IInv, LocalInv, TreeInv, Mine, Dated
<1>3. op[t] \in {"register", "aaa", "await"}
  BY <1>1, <1>2 DEF Keeps, Rests, Arrives, Trying, Mine, Fits, Ops
<1>4. /\ make(w).term = w.term /\ make(w).phase = w.phase /\ make(w).cond = "normal"
      /\ NoOut.term = FALSE /\ NoOut.cond = "normal" /\ Old(make(w)) /\ Old(NoOut)
  BY <1>1, <1>2, Made
<1>5. ASSUME NEW l, NEW o, Goto(t, l, o)
      PROVE  /\ Move(t, l, o, k, s) /\ pc'[t] = l /\ out'[t] = o
             /\ \A u \in Threads : u # t => Same(u)
  BY <1>1, <1>2, <1>5 DEF Goto, LocalType, Move, Same, client
<1>6. CASE op[t] = "register"
  <2>1. Goto(t, "load", NoOut)
    BY <1>6 DEF Await
  <2>2. /\ Move(t, "load", NoOut, k, s) /\ pc'[t] = "load" /\ out'[t] = NoOut
        /\ \A u \in Threads : u # t => Same(u)
    BY <1>5, <2>1
  <2>3. Joins(t)
    BY <1>2, <1>6 DEF Keeps
  <2>4. Joins(t)'
    <3>1. todo'[t] = todo[t] /\ seen'[t] = seen[t] /\ held'[t] = held[t]
          /\ left'[t] = left[t] /\ role'[t] = role[t]
          /\ (AtHome(t)' <=> AtHome(t))
      BY <2>2 DEF Move, AtHome
    <3>2. Outside(t)'
      BY <1>1, <2>3, <3>1, Beliefs DEF Joins
    <3>3. QED BY <1>1, <2>2, <2>3, <3>1, <3>2 DEF Joins, Trying, Entry
  <2>5. Keeps(t)'
    BY <1>1, <1>6, <2>4 DEF Keeps, ArriveOps
  <2>6. Mine(t)'
    BY <1>1, <1>2, <1>4, <2>2, <2>5, MoveMine
  <2>7. "load" \notin Entry /\ pc[t] \notin Entry
    BY <1>1 DEF Entry
  <2>8. QED BY <1>1, <1>6, <2>2, <2>6, <2>7, IdleMove DEF ArriveOps
<1>7. CASE op[t] \in {"aaa", "await"}
  <2>1. Goto(t, "ret", make(w))
    BY <1>7 DEF Await, Return
  <2>2. /\ Move(t, "ret", make(w), k, s) /\ pc'[t] = "ret" /\ out'[t] = make(w)
        /\ \A u \in Threads : u # t => Same(u)
    BY <1>5, <2>1
  <2>3. Waiting(t) /\ ~out[t].term /\ out[t].phase = seen[t]
    BY <1>1, <1>2, <1>7 DEF Keeps, ArrivesAndWaits, Awaits
  <2>4. w.term \/ (Renewed(t) /\ w.phase = NextPhase(seen[t]))
    <3>1. w.term # out[t].term \/ w.phase # seen[t]
      BY <2>3 DEF Await, SamePhase
    <3>2. w.term \in BOOLEAN /\ out[t].term \in BOOLEAN
      BY <1>1 DEF Word, PhaseType
    <3>3. QED BY <2>3, <3>1, <3>2 DEF Waiting
  <2>5. /\ todo'[t] = todo[t] /\ seen'[t] = seen[t] /\ held'[t] = held[t]
        /\ left'[t] = left[t] /\ role'[t] = role[t] /\ op'[t] = op[t]
        /\ state'[Root] = w
    BY <1>1, <2>2 DEF Move
  <2>6. ToldNext(t)'
    BY <1>4, <2>2, <2>4, <2>5 DEF ToldNext, Entered, Renewed
  <2>7. Keeps(t)'
    BY <1>1, <1>2, <1>7, <2>2, <2>5, <2>6
    DEF Keeps, ArrivesAndWaits, Awaits, InPhase, Trying, ArriveOps
  <2>8. Mine(t)'
    BY <1>1, <1>2, <1>4, <1>7, <2>2, <2>7, MoveMine
  <2>9. "ret" \notin Trying /\ pc[t] \notin Trying
    BY <1>1 DEF Trying
  <2>10. QED BY <1>1, <1>7, <2>2, <2>8, <2>9, IdleMove
<1>8. QED BY <1>3, <1>6, <1>7

\* What a registration believes while it is registering a child.
LEMMA JoinsOn ==
  ASSUME NEW t \in Threads, Mine(t), op[t] = "register", Still, held[t] = 0,
         role[t] = "out",
         NEW l \in Entry \cup {"rec2", "rec2Cas", "cas", "load", "await"},
         pc'[t] = l, op'[t] = op[t], role'[t] = role[t], held'[t] = held[t]
  PROVE  Keeps(t)'
<1>1. Outside(t)'
  BY DEF Outside
<1>2. Joins(t)'
  BY <1>1 DEF Joins, Trying, Entry
<1>3. QED BY <1>2 DEF Keeps, ArriveOps

\* Between the registration of a child and its own word.
LEMMA InEntry ==
  ASSUME IInv, NEW t \in Threads, Mine(t), pc[t] \in Entry
  PROVE  op[t] = "register" /\ held[t] = 0 /\ role[t] = "out"
<1>1. Keeps(t) /\ Fits(t) /\ op[t] \in Ops /\ pc[t] # "client"
  BY DEF Mine, IInv, LocalInv, LocalType, Entry
<1>2. op[t] = "register"
  BY <1>1 DEF Keeps, Rests, Arrives, ArrivesAndWaits, Awaits, Fits, Entry, Trying, Ops
<1>3. QED BY <1>1, <1>2 DEF Keeps, Joins, Entry

\* The root's phase is loaded again.
LEMMA TreeCommitLoad ==
  ASSUME IInv, Tree, TreeInv, NEW t \in Threads, CommitLoad(t)
  PROVE  TreeInv' /\ UNCHANGED Flat!bvars
<1> DEFINE w == state[Root]
           k == copy[t]
           s == snap[t][cur[t]]
<1>1. /\ UNCHANGED <<state, lock, op, cur, caller, snap, copy, client, held, left, touched>>
      /\ pc[t] = "commitLoad" /\ pc[t] # "client" /\ Mine(t) /\ Rooted /\ Still
      /\ cur[t] \in Phasers /\ w \in Word /\ Goto(t, "commit", make(w))
  BY InPhaser DEF CommitLoad, shared, ghost, TreeInv, Tree, Still, Now
<1>2. LocalType /\ Old(w) /\ Old(k) /\ Old(s)
  BY <1>1, TreeAssumption DEF IInv, LocalInv, TreeInv, Mine, Dated
<1>3. op[t] = "register" /\ held[t] = 0 /\ role[t] = "out"
  BY <1>1, InEntry DEF Entry
<1>4. /\ make(w).phase = Now /\ make(w).cond = "normal" /\ Old(make(w))
  BY <1>1, <1>2, Made DEF Now
<1>5. /\ Move(t, "commit", make(w), k, s) /\ pc'[t] = "commit"
      /\ \A u \in Threads : u # t => Same(u)
  BY <1>1, <1>2 DEF Goto, LocalType, Move, Same, client
<1>6. Keeps(t)'
  <2>1. op'[t] = op[t] /\ role'[t] = role[t] /\ held'[t] = held[t] /\ cur'[t] = cur[t]
    BY <1>5 DEF Move
  <2>2. QED BY <1>1, <1>3, <1>5, <2>1, JoinsOn DEF Entry
<1>7. Mine(t)'
  BY <1>1, <1>2, <1>4, <1>5, <1>6, MoveMine
<1>8. "commit" \in Entry /\ pc[t] \in Entry
  BY <1>1 DEF Entry
<1>9. QED BY <1>1, <1>3, <1>5, <1>7, <1>8, IdleMove DEF ArriveOps

\* The child's word has changed, or seems to have.
LEMMA TreeCommitFails ==
  ASSUME IInv, Tree, TreeInv, NEW t \in Threads, pc[t] = "commit",
         snap' = [snap EXCEPT ![t][cur[t]] = state[cur[t]]],
         Goto(t, "commitLoad", NoOut),
         UNCHANGED <<shared, held, left, op, cur, caller, copy, client, touched>>
  PROVE  TreeInv' /\ UNCHANGED Flat!bvars
<1> DEFINE k == copy[t]
           s == state[cur[t]]
<1>1. /\ UNCHANGED <<state, lock>>
      /\ pc[t] # "client" /\ Mine(t) /\ Rooted /\ Still /\ cur[t] \in Phasers
      /\ state[Root] \in Word
  BY InPhaser DEF shared, TreeInv, Tree, Still, Now
<1>2. LocalType /\ Old(state[Root]) /\ Old(k) /\ Old(s)
  BY <1>1, TreeAssumption DEF IInv, LocalInv, TreeInv, Mine, Dated
<1>3. op[t] = "register" /\ held[t] = 0 /\ role[t] = "out"
  BY <1>1, InEntry DEF Entry
<1>4. Old(NoOut) /\ NoOut.cond = "normal"
  BY <1>1, <1>2, Made
<1>5. /\ Move(t, "commitLoad", NoOut, k, s) /\ pc'[t] = "commitLoad"
      /\ \A u \in Threads : u # t => Same(u)
  BY <1>1, <1>2 DEF Goto, LocalType, Move, Same, client
<1>6. Keeps(t)'
  <2>1. op'[t] = op[t] /\ role'[t] = role[t] /\ held'[t] = held[t] /\ cur'[t] = cur[t]
    BY <1>5 DEF Move
  <2>2. QED BY <1>1, <1>3, <1>5, <2>1, JoinsOn DEF Entry
<1>7. Mine(t)'
  BY <1>1, <1>2, <1>4, <1>5, <1>6, MoveMine
<1>8. "commitLoad" \in Entry /\ pc[t] \in Entry
  BY <1>1 DEF Entry
<1>9. QED BY <1>1, <1>3, <1>5, <1>7, <1>8, IdleMove DEF ArriveOps

(***************************************************************************)
(* reconcile_state.                                                        *)
(***************************************************************************)

\* The second reconcile_state of do_register returns w.
LEMMA SecondReturns ==
  ASSUME IInv, Tree, TreeInv, NEW t \in Threads, pc[t] \in {"rec2", "rec2Cas"}, Still,
         NEW w \in Word, Old(w), ReconcileReturns(t, cur[t], w),
         UNCHANGED <<op, cur, caller, client, held, left>>
  PROVE  /\ Mine(t)'
         /\ Steady(t) /\ \A c \in Phasers : LockHeld(t, c)' => LockHeld(t, c)
         /\ \A u \in Threads : u # t => Same(u)
<1> DEFINE s == snap[t][cur[t]]
<1>1. /\ pc[t] # "client" /\ Mine(t) /\ Rooted /\ cur[t] \in Phasers
      /\ Fits(t) /\ Place(t) /\ LocalType /\ state[Root] \in Word /\ Old(s)
      /\ Fit(t, op[t], cur[t], pc[t], s)
  BY InPhaser DEF TreeInv, Tree, Mine, IInv, LocalInv, Dated
<1>2. op[t] = "register" /\ held[t] = 0 /\ role[t] = "out"
  <2>1. op[t] = "register"
    BY <1>1 DEF Fit
  <2>2. QED BY <1>1, <2>1 DEF Mine, Keeps, Joins
<1>3. \/ w = s /\ w.pending = 0 /\ Goto(t, "await", make(w))
      \/ w = s /\ w.pending # 0 /\ Goto(t, "cas", NoOut)
      \/ Goto(t, "load", NoOut)
  BY DEF ReconcileReturns, WaitOrCas
<1>4. copy' = [copy EXCEPT ![t] = NoWord] /\ UNCHANGED snap
  BY DEF ReconcileReturns
<1>5. Old(make(w)) /\ Old(NoOut) /\ Old(NoWord)
  BY <1>1, Made
<1>6. ASSUME NEW l \in {"await", "cas", "load"}, NEW o, Goto(t, l, o), Old(o),
             l = "cas" => s.parties # 0
      PROVE  /\ Mine(t)'
             /\ Steady(t) /\ \A c \in Phasers : LockHeld(t, c)' => LockHeld(t, c)
             /\ \A u \in Threads : u # t => Same(u)
  <2>1. /\ Move(t, l, o, NoWord, s) /\ pc'[t] = l
        /\ \A u \in Threads : u # t => Same(u)
    BY <1>1, <1>4, <1>6 DEF Goto, LocalType, Move, Same, client
  <2>2. Keeps(t)'
    <3>1. op'[t] = op[t] /\ role'[t] = role[t] /\ held'[t] = held[t] /\ cur'[t] = cur[t]
      BY <2>1 DEF Move
    <3>2. QED BY <1>1, <1>2, <2>1, <3>1, JoinsOn
  <2>3. Mine(t)'
    BY <1>1, <1>5, <1>6, <2>1, <2>2, MoveMine
  <2>4. /\ op'[t] = op[t] /\ cur'[t] = cur[t] /\ caller'[t] = caller[t]
        /\ \A q \in Phasers : q # cur[t] => snap'[t][q] = snap[t][q]
    BY <2>1 DEF Move
  <2>5. /\ l \notin Entry /\ pc[t] \notin Entry
    BY DEF Entry
  <2>6. QED BY <1>1, <1>2, <2>1, <2>3, <2>4, <2>5, SteadyMove DEF ArriveOps
<1>7. w = s /\ w.pending # 0 => s.parties # 0
  BY <1>1 DEF Fits
<1>8. QED BY <1>3, <1>5, <1>6, <1>7

\* reconcile_state finds the phaser up to date.
LEMMA TreeUpToDate ==
  ASSUME IInv, Tree, TreeInv, NEW t \in Threads, pc[t] \in {"rec", "rec2"},
         SamePhase(state[Root], copy[t]), ReconcileReturns(t, cur[t], copy[t]),
         UNCHANGED <<shared, op, cur, caller, client, ghost>>
  PROVE  TreeInv' /\ UNCHANGED Flat!bvars
<1> DEFINE w == copy[t]
<1>1. /\ pc[t] # "client" /\ Mine(t) /\ Rooted /\ Still /\ w \in Word /\ Shaped(w) /\ Old(w)
      /\ UNCHANGED <<state, lock, held, left, touched>> /\ Heard(t)
  BY InPhaser DEF TreeInv, Tree, Mine, Dated, Still, Now, shared, ghost
<1>2. CASE pc[t] = "rec"
  <2>1. Examine(t, cur[t], w) /\ pc[t] \in Trying
    BY <1>2 DEF ReconcileReturns, Trying
  <2>2. Ready(t, w)
    <3>1. w.phase = Now /\ (~w.term => Live)
      BY DEF SamePhase, Now, Live
    <3>2. Live =>
           /\ op[t] \in ArriveOps => w.parties # 0 /\ (w.phase = Now => w.pending # 0)
           /\ op[t] = "register" /\ caller[t][cur[t]] # NoPhaser => w.parties + 1 < CountSize
      BY <1>1, <1>2 DEF Heard
    <3>3. QED BY <1>1, <2>1, <3>1, <3>2, ReadyNow DEF unarrived_of
  <2>3. /\ Mine(t)'
        /\ Live => /\ Steady(t)
                   /\ \A c \in Phasers : LockHeld(t, c)' => LockHeld(t, c)
    BY <1>1, <2>1, <2>2, ExamineMine
  <2>4. \A u \in Threads : u # t => Same(u)
    BY <2>1, LoopOthers
  <2>5. QED BY <1>1, <2>3, <2>4, Idle
<1>3. CASE pc[t] = "rec2"
  <2>1. /\ Mine(t)'
        /\ Steady(t) /\ \A c \in Phasers : LockHeld(t, c)' => LockHeld(t, c)
        /\ \A u \in Threads : u # t => Same(u)
    BY <1>1, <1>3, SecondReturns
  <2>2. QED BY <1>1, <2>1, Idle
<1>4. QED BY <1>2, <1>3

\* What t believes when its phaser has to catch up with the root.
LEMMA CatchUp ==
  ASSUME IInv, NEW t \in Threads, Mine(t), pc[t] = "rec", Still,
         NEW k, NEW s, Move(t, "recCas", make(state[Root]), k, s)
  PROVE  Keeps(t)'
<1> DEFINE o == make(state[Root])
<1>1. /\ pc'[t] = "recCas" /\ op'[t] = op[t] /\ role'[t] = role[t] /\ seen'[t] = seen[t]
      /\ held'[t] = held[t] /\ todo'[t] = todo[t] /\ left'[t] = left[t]
      /\ cur'[t] = cur[t] /\ out'[t] = o
  BY DEF Move
<1>2. /\ Keeps(t) /\ (AtHome(t)' <=> AtHome(t)) /\ op[t] # "none" /\ seen[t] <= Now
  BY <1>1 DEF Mine, AtHome, Fits, Dated
<1>3. /\ Now' = Now
      /\ (Outside(t) => Outside(t)') /\ (Unarrived(t) => Unarrived(t)')
      /\ (Waiting(t) => Waiting(t)') /\ (Arrived(t) => Arrived(t)')
  BY <1>1, Beliefs
<1>4. o.phase = Now /\ (~o.term => Live)
  BY DEF make, Now, Live
<1>5. op[t] \in {"query", "term"} => Rests(t)'
  BY <1>1, <1>2, <1>3 DEF Keeps, Rests
<1>6. op[t] = "register" => Joins(t)'
  <2> SUFFICES ASSUME op[t] = "register" PROVE Joins(t)'
    OBVIOUS
  <2>1. /\ role[t] = "out" /\ Outside(t) /\ (~AtHome(t) => held[t] = 0)
    BY <1>2 DEF Keeps, Joins
  <2>2. ~o.term => held[t] = 0
    BY <1>4, <2>1 DEF Outside, Live
  <2>3. QED BY <1>1, <1>2, <1>3, <2>1, <2>2 DEF Joins, Trying, Entry
<1>7. op[t] \in {"arrive", "dereg"} => Arrives(t)'
  BY <1>1, <1>2, <1>3 DEF Keeps, Arrives, Trying
<1>8. op[t] = "aaa" => ArrivesAndWaits(t)'
  BY <1>1, <1>2, <1>3 DEF Keeps, ArrivesAndWaits, Trying, ToldNext
<1>9. op[t] = "await" => Awaits(t)'
  <2> SUFFICES ASSUME op[t] = "await" PROVE Awaits(t)'
    OBVIOUS
  <2>1. role[t] = "arrived" /\ Waiting(t)
    BY <1>2 DEF Keeps, Awaits
  <2>2. out'[t].phase >= seen'[t]
    <3>1. Now \in Int /\ seen[t] \in Int
      BY TreeAssumption, WidthAssumption DEF IInv, SharedType, ClientType, Word, Phase, Now
    <3>2. QED BY <1>1, <1>2, <1>4, <3>1
  <2>3. QED BY <1>1, <1>3, <2>1, <2>2 DEF Awaits, ToldNext
<1>10. op[t] \in ArriveOps => InPhase(t)'
  <2>1. op[t] \in ArriveOps => seen[t] = Now
    BY <1>2 DEF Keeps, Arrives, ArrivesAndWaits, ArriveOps, Unarrived, Now, Trying
  <2>2. QED BY <1>1, <1>4, <2>1 DEF InPhase
<1>11. QED BY <1>1, <1>2, <1>5, <1>6, <1>7, <1>8, <1>9, <1>10 DEF Keeps

\* reconcile_state finds the root elsewhere.
LEMMA TreeBehind ==
  ASSUME IInv, Tree, TreeInv, NEW t \in Threads, pc[t] \in {"rec", "rec2"},
         ~SamePhase(state[Root], copy[t]),
         Goto(t, IF pc[t] = "rec" THEN "recCas" ELSE "rec2Cas", make(state[Root])),
         UNCHANGED <<snap, copy, shared, op, cur, caller, client, ghost>>
  PROVE  TreeInv' /\ UNCHANGED Flat!bvars
<1> DEFINE w == state[Root]
           o == make(w)
           k == copy[t]
           s == snap[t][cur[t]]
           l == IF pc[t] = "rec" THEN "recCas" ELSE "rec2Cas"
<1>1. /\ pc[t] # "client" /\ Mine(t) /\ Rooted /\ Still /\ k \in Word /\ w \in Word
      /\ UNCHANGED <<state, lock, held, left, touched>> /\ cur[t] \in Phasers
      /\ Fit(t, op[t], cur[t], pc[t], s)
  BY InPhaser DEF TreeInv, Tree, Still, Now, shared, ghost
<1>2. LocalType /\ Old(w) /\ Old(k) /\ Old(s) /\ Fits(t) /\ Heard(t)
  BY <1>1, TreeAssumption DEF IInv, LocalInv, TreeInv, Mine, Dated
<1>3. o.phase = Now /\ o.term = w.term /\ o.cond = "normal" /\ Old(o)
  BY <1>1, <1>2, Made DEF Now
<1>4. ~o.term => ~k.term /\ k.phase < o.phase
  <2>1. ASSUME ~o.term PROVE ~k.term /\ k.phase # Now
    BY <1>1, <1>2, <1>3, <2>1 DEF SamePhase, Old, Live, Now, Word
  <2>2. k.phase \in Int /\ Now \in Int /\ k.phase <= Now
    BY <1>1, <1>2, WidthAssumption DEF Old, Word, Phase, Now
  <2>3. QED BY <1>3, <2>1, <2>2
<1>5. /\ Move(t, l, o, k, s) /\ pc'[t] = l
      /\ \A u \in Threads : u # t => Same(u)
  BY <1>1, <1>2 DEF Goto, LocalType, Move, Same, client
<1>6. CASE pc[t] = "rec"
  <2>1. Move(t, "recCas", o, k, s)
    BY <1>5, <1>6
  <2>2. Keeps(t)'
    BY <1>1, <1>6, <2>1, CatchUp
  <2>3. ~o.term =>
           /\ op[t] \in ArriveOps => k.parties # 0 /\ (k.phase = Now => k.pending # 0)
           /\ op[t] = "register" /\ caller[t][cur[t]] # NoPhaser => k.parties + 1 < CountSize
    BY <1>2, <1>3, <1>6 DEF Heard, Live
  <2>4. Mine(t)'
    BY <1>1, <1>2, <1>3, <1>4, <2>1, <2>2, <2>3, MoveMine
  <2>5. pc[t] \in Trying /\ "recCas" \in Trying /\ pc[t] \notin Entry /\ "recCas" \notin Entry
    BY <1>6 DEF Trying, Entry
  <2>6. QED BY <1>1, <1>5, <1>6, <2>1, <2>4, <2>5, IdleMove
<1>7. CASE pc[t] = "rec2"
  <2>1. Move(t, "rec2Cas", o, k, s) /\ op[t] = "register"
    BY <1>1, <1>5, <1>7 DEF Fit
  <2>2. held[t] = 0 /\ role[t] = "out"
    BY <1>1, <1>7, <2>1 DEF Mine, Keeps, Joins
  <2>3. Keeps(t)'
    <3>1. op'[t] = op[t] /\ role'[t] = role[t] /\ held'[t] = held[t] /\ cur'[t] = cur[t]
          /\ pc'[t] = "rec2Cas"
      BY <2>1 DEF Move
    <3>2. QED BY <1>1, <2>1, <2>2, <3>1, JoinsOn
  <2>4. s.parties # 0 \/ s.pending = 0
    BY <1>2, <1>7 DEF Fits
  <2>5. Mine(t)'
    BY <1>1, <1>2, <1>3, <1>4, <2>1, <2>3, <2>4, MoveMine
  <2>6. pc[t] \notin Entry /\ "rec2Cas" \notin Entry
    BY <1>7 DEF Entry
  <2>7. QED BY <1>1, <1>5, <1>7, <2>1, <2>5, <2>6, IdleMove DEF ArriveOps
<1>8. QED BY <1>6, <1>7

\* reconcile_state loads the root's phase.
LEMMA TreeReconcileLoad ==
  ASSUME IInv, Tree, TreeInv, NEW t \in Threads, ReconcileLoad(t)
  PROVE  TreeInv' /\ UNCHANGED Flat!bvars
  BY TreeUpToDate, TreeBehind DEF ReconcileLoad

\* reconcile_state's compare-and-swap fails.
LEMMA TreeReconcileFails ==
  ASSUME IInv, Tree, TreeInv, NEW t \in Threads, pc[t] \in {"recCas", "rec2Cas"},
         copy' = [copy EXCEPT ![t] = state[cur[t]]],
         Goto(t, IF pc[t] = "recCas" THEN "rec" ELSE "rec2", NoOut),
         UNCHANGED <<state, snap, lock, op, cur, caller, client, ghost>>
  PROVE  TreeInv' /\ UNCHANGED Flat!bvars
<1> DEFINE k == state[cur[t]]
           s == snap[t][cur[t]]
<1>1. /\ pc[t] # "client" /\ Mine(t) /\ Rooted /\ Still /\ k \in Word /\ cur[t] \in Phasers
      /\ UNCHANGED <<held, left, touched>> /\ state[Root] \in Word
      /\ Fit(t, op[t], cur[t], pc[t], s)
  BY InPhaser DEF TreeInv, Tree, Still, Now, ghost
<1>2. LocalType /\ Old(state[Root]) /\ Old(k) /\ Old(s) /\ Fits(t)
  BY <1>1, TreeAssumption DEF IInv, LocalInv, TreeInv, Mine, Dated
<1>3. Old(NoOut) /\ NoOut.cond = "normal" /\ NoOut.term = FALSE
  BY <1>1, <1>2, Made
<1>4. \A u \in Threads : u # t => Same(u)
  BY <1>1, <1>2 DEF Goto, LocalType, Same, client
<1>5. CASE pc[t] = "recCas"
  <2>1. Move(t, "rec", NoOut, k, s)
    BY <1>1, <1>2, <1>5 DEF Goto, LocalType, Move, client
  <2>2. pc[t] \in Trying \cup {"lock"} /\ pc[t] \in Trying \cup {"lock"} /\ "rec" \in Trying
        /\ pc[t] \notin Entry /\ "rec" \notin Entry /\ pc[t] \in Trying
    BY <1>5 DEF Trying, Entry
  <2>3. Keeps(t)'
    BY <1>1, <2>1, <2>2, BackToLoop
  <2>4. Live =>
           /\ op[t] \in ArriveOps => k.parties # 0 /\ (k.phase = Now => k.pending # 0)
           /\ op[t] = "register" /\ caller[t][cur[t]] # NoPhaser => k.parties + 1 < CountSize
    BY <2>2, Wanted
  <2>5. Mine(t)'
    BY <1>1, <1>2, <1>3, <2>1, <2>3, <2>4, MoveMine
  <2>6. QED BY <1>1, <1>4, <1>5, <2>1, <2>2, <2>5, IdleMove
<1>6. CASE pc[t] = "rec2Cas"
  <2>1. Move(t, "rec2", NoOut, k, s) /\ op[t] = "register"
    BY <1>1, <1>2, <1>6 DEF Goto, LocalType, Move, client, Fit
  <2>2. held[t] = 0 /\ role[t] = "out"
    BY <1>1, <1>6, <2>1 DEF Mine, Keeps, Joins
  <2>3. Keeps(t)'
    <3>1. op'[t] = op[t] /\ role'[t] = role[t] /\ held'[t] = held[t] /\ cur'[t] = cur[t]
          /\ pc'[t] = "rec2"
      BY <2>1 DEF Move
    <3>2. QED BY <1>1, <2>1, <2>2, <3>1, JoinsOn
  <2>4. s.parties # 0 \/ s.pending = 0
    BY <1>2, <1>6 DEF Fits
  <2>5. Mine(t)'
    BY <1>1, <1>2, <1>3, <2>1, <2>3, <2>4, MoveMine
  <2>6. pc[t] \notin Entry /\ "rec2" \notin Entry
    BY <1>6 DEF Entry
  <2>7. QED BY <1>1, <1>4, <1>6, <2>1, <2>5, <2>6, IdleMove DEF ArriveOps
<1>7. QED BY <1>5, <1>6

\* The word that reconcile_state stores.
LEMMA ReconciledIs ==
  ASSUME NEW k \in Word, NEW o \in PhaseType
  PROVE  LET w == Reconciled(k, o)
         IN  /\ w.phase = o.phase /\ w.term = o.term
             /\ ~o.term => /\ w.parties = k.parties
                           /\ w.pending = IF k.parties = 0 THEN 1 ELSE k.parties
<1>1. 0 \in Count /\ 1 \in Count /\ k.parties \in Count /\ k.pending \in Count
  BY WidthAssumption DEF Word, Count
<1>2. \A a, b \in Count : to_state(o, a, b) =
        [term |-> o.term, phase |-> o.phase, parties |-> a, pending |-> b]
  BY ToStateOut
<1>3. QED BY <1>1, <1>2 DEF Reconciled

\* A child that reconcile_state may move on is one whose arrivals the root
\* has counted: no arrival is lost, none is invented.
LEMMA TreeReconciles ==
  ASSUME IInv, Tree, TreeInv, NEW t \in Threads, pc[t] \in {"recCas", "rec2Cas"},
         state[cur[t]] = copy[t],
         state' = [state EXCEPT ![cur[t]] = Reconciled(copy[t], out[t])],
         ReconcileReturns(t, cur[t], Reconciled(copy[t], out[t])),
         UNCHANGED <<lock, op, cur, caller, client, ghost>>
  PROVE  TreeInv' /\ UNCHANGED Flat!bvars
<1> DEFINE p == cur[t]
           k == copy[t]
           o == out[t]
           w == Reconciled(k, o)
<1>1. /\ pc[t] # "client" /\ Mine(t) /\ Rooted /\ k \in Word /\ Shaped(k) /\ p \in Phasers
      /\ o \in PhaseType /\ state[Root] \in Word /\ p # Root
      /\ UNCHANGED <<held, left, touched>>
  BY InPhaser DEF TreeInv, Tree, ghost, Fit, BelowRoot
<1>2. /\ state \in [Phasers -> Word] /\ Root \in Phasers /\ Old(o) /\ Fits(t) /\ Heard(t)
      /\ Keeps(t)
  BY <1>1, TreeAssumption DEF IInv, SharedType, Mine, Dated
<1>3. /\ w \in Word /\ Shaped(w) /\ w.phase = o.phase /\ w.term = o.term
      /\ ~o.term => w.parties = k.parties /\ w.pending = IF k.parties = 0 THEN 1 ELSE k.parties
  BY <1>1, ReconciledWord, ReconciledIs
<1> HIDE DEF w
<1>4. /\ state'[p] = w /\ \A q \in Phasers : q # p => state'[q] = state[q]
      /\ state'[Root] = state[Root] /\ Still
  BY <1>1, <1>2 DEF Still, Now, w
<1>5. Old(w)
  BY <1>2, <1>3 DEF Old
<1>6. ReconcileReturns(t, p, w)
  BY DEF w
<1>7. /\ Mine(t)' /\ \A u \in Threads : u # t => Same(u)
      /\ Live => Steady(t) /\ \A c \in Phasers : LockHeld(t, c)' => LockHeld(t, c)
  <2>1. CASE pc[t] = "recCas"
    <3>1. Examine(t, p, w) /\ pc[t] \in Trying
      BY <1>6, <2>1 DEF ReconcileReturns, Trying
    <3>2. Ready(t, w)
      <4> SUFFICES ASSUME ~w.term
                   PROVE  /\ op[t] \in ArriveOps => unarrived_of(w) # 0 /\ w.phase = seen[t]
                          /\ op[t] = "register" =>
                               held[t] = 0 /\ (caller[t][p] # NoPhaser => w.parties + 1 < CountSize)
                          /\ op[t] = "await" => w.phase >= seen[t]
        BY <1>5 DEF Ready
      <4>1. op[t] \in ArriveOps => unarrived_of(w) # 0
        BY <1>2, <1>3, <2>1 DEF Heard, unarrived_of
      <4>2. op[t] \in ArriveOps => w.phase = seen[t]
        BY <1>2, <1>3, <2>1 DEF Keeps, InPhase
      <4>3. op[t] = "register" => held[t] = 0
        BY <1>2, <1>3, <2>1 DEF Keeps, Joins
      <4>4. op[t] = "register" /\ caller[t][p] # NoPhaser => w.parties + 1 < CountSize
        BY <1>2, <1>3, <2>1 DEF Heard
      <4>5. op[t] = "await" => w.phase >= seen[t]
        BY <1>2, <1>3, <2>1 DEF Keeps, Awaits
      <4>6. QED BY <4>1, <4>2, <4>3, <4>4, <4>5
    <3>3. UNCHANGED <<op, cur, caller, client, held, left>>
      BY <1>1
    <3>4. QED BY <1>1, <1>3, <1>4, <3>1, <3>2, <3>3, ExamineMine, LoopOthers
  <2>2. CASE pc[t] = "rec2Cas"
    BY <1>1, <1>3, <1>4, <1>5, <1>6, <2>2, SecondReturns
  <2>3. QED BY <2>1, <2>2
<1>8. ASSUME NEW q \in Phasers PROVE Old(state[q])'
  <2>1. Old(state'[q])
    BY <1>4, <1>5 DEF TreeInv
  <2>2. QED BY <1>4, <2>1 DEF Old, Now, Live
<1>9. ASSUME ~o.term
      PROVE  /\ k.phase # Now /\ k.phase < Now
             /\ k.parties # 0 => w.phase = Now /\ k.pending = 0
             /\ w.parties = k.parties /\ w.pending = IF k.parties = 0 THEN 1 ELSE k.parties
  <2>1. Lags /\ ~k.term /\ k.phase < o.phase /\ o.phase <= Now
    BY <1>2, <1>9 DEF TreeInv, Fits, Old
  <2>2. k.phase \in Int /\ o.phase \in Int /\ Now \in Int
    BY <1>1, WidthAssumption DEF Word, PhaseType, Phase, Now
  <2>3. k.phase # Now /\ k.phase < Now
    BY <2>1, <2>2
  <2>4. k.parties # 0 => w.phase = Now /\ k.pending = 0
    <3>1. k.parties # 0 => k.pending = 0 /\ Now = k.phase + 1
      BY <1>1, <2>1, <2>3 DEF Lags
    <3>2. QED BY <1>3, <2>1, <2>2, <3>1
  <2>5. QED BY <1>3, <1>9, <2>3, <2>4
<1>10. Lags'
  <2>1. Now' = Now
    BY <1>4 DEF Now
  <2>2. ASSUME NEW c \in Phasers
        PROVE  \/ state'[c].phase = Now'
               \/ state'[c].parties = 0
               \/ state'[c].pending = 0 /\ Now' = state'[c].phase + 1
    <3>1. CASE c = p /\ o.term
      <4>1. o.phase = Now
        BY <1>2, <3>1 DEF Old
      <4>2. QED BY <1>3, <1>4, <2>1, <3>1, <4>1
    <3>2. CASE c = p /\ ~o.term
      BY <1>4, <1>9, <2>1, <3>2
    <3>3. CASE c # p
      BY <1>4, <2>1, <3>3 DEF TreeInv, Lags
    <3>4. QED BY <3>1, <3>2, <3>3
  <2>3. QED BY <2>2 DEF Lags
<1>11. ASSUME Live
       PROVE  /\ \A c \in Phasers : state'[c].parties = state[c].parties /\ Due(c)' = Due(c)
              /\ \A u \in Threads : Locks(u)'
              /\ \A u \in Threads, c \in Phasers :
                   Passed(u, c)' /\ snap[u][c].phase = Now => state'[c] = state[c]
  <2>1. LiveInv /\ ~o.term
    BY <1>2, <1>11 DEF TreeInv, Old
  <2>3. k.phase # Now /\ k.phase < Now
    BY <1>9, <2>1
  <2>4. k.parties # 0 => w.phase = Now /\ k.pending = 0
    BY <1>9, <2>1
  <2>5. w.parties = k.parties /\ w.pending = IF k.parties = 0 THEN 1 ELSE k.parties
    BY <1>9, <2>1
  <2>6. Now' = Now
    BY <1>4 DEF Now
  <2>7. Due(p)' = Due(p)
    <3>1. Due(p) = k.parties
      BY <1>1, <2>3 DEF Due
    <3>2. Due(p)' = IF w.parties = 0 THEN 0 ELSE IF w.phase = Now THEN w.pending ELSE w.parties
      BY <1>4, <2>6 DEF Due
    <3>3. QED BY <2>4, <2>5, <3>1, <3>2
  <2>8. ASSUME NEW c \in Phasers
        PROVE  state'[c].parties = state[c].parties /\ Due(c)' = Due(c)
    <3>1. CASE c = p
      BY <1>4, <2>5, <2>7, <3>1
    <3>2. CASE c # p
      BY <1>4, <2>6, <3>2 DEF Due
    <3>3. QED BY <3>1, <3>2
  <2>10. ASSUME NEW u \in Threads, NEW c \in Phasers
         PROVE  /\ LockHeld(u, c)' => LockHeld(u, c)
                /\ Passed(u, c)' => Passed(u, c)
    BY <1>7, <1>11, SteadySame DEF Steady
  <2>11. \A u \in Threads : Locks(u)'
    <3>1. ASSUME NEW u \in Threads, NEW c \in Phasers, LockHeld(u, c)'
          PROVE  lock'[c] = u /\ state'[c].parties = 0 /\ state'[c].pending = 1
      <4>1. lock[c] = u /\ state[c].parties = 0 /\ state[c].pending = 1
        BY <2>1, <2>10, <3>1 DEF LiveInv, Locks
      <4>2. QED BY <1>4, <2>5, <4>1
    <3>2. QED BY <3>1 DEF Locks
  <2>12. ASSUME NEW u \in Threads, NEW c \in Phasers, Passed(u, c)', snap[u][c].phase = Now
         PROVE  state'[c] = state[c]
    <3>1. state[c] = snap[u][c]
      BY <2>1, <2>10, <2>12 DEF LiveInv, Finish
    <3>2. c # p
      BY <2>3, <2>12, <3>1
    <3>3. QED BY <1>4, <3>2
  <2>13. QED BY <2>8, <2>11, <2>12
<1>12. QED BY <1>1, <1>4, <1>7, <1>8, <1>10, <1>11, Calm

\* reconcile_state's compare-and-swap.
LEMMA TreeReconcileCas ==
  ASSUME IInv, Tree, TreeInv, NEW t \in Threads, ReconcileCas(t)
  PROVE  TreeInv' /\ UNCHANGED Flat!bvars
<1>1. pc[t] \in {"recCas", "rec2Cas"} /\ UNCHANGED <<lock, op, cur, caller, client, ghost>>
  BY DEF ReconcileCas
<1>2. CASE /\ state[cur[t]] = copy[t]
           /\ state' = [state EXCEPT ![cur[t]] = Reconciled(copy[t], out[t])]
           /\ ReconcileReturns(t, cur[t], Reconciled(copy[t], out[t]))
  BY <1>1, <1>2, TreeReconciles
<1>3. CASE /\ copy' = [copy EXCEPT ![t] = state[cur[t]]]
           /\ Goto(t, IF pc[t] = "recCas" THEN "rec" ELSE "rec2", NoOut)
           /\ UNCHANGED <<state, snap>>
  BY <1>1, <1>3, TreeReconcileFails
<1>4. QED BY <1>2, <1>3 DEF ReconcileCas

(***************************************************************************)
(* From a phaser to its parent and back.                                   *)
(***************************************************************************)

\* t calls the same operation of the parent, w being its s here.
Climb(t, w) ==
  /\ pc'[t] = "load" /\ out'[t] = NoOut /\ cur'[t] = Parent[cur[t]]
  /\ caller'[t] = [caller[t] EXCEPT ![Parent[cur[t]]] = cur[t]]
  /\ op'[t] = op[t] /\ copy'[t] = copy[t] /\ snap'[t][cur[t]] = w
  /\ \A q \in Phasers : q # cur[t] => snap'[t][q] = snap[t][q]
  /\ role'[t] = role[t] /\ todo'[t] = todo[t] /\ seen'[t] = seen[t]

\* The path of frames is then one longer.
LEMMA ClimbPlace ==
  ASSUME IInv, Rooted, NEW t \in Threads, Place(t), pc[t] # "client",
         op[t] = "register" \/ op[t] \in ArriveOps, cur[t] # Root,
         NEW w, Climb(t, w)
  PROVE  /\ Place(t)'
         /\ \A c \in Phasers : Called(t, c)' <=> (Called(t, c) \/ c = cur[t])
         /\ cur'[t] \in Phasers /\ caller'[t][cur'[t]] = cur[t]
         /\ cur'[t] # Home[t]
<1> DEFINE p == cur[t]
           r == Parent[p]
<1>1. /\ p \in Phasers /\ Home[t] \in Phasers /\ r \in Phasers /\ r # p
      /\ Depth[p] \in Nat /\ Depth[r] \in Nat /\ Depth[p] = Depth[r] + 1
      /\ p # NoPhaser /\ caller[t] \in [Phasers -> Phasers \cup {NoPhaser}]
  <2>1. p \in Phasers /\ Home[t] \in Phasers /\ p # NoPhaser
    BY PlaceFacts, TreeAssumption
  <2>2. r \in Phasers /\ Depth[p] = Depth[r] + 1 /\ Depth[p] \in Nat /\ Depth[r] \in Nat
    BY <2>1, DepthType
  <2>3. QED BY <2>1, <2>2 DEF IInv, LocalInv, LocalType
<1>2. \A q \in Phasers : caller[t][q] # NoPhaser =>
        /\ Parent[caller[t][q]] = q
        /\ q = p \/ (Depth[p] < Depth[q] /\ Called(t, q))
  BY DEF Place
<1>3. caller[t][r] = NoPhaser
  BY <1>1, <1>2
<1>4. /\ cur'[t] = r /\ op'[t] = op[t] /\ caller'[t][r] = p
      /\ \A q \in Phasers : q # r => caller'[t][q] = caller[t][q]
  BY <1>1 DEF Climb
<1>5. ASSUME NEW q \in Phasers, q # Root
      PROVE  Parent[q] \in Phasers /\ Depth[q] = Depth[Parent[q]] + 1 /\ Depth[Parent[q]] \in Nat
  BY <1>5, DepthType
<1>6. ASSUME NEW c \in Phasers PROVE Called(t, c)' <=> (Called(t, c) \/ c = p)
  <2>1. CASE c = Root
    BY <2>1 DEF Called
  <2>2. CASE c # Root /\ Parent[c] = r
    <3>1. c # NoPhaser
      BY TreeAssumption
    <3>2. QED BY <1>3, <1>4, <2>2, <3>1 DEF Called
  <2>3. CASE c # Root /\ Parent[c] # r
    BY <1>4, <1>5, <2>3 DEF Called
  <2>4. QED BY <2>1, <2>2, <2>3
<1>7. ASSUME NEW q \in Phasers, Called(t, q) PROVE Depth[q] >= Depth[p] + 1 /\ q # r
  <2>1. q # Root /\ caller[t][Parent[q]] = q /\ q # NoPhaser
    BY <1>7, TreeAssumption DEF Called
  <2>2. Parent[q] = p \/ Depth[p] < Depth[Parent[q]]
    BY <1>2, <1>5, <2>1
  <2>3. Depth[q] >= Depth[p] + 1
    BY <1>1, <1>5, <2>1, <2>2
  <2>4. QED BY <1>1, <2>3
<1>8. ASSUME NEW q \in Phasers, caller'[t][q] # NoPhaser
      PROVE  Parent[caller'[t][q]] = q /\ (q = r \/ (Depth[r] < Depth[q] /\ Called(t, q)'))
  <2>1. CASE q = r
    BY <1>4, <2>1
  <2>2. CASE q # r
    <3>1. /\ caller'[t][q] = caller[t][q] /\ Parent[caller[t][q]] = q
          /\ q = p \/ (Depth[p] < Depth[q] /\ Called(t, q))
      BY <1>2, <1>4, <1>8, <2>2
    <3>2. Called(t, q)'
      BY <1>6, <3>1
    <3>3. Depth[q] \in Nat
      BY DepthType
    <3>4. Depth[r] < Depth[q]
      BY <1>1, <3>1, <3>3
    <3>5. QED BY <3>1, <3>2, <3>4
  <2>3. QED BY <2>1, <2>2
<1>9. \A q \in Phasers : (q = p \/ Called(t, q)) =>
        Depth[q] <= Depth[Home[t]] /\ (caller[t][q] = NoPhaser <=> q = Home[t])
  BY DEF Place
<1>10. r # Home[t]
  BY <1>1, <1>9
<1>11. ASSUME NEW q \in Phasers, q = r \/ Called(t, q)'
       PROVE  Depth[q] <= Depth[Home[t]] /\ (caller'[t][q] = NoPhaser <=> q = Home[t])
  <2>1. CASE q = r
    <3>1. Depth[p] <= Depth[Home[t]] /\ Depth[Home[t]] \in Nat
      BY <1>1, <1>9, DepthType
    <3>2. Depth[r] <= Depth[Home[t]]
      BY <1>1, <3>1
    <3>3. QED BY <1>1, <1>4, <1>10, <2>1, <3>2
  <2>2. CASE q # r
    <3>1. q = p \/ Called(t, q)
      BY <1>6, <1>11, <2>2
    <3>2. QED BY <1>4, <1>9, <2>2, <3>1
  <2>3. QED BY <2>1, <2>2
<1>12. Place(t)'
  <2>1. op'[t] # "term" /\ (op'[t] = "register" \/ op'[t] \in ArriveOps)
    BY <1>4 DEF ArriveOps
  <2>2. QED BY <1>4, <1>8, <1>11, <2>1 DEF Place
<1>13. QED BY <1>1, <1>4, <1>6, <1>10, <1>12

\* What the thread relies on above.
LEMMA ClimbMine ==
  ASSUME IInv, Rooted, NEW t \in Threads, Mine(t), pc[t] # "client", Still,
         op[t] = "register" \/ op[t] \in ArriveOps, cur[t] # Root,
         NEW w, Climb(t, w), Old(w),
         op[t] \in ArriveOps => w.pending = 0 /\ (op[t] = "aaa" => w.parties # 0),
         held'[t] \in 0 .. Weight[t], left'[t] \in 0 .. held'[t], Keeps(t)'
  PROVE  Mine(t)'
<1>1. Place(t) /\ Fits(t) /\ Dated(t)
  BY DEF Mine
<1>2. /\ Place(t)' /\ \A c \in Phasers : Called(t, c)' <=> (Called(t, c) \/ c = cur[t])
      /\ cur[t] \in Phasers /\ ~Called(t, cur[t])
  BY <1>1, ClimbPlace, PlaceFacts
<1>3. pc'[t] = "load" /\ op'[t] = op[t] /\ out'[t] = NoOut
  BY DEF Climb
<1>4. Fits(t)'
  <2>1. ASSUME NEW c \in Phasers, Passed(t, c)'
        PROVE  snap'[t][c].pending = 0 /\ (op'[t] = "aaa" => snap'[t][c].parties # 0)
    <3>1. CASE c = cur[t]
      BY <2>1, <3>1 DEF Climb, Passed
    <3>2. CASE c # cur[t]
      <4>1. Passed(t, c) /\ snap'[t][c] = snap[t][c]
        BY <1>2, <1>3, <2>1, <3>2 DEF Climb, Passed
      <4>2. QED BY <1>1, <1>3, <4>1 DEF Fits
    <3>3. QED BY <3>1, <3>2
  <2>2. op'[t] # "none"
    BY <1>3 DEF ArriveOps
  <2>3. QED BY <1>3, <2>1, <2>2 DEF Fits
<1>5. Dated(t)'
  <2>1. /\ \A x : Old(x) => x.phase <= Now' /\ (x.term => ~Live' /\ x.phase = Now')
        /\ Now' = Now
    BY DEF Old, Still, Now, Live
  <2>2. Old(NoOut)
    BY <1>2, InPhaser, TreeAssumption, WidthAssumption
    DEF Old, NoOut, make, NoWord, define_state, Now, Word, Phase
  <2>3. Old(copy'[t]) /\ Old(out'[t]) /\ seen'[t] <= Now
    BY <1>1, <2>2 DEF Climb, Dated
  <2>4. ASSUME NEW q \in Phasers PROVE Old(snap'[t][q])
    BY <1>1 DEF Climb, Dated
  <2>5. QED BY <2>1, <2>3, <2>4 DEF Dated, Old
<1>6. Pins(t)' /\ Heard(t)'
  <2>1. \A c : ~Entering(t, c)'
    BY <1>3 DEF Entering, Entry
  <2>2. QED BY <1>3, <2>1 DEF Pins, Heard
<1>7. QED BY <1>2, <1>4, <1>5, <1>6 DEF Mine

\* self_lock is taken, or the child is no longer empty.
LEMMA TreeLock ==
  ASSUME IInv, Tree, TreeInv, NEW t \in Threads, Lock(t)
  PROVE  TreeInv' /\ UNCHANGED Flat!bvars
<1> DEFINE p == cur[t]
           s == snap[t][p]
<1>1. /\ pc[t] = "lock" /\ pc[t] # "client" /\ Mine(t) /\ Rooted /\ Still /\ p \in Phasers
      /\ UNCHANGED <<state, op, client, held, left, touched>> /\ p # Root
      /\ lock[p] = NoThread /\ LocalType
  BY InPhaser DEF Lock, TreeInv, Tree, Still, Now, ghost, Fit, BelowRoot, IInv, LocalInv
<1>2. CASE Loop(t, p, state[p]) /\ UNCHANGED <<lock, cur, caller>>
  <2>1. pc[t] \in Trying \cup {"lock"}
    BY <1>1
  <2>2. /\ Mine(t)'
        /\ Live => /\ Steady(t)
                   /\ \A c \in Phasers : LockHeld(t, c)' => LockHeld(t, c)
    BY <1>1, <1>2, <2>1, LoopMine
  <2>3. \A u \in Threads : u # t => Same(u)
    BY <1>1, <1>2, LoopOthers
  <2>4. QED BY <1>1, <1>2, <2>2, <2>3, Idle
<1>3. CASE /\ state[p] = s /\ lock' = [lock EXCEPT ![p] = t]
           /\ CallParent(t, p) /\ UNCHANGED <<snap, copy>>
  <2>1. op[t] = "register" /\ held[t] = 0 /\ role[t] = "out"
    <3>1. Keeps(t) /\ Fits(t) /\ op[t] \in Ops
      BY <1>1 DEF Mine, IInv, LocalInv, LocalType
    <3>2. op[t] = "register"
      BY <1>1, <3>1 DEF Keeps, Rests, Arrives, ArrivesAndWaits, Awaits, Fits, Trying, Ops
    <3>3. QED BY <1>1, <3>1, <3>2 DEF Keeps, Joins
  <2>2. Climb(t, s) /\ \A u \in Threads : u # t => Same(u)
    BY <1>1, <1>3 DEF CallParent, Goto, LocalType, Climb, Same, client
  <2>3. Mine(t)'
    <3>1. Keeps(t)'
      <4>1. op'[t] = op[t] /\ role'[t] = role[t] /\ held'[t] = held[t] /\ pc'[t] = "load"
        BY <1>1, <2>2 DEF Climb
      <4>2. QED BY <1>1, <2>1, <4>1, JoinsOn
    <3>2. Old(s) /\ held[t] \in 0 .. Weight[t] /\ left[t] \in 0 .. held[t]
      BY <1>1 DEF Mine, Dated
    <3>3. held'[t] \in 0 .. Weight[t] /\ left'[t] \in 0 .. held'[t]
      BY <1>1, <3>2
    <3>4. QED BY <1>1, <2>1, <2>2, <3>1, <3>2, <3>3, ClimbMine DEF ArriveOps
  <2>4. \A c \in Phasers : Called(t, c)' <=> (Called(t, c) \/ c = p)
    BY <1>1, <2>1, <2>2, ClimbPlace DEF Mine
  <2>5. Steady(t)
    <3>1. /\ op'[t] = "register" /\ pc'[t] = "load"
      BY <2>1, <2>2 DEF Climb
    <3>2. ASSUME NEW c \in Phasers
          PROVE  /\ ~Passed(t, c)' /\ ~ArrivesFor(t, c)' /\ ~ArrivesFor(t, c)
                 /\ ~Entering(t, c)' /\ ~Entering(t, c)
      BY <1>1, <2>1, <3>1 DEF Passed, ArrivesFor, Entering, ArriveOps, Entry
    <3>3. QED BY <3>2 DEF Steady
  <2>6. \A q \in Phasers : Old(state[q])'
    BY <1>1 DEF TreeInv, Old, Now, Live
  <2>7. ASSUME Live
        PROVE  /\ \A c \in Phasers : Due(c)' = Due(c)
               /\ \A u \in Threads : Locks(u)'
    <3>1. LiveInv
      BY <2>7 DEF TreeInv
    <3>2. \A c \in Phasers : Due(c)' = Due(c)
      BY <1>1 DEF Due, Now
    <3>3. ASSUME NEW u \in Threads, NEW c \in Phasers, LockHeld(u, c)'
          PROVE  lock'[c] = u /\ state[c].parties = 0 /\ state[c].pending = 1
      <4>1. CASE u = t /\ c = p
        <5>1. state[p].parties = 0 /\ state[p].pending = 1
          BY <1>1, <1>3 DEF Mine, Fits
        <5>2. lock'[p] = t
          BY <1>1, <1>3 DEF IInv, SharedType
        <5>3. QED BY <4>1, <5>1, <5>2
      <4>2. CASE ~(u = t /\ c = p)
        <5>1. LockHeld(u, c)
          <6>1. CASE u = t
            BY <2>1, <2>2, <2>4, <3>3, <4>2, <6>1 DEF LockHeld, Climb, Entry
          <6>2. CASE u # t
            BY <2>2, <3>3, <6>2, SteadySame
          <6>3. QED BY <6>1, <6>2
        <5>2. lock[c] = u /\ state[c].parties = 0 /\ state[c].pending = 1
          BY <3>1, <5>1 DEF LiveInv, Locks
        <5>3. c # p
          BY <1>1, <5>2, ClientAssumption
        <5>4. lock'[c] = lock[c]
          BY <1>3, <5>3 DEF IInv, SharedType
        <5>5. QED BY <5>2, <5>4
      <4>3. QED BY <4>1, <4>2
    <3>4. \A u \in Threads : Locks(u)'
      BY <1>1, <3>3 DEF Locks
    <3>5. QED BY <3>2, <3>4
  <2>8. Lags'
    BY <1>1 DEF TreeInv, Lags, Now
  <2>9. QED BY <1>1, <2>2, <2>3, <2>5, <2>6, <2>7, <2>8, Calm
<1>4. QED BY <1>2, <1>3 DEF Lock

\* t returns from the parent to the child c.
LEMMA ReturnPlace ==
  ASSUME IInv, Rooted, NEW t \in Threads, Place(t), pc[t] # "client",
         NEW c \in Phasers, caller[t][cur[t]] = c,
         cur'[t] = c, caller'[t] = [caller[t] EXCEPT ![cur[t]] = NoPhaser],
         op'[t] = op[t]
  PROVE  /\ Place(t)'
         /\ \A q \in Phasers : Called(t, q)' <=> (Called(t, q) /\ q # c)
<1> DEFINE p == cur[t]
<1>1. /\ p \in Phasers /\ c # NoPhaser /\ c # Root /\ Parent[c] = p /\ Called(t, c)
      /\ op[t] = "register" \/ op[t] \in ArriveOps
      /\ c # p /\ ~Called(t, p)
      /\ caller[t] \in [Phasers -> Phasers \cup {NoPhaser}]
  <2>1. c # NoPhaser
    BY TreeAssumption
  <2>2. QED BY <2>1, PlaceFacts DEF IInv, LocalInv, LocalType
<1>2. \A q \in Phasers : caller[t][q] # NoPhaser =>
        /\ Parent[caller[t][q]] = q
        /\ q = p \/ (Depth[p] < Depth[q] /\ Called(t, q))
  BY DEF Place
<1>3. /\ caller'[t][p] = NoPhaser
      /\ \A q \in Phasers : q # p => caller'[t][q] = caller[t][q]
  BY <1>1
<1>4. ASSUME NEW q \in Phasers, q # Root
      PROVE  /\ Parent[q] \in Phasers /\ Depth[q] = Depth[Parent[q]] + 1
             /\ Depth[Parent[q]] \in Nat /\ q # NoPhaser
  BY <1>4, DepthType, TreeAssumption
<1>5. ASSUME NEW q \in Phasers PROVE Called(t, q)' <=> (Called(t, q) /\ q # c)
  <2>1. CASE q = Root
    BY <2>1 DEF Called
  <2>2. CASE q # Root /\ Parent[q] = p
    BY <1>1, <1>3, <1>4, <2>2 DEF Called
  <2>3. CASE q # Root /\ Parent[q] # p
    BY <1>1, <1>3, <1>4, <2>3 DEF Called
  <2>4. QED BY <2>1, <2>2, <2>3
<1>6. ASSUME NEW q \in Phasers, caller'[t][q] # NoPhaser
      PROVE  Parent[caller'[t][q]] = q /\ (q = c \/ (Depth[c] < Depth[q] /\ Called(t, q)'))
  <2>1. q # p
    BY <1>3, <1>6
  <2>2. caller'[t][q] = caller[t][q] /\ Parent[caller[t][q]] = q /\ Called(t, q)
    BY <1>2, <1>3, <1>6, <2>1
  <2>3. CASE q # c
    <3>1. Called(t, q)'
      BY <1>5, <2>2, <2>3
    <3>2. q # Root /\ caller[t][Parent[q]] = q
      BY <2>2 DEF Called
    <3>3. Parent[q] # p
      BY <2>3, <3>2
    <3>4. Depth[p] < Depth[Parent[q]]
      BY <1>2, <1>4, <3>2, <3>3
    <3>5. Depth[p] \in Nat /\ Depth[Parent[q]] \in Nat /\ Depth[q] = Depth[Parent[q]] + 1
          /\ Depth[c] = Depth[p] + 1
      BY <1>1, <1>4, <3>2, DepthType
    <3>6. Depth[c] < Depth[q]
      BY <3>4, <3>5
    <3>7. QED BY <2>2, <3>1, <3>6
  <2>4. QED BY <2>2, <2>3
<1>7. ASSUME NEW q \in Phasers, q = c \/ Called(t, q)'
      PROVE  Depth[q] <= Depth[Home[t]] /\ (caller'[t][q] = NoPhaser <=> q = Home[t])
  <2>1. Called(t, q)
    BY <1>1, <1>5, <1>7
  <2>2. Depth[q] <= Depth[Home[t]] /\ (caller[t][q] = NoPhaser <=> q = Home[t])
    BY <1>1, <2>1 DEF Place
  <2>3. q # p
    BY <1>1, <2>1
  <2>4. QED BY <1>3, <2>2, <2>3
<1>8. op'[t] # "term" /\ (op'[t] = "register" \/ op'[t] \in ArriveOps)
  BY <1>1 DEF ArriveOps
<1>9. Place(t)'
  BY <1>6, <1>7, <1>8 DEF Place
<1>10. QED BY <1>5, <1>9

\* A member function of the parent returns to the child.
LEMMA TreeResume ==
  ASSUME IInv, Tree, TreeInv, NEW t \in Threads, Resume(t)
  PROVE  TreeInv' /\ UNCHANGED Flat!bvars
<1> DEFINE p == cur[t]
           c == caller[t][p]
<1>1. /\ pc[t] = "ret" /\ pc[t] # "client" /\ Mine(t) /\ Rooted /\ Still /\ LocalType
      /\ UNCHANGED <<state, op, copy, out, client, held, left, touched>>
      /\ p \in Phasers /\ c # NoPhaser /\ state[Root] \in Word
  BY InPhaser DEF Resume, TreeInv, Tree, Still, Now, ghost, IInv, LocalInv
<1>2. /\ cur' = [cur EXCEPT ![t] = c]
      /\ caller' = [caller EXCEPT ![t][p] = NoPhaser]
      /\ snap' = [snap EXCEPT ![t][p] = NoWord]
  BY DEF Resume
<1>3. \/ op[t] = "register" /\ ~out[t].term /\ pc' = [pc EXCEPT ![t] = "commit"] /\ lock' = lock
      \/ op[t] = "register" /\ out[t].term /\ pc' = pc
      \/ /\ op[t] \in ArriveOps /\ lock' = lock
         /\ pc' = [pc EXCEPT ![t] = IF op[t] # "aaa" /\ snap[t][c].parties = 0
                                    THEN "empty" ELSE "ret"]
  BY DEF Resume
<1>4. /\ Place(t) /\ Fits(t) /\ Dated(t) /\ Pins(t) /\ Heard(t) /\ Keeps(t)
  BY <1>1 DEF Mine
<1>5. /\ c \in Phasers /\ Called(t, c) /\ c # p /\ p # Home[t] /\ ~Called(t, p)
  BY <1>1, <1>4, PlaceFacts
<1>6. /\ cur'[t] = c /\ caller'[t] = [caller[t] EXCEPT ![p] = NoPhaser]
      /\ op'[t] = op[t] /\ out'[t] = out[t] /\ copy'[t] = copy[t]
      /\ role'[t] = role[t] /\ todo'[t] = todo[t] /\ seen'[t] = seen[t]
      /\ held'[t] = held[t] /\ left'[t] = left[t]
      /\ snap'[t][p] = NoWord /\ \A q \in Phasers : q # p => snap'[t][q] = snap[t][q]
      /\ \A u \in Threads : u # t => Same(u)
  <2>1. \E l : pc' = [pc EXCEPT ![t] = l]
    BY <1>1, <1>3 DEF LocalType
  <2>2. QED BY <1>1, <1>2, <2>1 DEF LocalType, Same, client
<1>7. /\ Place(t)' /\ \A q \in Phasers : Called(t, q)' <=> (Called(t, q) /\ q # c)
  BY <1>1, <1>4, <1>5, <1>6, ReturnPlace
<1>8. \/ op[t] = "register" /\ ~out[t].term /\ pc'[t] = "commit" /\ lock' = lock
      \/ op[t] = "register" /\ out[t].term /\ pc'[t] = "ret"
      \/ /\ op[t] \in ArriveOps /\ lock' = lock
         /\ pc'[t] = "ret" \/ (op[t] # "aaa" /\ snap[t][c].parties = 0 /\ pc'[t] = "empty")
  BY <1>1, <1>3 DEF LocalType
<1>9. ASSUME NEW q \in Phasers, Passed(t, q)'
      PROVE  Passed(t, q) /\ snap'[t][q] = snap[t][q]
  BY <1>5, <1>6, <1>7, <1>9 DEF Passed
<1>10. Fits(t)'
  <2>1. op[t] # "none"
    BY <1>1, <1>4 DEF Fits
  <2>2. ASSUME NEW q \in Phasers, Passed(t, q)'
        PROVE  snap'[t][q].pending = 0 /\ (op'[t] = "aaa" => snap'[t][q].parties # 0)
    BY <1>4, <1>6, <1>9, <2>2 DEF Fits
  <2>3. pc'[t] = "empty" => snap'[t][cur'[t]].parties = 0
    BY <1>5, <1>6, <1>8
  <2>4. QED BY <1>6, <1>8, <2>1, <2>2, <2>3 DEF Fits
<1>11. Dated(t)'
  <2>1. \A x : Old(x) => x.phase <= Now' /\ (x.term => ~Live' /\ x.phase = Now')
    BY <1>1 DEF Old, Still, Now, Live
  <2>2. Old(NoWord)
    BY <1>1, WidthAssumption DEF Old, NoWord, define_state, Now, Word, Phase
  <2>3. ASSUME NEW q \in Phasers PROVE Old(snap'[t][q])
    BY <1>4, <1>6, <2>2 DEF Dated
  <2>4. Now' = Now
    BY <1>1 DEF Now
  <2>5. QED BY <1>4, <1>6, <2>1, <2>3, <2>4 DEF Dated, Old
<1>12. Entering(t, c) <=> op[t] = "register" /\ ~out[t].term
  BY <1>1, <1>5 DEF Entering, Entry
<1>13. Pins(t)'
  <2>1. ASSUME NEW q \in Phasers, Entering(t, q)', ~out'[t].term PROVE out'[t].phase = Now'
    <3>1. op[t] = "register" /\ ~out[t].term
      BY <1>6, <2>1 DEF Entering
    <3>2. out[t].phase = Now
      BY <1>1, <1>4, <1>5, <1>12, <3>1 DEF Pins
    <3>3. QED BY <1>1, <1>6, <3>2 DEF Now
  <2>2. QED BY <2>1 DEF Pins
<1>14. Heard(t)'
  <2>1. op[t] = "register" => out[t].cond = "normal"
    BY <1>1, <1>4 DEF Heard
  <2>2. QED BY <1>6, <1>8, <2>1 DEF Heard, ArriveOps
<1>15. Keeps(t)'
  <2>1. /\ Now' = Now /\ (Outside(t) => Outside(t)')
        /\ (Waiting(t) => Waiting(t)') /\ (Arrived(t) => Arrived(t)')
    BY <1>1, <1>6, Beliefs
  <2>2. ~AtHome(t)
    BY <1>5 DEF AtHome
  <2>3. CASE op[t] = "register"
    <3>1. role[t] = "out" /\ Outside(t) /\ held[t] = 0
      BY <1>1, <1>4, <2>2, <2>3 DEF Keeps, Joins
    <3>2. pc'[t] \in Entry \cup {"ret"} /\ (pc'[t] = "ret" => out'[t].term)
      BY <1>6, <1>8, <2>3 DEF ArriveOps, Entry
    <3>3. Joins(t)'
      BY <1>6, <2>1, <3>1, <3>2 DEF Joins
    <3>4. QED BY <1>6, <2>3, <3>3 DEF Keeps, ArriveOps
  <2>4. CASE op[t] \in {"arrive", "dereg"}
    <3>1. Arrives(t)
      BY <1>4, <2>4 DEF Keeps
    <3>2. pc'[t] \in {"ret", "empty"}
      BY <1>8, <2>4
    <3>3. Arrives(t)' /\ InPhase(t)'
      BY <1>1, <1>6, <2>1, <3>1, <3>2 DEF Arrives, InPhase, Trying
    <3>4. QED BY <1>6, <2>4, <3>3 DEF Keeps, ArriveOps
  <2>5. CASE op[t] = "aaa"
    <3>1. ArrivesAndWaits(t)
      BY <1>4, <2>5 DEF Keeps
    <3>2. pc'[t] = "ret"
      BY <1>8, <2>5
    <3>3. ToldNext(t)'
      <4>1. ToldNext(t)
        BY <3>1 DEF ArrivesAndWaits
      <4>2. Entered(t) => Entered(t)'
        BY <1>1, <1>6 DEF Entered, Renewed
      <4>3. QED BY <1>1, <1>6, <4>1, <4>2 DEF ToldNext
    <3>4. ArrivesAndWaits(t)' /\ InPhase(t)'
      BY <1>6, <3>1, <3>2, <3>3 DEF ArrivesAndWaits, InPhase, Trying
    <3>5. QED BY <1>6, <2>5, <3>4 DEF Keeps, ArriveOps
  <2>6. QED BY <1>8, <2>3, <2>4, <2>5 DEF ArriveOps
<1>16. Mine(t)'
  BY <1>7, <1>10, <1>11, <1>13, <1>14, <1>15 DEF Mine
<1>17. ASSUME Live
       PROVE  /\ Steady(t) /\ lock' = lock
              /\ \A q \in Phasers : LockHeld(t, q)' => LockHeld(t, q)
  <2>1. ~out[t].term
    BY <1>4, <1>17 DEF Dated, Old
  <2>2. pc'[t] \notin Trying /\ pc[t] \notin Trying
    BY <1>1, <1>8 DEF Trying
  <2>3. ASSUME NEW q \in Phasers PROVE Entering(t, q)' <=> Entering(t, q)
    <3>1. CASE op[t] = "register"
      <4>1. pc'[t] = "commit" /\ cur'[t] = c /\ op'[t] = "register"
        BY <1>6, <1>8, <2>1, <3>1 DEF ArriveOps
      <4>2. Entering(t, q)' <=> q = c
        BY <4>1 DEF Entering, Entry
      <4>3. Entering(t, q) <=> q = c
        BY <1>1, <2>1, <3>1 DEF Entering, Entry
      <4>4. QED BY <4>2, <4>3
    <3>2. CASE op[t] # "register"
      BY <1>6, <3>2 DEF Entering
    <3>3. QED BY <3>1, <3>2
  <2>4. Steady(t)
    BY <1>9, <2>2, <2>3 DEF Steady, ArrivesFor
  <2>5. ASSUME NEW q \in Phasers, LockHeld(t, q)' PROVE LockHeld(t, q)
    BY <1>5, <1>6, <1>7, <2>5 DEF LockHeld
  <2>6. QED BY <1>8, <2>1, <2>4, <2>5
<1>18. QED BY <1>1, <1>6, <1>16, <1>17, Idle

\* A child left without parties becomes empty: nobody else is in charge of
\* it, and nobody can have locked it.
LEMMA TreeEmptyCas ==
  ASSUME IInv, Tree, TreeInv, NEW t \in Threads, EmptyCas(t)
  PROVE  TreeInv' /\ UNCHANGED Flat!bvars
<1> DEFINE p == cur[t]
           s == snap[t][p]
           w == define_state(s.phase, 0, 1)
<1>1. /\ pc[t] = "empty" /\ pc[t] # "client" /\ Mine(t) /\ Rooted /\ LocalType
      /\ UNCHANGED <<lock, op, cur, caller, snap, copy, client, held, left, touched>>
      /\ p \in Phasers /\ p # Root /\ Goto(t, "ret", out[t])
      /\ state \in [Phasers -> Word] /\ s \in Word
  BY InPhaser DEF EmptyCas, Return, TreeInv, Tree, ghost, IInv, LocalInv, SharedType, Fit, BelowRoot
<1>2. /\ Place(t) /\ Fits(t) /\ Dated(t) /\ Keeps(t) /\ Old(s) /\ Old(copy[t]) /\ Old(out[t])
  BY <1>1 DEF Mine, Dated
<1>3. state'[Root] = state[Root] /\ Still
  BY <1>1, TreeAssumption DEF EmptyCas, Still, Now
<1>4. op[t] \in {"arrive", "dereg"} /\ Arrives(t)
  <2>1. op[t] \in Ops
    BY <1>1 DEF LocalType
  <2>2. QED
    BY <1>1, <1>2, <2>1
    DEF Keeps, Rests, Joins, ArrivesAndWaits, Awaits, Fits, Trying, Entry, Ops
<1>5. /\ Move(t, "ret", out[t], copy[t], s) /\ pc'[t] = "ret"
      /\ \A u \in Threads : u # t => Same(u)
  BY <1>1 DEF Goto, LocalType, Move, Same, client
<1>6. Keeps(t)'
  <2>1. /\ op'[t] = op[t] /\ role'[t] = role[t] /\ out'[t] = out[t] /\ seen'[t] = seen[t]
        /\ todo'[t] = todo[t] /\ held'[t] = held[t] /\ left'[t] = left[t]
    BY <1>5 DEF Move
  <2>2. Arrived(t) => Arrived(t)'
    BY <1>3, <2>1, Beliefs
  <2>3. Arrives(t)' /\ InPhase(t)'
    BY <1>1, <1>4, <1>5, <2>1, <2>2 DEF Arrives, InPhase, Trying
  <2>4. QED BY <1>4, <2>1, <2>3 DEF Keeps, ArriveOps
<1>7. Mine(t)'
  BY <1>1, <1>2, <1>3, <1>4, <1>5, <1>6, MoveMine
<1>8. Passed(t, p) /\ s.parties = 0 /\ s.pending = 0
  <2>1. Passed(t, p)
    BY <1>1, <1>4 DEF Passed, ArriveOps
  <2>2. QED BY <1>1, <1>2, <2>1 DEF Fits
<1>9. /\ w.parties = 0 /\ w.pending = 1 /\ w.phase = s.phase /\ w.term = FALSE
  BY DEF define_state
<1>10. CASE state[p] # s
  <2>1. state' = state
    BY <1>10 DEF EmptyCas
  <2>2. "ret" \notin Trying /\ pc[t] \notin Trying
    BY <1>1 DEF Trying
  <2>3. QED BY <1>1, <1>4, <1>5, <1>7, <2>1, <2>2, IdleMove DEF ArriveOps
<1>11. CASE state[p] = s
  <2>1. /\ state'[p] = w /\ \A q \in Phasers : q # p => state'[q] = state[q]
    BY <1>1, <1>11 DEF EmptyCas
  <2> HIDE DEF w
  <2>2. Now' = Now
    BY <1>3 DEF Now
  <2>3. ASSUME NEW q \in Phasers PROVE Old(state[q])'
    <3>1. Old(state'[q])
      BY <1>2, <1>9, <2>1 DEF TreeInv, Old
    <3>2. QED BY <1>3, <3>1 DEF Old, Now, Live
  <2>4. Steady(t) /\ \A c \in Phasers : LockHeld(t, c)' => LockHeld(t, c)
    <3>1. /\ op'[t] = op[t] /\ cur'[t] = cur[t] /\ caller'[t] = caller[t]
          /\ \A q \in Phasers : q # cur[t] => snap'[t][q] = snap[t][q]
      BY <1>5 DEF Move
    <3>2. pc[t] \notin Trying /\ pc'[t] \notin Trying /\ pc'[t] # "empty"
      BY <1>1, <1>5 DEF Trying
    <3>3. QED BY <1>1, <1>2, <1>4, <3>1, <3>2, SteadyMove
  <2>5. ASSUME Live
        PROVE  /\ \A c \in Phasers : state'[c].parties = state[c].parties /\ Due(c)' = Due(c)
               /\ \A u \in Threads : Locks(u)'
               /\ \A u \in Threads, c \in Phasers :
                    Passed(u, c)' /\ snap[u][c].phase = Now => state'[c] = state[c]
    <3>1. LiveInv
      BY <2>5 DEF TreeInv
    <3>2. ASSUME NEW c \in Phasers
          PROVE  state'[c].parties = state[c].parties /\ Due(c)' = Due(c)
      <4>1. CASE c = p
        BY <1>8, <1>9, <1>11, <2>1, <4>1 DEF Due
      <4>2. CASE c # p
        BY <2>1, <2>2, <4>2 DEF Due
      <4>3. QED BY <4>1, <4>2
    <3>4. \A u \in Threads : Locks(u)'
      <4>1. ASSUME NEW u \in Threads, NEW c \in Phasers, LockHeld(u, c)'
            PROVE  lock'[c] = u /\ state'[c].parties = 0 /\ state'[c].pending = 1
        <5>1. LockHeld(u, c)
          BY <1>5, <2>4, <4>1, SteadySame
        <5>2. lock[c] = u /\ state[c].parties = 0 /\ state[c].pending = 1
          BY <3>1, <5>1 DEF LiveInv, Locks
        <5>3. c # p
          BY <1>8, <1>11, <5>2
        <5>4. QED BY <1>1, <2>1, <5>2, <5>3
      <4>2. QED BY <4>1 DEF Locks
    <3>5. ASSUME NEW u \in Threads, NEW c \in Phasers, Passed(u, c)', snap[u][c].phase = Now
          PROVE  state'[c] = state[c]
      <4>1. CASE u = t
        <5>1. c # p
          <6>1. ~Called(t, p)
            BY <1>1, <1>2, PlaceFacts
          <6>2. caller'[t] = caller[t]
            BY <1>1
          <6>3. QED BY <1>5, <3>5, <4>1, <6>1, <6>2 DEF Passed, Called
        <5>2. QED BY <2>1, <5>1
      <4>2. CASE u # t
        <5>1. Passed(u, c)
          BY <1>5, <3>5, <4>2, SteadySame DEF Steady
        <5>2. state[c] = snap[u][c]
          BY <3>1, <3>5, <5>1 DEF LiveInv, Finish
        <5>3. c # p
          <6>1. ASSUME c = p PROVE FALSE
            <7>1. snap[t][p].phase = Now
              BY <1>11, <3>5, <5>2, <6>1
            <7>2. u = t
              BY <1>8, <3>1, <3>5, <5>1, <6>1, <7>1 DEF LiveInv, Alone
            <7>3. QED BY <4>2, <7>2
          <6>2. QED BY <6>1
        <5>4. QED BY <2>1, <5>3
      <4>3. QED BY <4>1, <4>2
    <3>6. QED BY <3>2, <3>4, <3>5
  <2>6. Lags'
    <3>1. ASSUME NEW c \in Phasers
          PROVE  \/ state'[c].phase = Now'
                 \/ state'[c].parties = 0
                 \/ state'[c].pending = 0 /\ Now' = state'[c].phase + 1
      <4>1. CASE c = p
        BY <1>9, <2>1, <4>1
      <4>2. CASE c # p
        BY <2>1, <2>2, <4>2 DEF TreeInv, Lags
      <4>3. QED BY <4>1, <4>2
    <3>2. QED BY <3>1 DEF Lags
  <2>7. QED BY <1>1, <1>3, <1>5, <1>7, <2>3, <2>4, <2>5, <2>6, Calm
<1>12. QED BY <1>10, <1>11

(***************************************************************************)
(* The clients.                                                            *)
(***************************************************************************)

\* A client between its operations claims nothing.
LEMMA AtRest ==
  ASSUME NEW t \in Threads, op[t] = "none", NEW c \in Phasers
  PROVE  ~Passed(t, c) /\ ~ArrivesFor(t, c) /\ ~Entering(t, c) /\ ~LockHeld(t, c)
  BY DEF Passed, ArrivesFor, Entering, LockHeld, ArriveOps

\* A client begins an operation.
LEMMA TreeBegin ==
  ASSUME IInv, Tree, TreeInv, NEW t \in Threads, Participate(t) \/ Visit(t)
  PROVE  TreeInv' /\ UNCHANGED Flat!bvars
<1>1. Mine(t) /\ LocalType /\ Home[t] \in Phasers /\ Root \in Phasers
  BY TreeAssumption, ClientAssumption DEF TreeInv, IInv, LocalInv
<1>2. PICK o \in Ops \ {"none"} :
        /\ \E p : Begin(t, o, p) /\ p = IF o = "term" THEN Root ELSE Home[t]
        /\ o = "register" => role[t] = "out"
        /\ o \in ArriveOps => role[t] = "in" /\ (o = "aaa" => todo[t] = 1)
        /\ o = "await" => role[t] = "arrived"
  BY DEF Participate, Visit, BeginPaid, arrive, arrive_and_await_advance,
         arrive_and_deregister, await_advance, register_some,
         get_unarrived_parties, force_termination, Ops, ArriveOps
<1> DEFINE p == IF o = "term" THEN Root ELSE Home[t]
<1>3. /\ pc[t] = "client" /\ pc' = [pc EXCEPT ![t] = "load"]
      /\ op' = [op EXCEPT ![t] = o] /\ cur' = [cur EXCEPT ![t] = p]
      /\ UNCHANGED <<state, lock, caller, snap, copy, out, role, todo, seen, held, left, touched>>
  BY <1>2 DEF Begin, shared, ghost
<1>4. /\ pc'[t] = "load" /\ op'[t] = o /\ cur'[t] = p
      /\ \A u \in Threads : u # t => Same(u)
  BY <1>1, <1>3 DEF LocalType, Same
<1>5. op[t] = "none" /\ Rests(t) /\ Place(t) /\ Fits(t) /\ Dated(t)
  BY <1>1, <1>3 DEF Mine, Fits, Keeps
<1>6. \A q \in Phasers : caller'[t][q] = NoPhaser /\ ~Called(t, q)'
  <2>1. \A q \in Phasers : caller[t][q] = NoPhaser
    BY <1>5 DEF Place, ArriveOps
  <2>2. \A q \in Phasers \ {Root} : Parent[q] \in Phasers /\ q # NoPhaser
    BY TreeAssumption
  <2>3. QED BY <1>3, <2>1, <2>2 DEF Called
<1>7. Place(t)'
  <2>1. p \in Phasers /\ (o = "term" => p = Root) /\ (o # "term" => p = Home[t])
    BY <1>1
  <2> HIDE DEF p
  <2>2. \A q \in Phasers : (q = p \/ Called(t, q)') => q = p
    BY <1>6
  <2>3. o = "register" \/ o \in ArriveOps => p = Home[t]
    BY <2>1 DEF ArriveOps
  <2>4. p = Home[t] => \A q \in Phasers : q = p =>
          Depth[q] <= Depth[Home[t]] /\ (caller'[t][q] = NoPhaser <=> q = Home[t])
    <3>1. ASSUME Rooted PROVE Depth[Home[t]] <= Depth[Home[t]]
      BY <1>1, <3>1, DepthType
    <3>2. QED BY <1>6, <3>1 DEF Tree
  <2>5. QED BY <1>4, <1>6, <2>1, <2>2, <2>3, <2>4 DEF Place
<1>8. Fits(t)'
  <2>1. \A q \in Phasers : ~Passed(t, q)'
    BY <1>4, <1>6 DEF Passed
  <2>2. QED BY <1>2, <1>4, <2>1 DEF Fits
<1>9. Dated(t)'
  BY <1>3, <1>5 DEF Dated, Old, Now, Live
<1>10. Pins(t)' /\ Heard(t)'
  <2>1. \A q : ~Entering(t, q)'
    BY <1>4 DEF Entering, Entry
  <2>2. QED BY <1>4, <2>1 DEF Pins, Heard
<1>11. Keeps(t)'
  <2>1. Now' = Now /\ Still
    BY <1>3 DEF Now, Still
  <2>2. /\ todo'[t] = todo[t] /\ seen'[t] = seen[t] /\ held'[t] = held[t]
        /\ left'[t] = left[t] /\ role'[t] = role[t]
    BY <1>3
  <2>3. /\ (Outside(t) => Outside(t)') /\ (Unarrived(t) => Unarrived(t)')
        /\ (Waiting(t) => Waiting(t)')
    BY <2>1, <2>2, Beliefs
  <2>4. o # "term" => AtHome(t)'
    BY <1>4 DEF AtHome
  <2>5. CASE o \in {"query", "term"}
    BY <1>4, <1>5, <2>2, <2>3, <2>5 DEF Keeps, Rests, ArriveOps
  <2>6. CASE o = "register"
    BY <1>2, <1>4, <1>5, <2>2, <2>3, <2>4, <2>6 DEF Keeps, Rests, Joins, Trying, Entry, ArriveOps
  <2>7. CASE o \in {"arrive", "dereg"}
    <3>1. Arrives(t)' /\ InPhase(t)'
      BY <1>2, <1>4, <1>5, <2>2, <2>3, <2>4, <2>7 DEF Rests, Arrives, InPhase, Trying, ArriveOps
    <3>2. QED BY <1>4, <2>7, <3>1 DEF Keeps, ArriveOps
  <2>8. CASE o = "aaa"
    <3>1. ArrivesAndWaits(t)' /\ InPhase(t)'
      BY <1>2, <1>4, <1>5, <2>2, <2>3, <2>4, <2>8
      DEF Rests, ArrivesAndWaits, ToldNext, InPhase, Trying, ArriveOps
    <3>2. QED BY <1>4, <2>8, <3>1 DEF Keeps, ArriveOps
  <2>9. CASE o = "await"
    BY <1>2, <1>4, <1>5, <2>2, <2>3, <2>9 DEF Keeps, Rests, Awaits, ToldNext, ArriveOps
  <2>10. QED BY <1>2, <2>5, <2>6, <2>7, <2>8, <2>9 DEF Ops
<1>12. Mine(t)'
  BY <1>7, <1>8, <1>9, <1>10, <1>11 DEF Mine
<1>13. Steady(t) /\ \A c \in Phasers : LockHeld(t, c)' => LockHeld(t, c)
  <2>1. ASSUME NEW c \in Phasers
        PROVE  /\ ~Passed(t, c)' /\ ~ArrivesFor(t, c)' /\ ~Entering(t, c)' /\ ~LockHeld(t, c)'
               /\ ~ArrivesFor(t, c) /\ ~Entering(t, c)
    <3>1. c # NoPhaser /\ cur'[t] \in Phasers
      BY <1>1, <1>4, TreeAssumption
    <3>2. QED BY <1>4, <1>5, <1>6, <3>1, AtRest DEF Passed, ArrivesFor, Entering, LockHeld, Entry
  <2>2. QED BY <2>1 DEF Steady
<1>14. QED BY <1>3, <1>4, <1>12, <1>13, Idle

\* What the client makes of the result.
LEMMA TreeOutcome ==
  ASSUME IInv, NEW t \in Threads, Mine(t), Complete(t), AtHome(t) \/ op[t] \in {"await", "query", "term"}
  PROVE  Keeps(t)' /\ seen'[t] <= Now
<1> DEFINE o == out[t]
<1>1. /\ Keeps(t) /\ Fits(t) /\ Dated(t) /\ LocalType /\ ClientType /\ pc[t] = "ret"
      /\ op[t] \in Ops /\ op[t] # "none" /\ o \in PhaseType
      /\ todo[t] \in Int /\ held[t] \in Int /\ left[t] \in Int
  BY DEF Mine, Fits, IInv, LocalInv, LocalType, ClientType, GhostType, Complete
<1>2. /\ pc'[t] = "client" /\ op'[t] = "none" /\ UNCHANGED <<state, held, left>>
  BY <1>1 DEF Complete, LocalType, shared, ghost
<1>3. seen[t] <= Now /\ o.phase <= Now /\ (o.term => state[Root].term)
  BY <1>1 DEF Dated, Old, Live
<1>4. ASSUME /\ role'[t] = "out" => Outside(t)'
             /\ role'[t] = "in" => Unarrived(t)'
             /\ role'[t] = "arrived" => Waiting(t)'
      PROVE  Keeps(t)'
  BY <1>2, <1>4 DEF Keeps, Rests, ArriveOps
<1>5. CASE op[t] \in {"query", "term"} \/ o.cond = "erroneous"
  <2>1. role'[t] = role[t] /\ todo'[t] = todo[t] /\ seen'[t] = seen[t]
    BY <1>1, <1>5 DEF Complete, Outcome, Keeps, Arrives, ArrivesAndWaits, Awaits, ToldNext
  <2>2. op[t] \in {"query", "term", "register"}
    BY <1>1, <1>5 DEF Keeps, Arrives, ArrivesAndWaits, Awaits, ToldNext, Ops
  <2>3. CASE op[t] = "register"
    <3>1. role[t] = "out" /\ Outside(t)
      BY <1>1, <1>5, <2>3 DEF Keeps, Joins
    <3>2. QED BY <1>2, <1>3, <1>4, <2>1, <3>1 DEF Outside
  <2>4. CASE op[t] \in {"query", "term"}
    <3>1. Rests(t)
      BY <1>1, <2>4 DEF Keeps
    <3>2. QED BY <1>2, <1>3, <1>4, <2>1, <3>1 DEF Rests, Outside, Unarrived, Waiting, Renewed
  <2>5. QED BY <2>2, <2>3, <2>4
<1>6. CASE op[t] \in {"register", "await", "aaa"} /\ o.cond = "normal"
  <2>1. /\ role'[t] = IF o.term THEN "out" ELSE "in"
        /\ todo'[t] = IF o.term THEN 0 ELSE held[t]
        /\ seen'[t] = o.phase
    BY <1>1, <1>6 DEF Complete, Outcome, ClientType
  <2>2. CASE o.term
    BY <1>2, <1>3, <1>4, <2>1, <2>2 DEF Outside
  <2>3. CASE ~o.term
    <3>1. Entered(t)
      BY <1>1, <1>6, <2>3 DEF Keeps, Joins, ArrivesAndWaits, Awaits, ToldNext
    <3>2. role'[t] = "in" /\ Unarrived(t)'
      BY <1>1, <1>2, <2>1, <2>3, <3>1 DEF Entered, Renewed, Unarrived
    <3>3. QED BY <1>3, <1>4, <2>1, <3>2
  <2>4. QED BY <2>2, <2>3
<1>7. CASE op[t] \in {"arrive", "dereg"} /\ o.cond = "normal"
  <2>1. /\ role'[t] = IF o.term THEN "out" ELSE IF held[t] = 0 THEN "out"
                      ELSE IF todo[t] > 1 THEN "in" ELSE "arrived"
        /\ todo'[t] = IF o.term THEN 0 ELSE todo[t] - 1
        /\ seen'[t] = o.phase
    BY <1>1, <1>7 DEF Complete, Outcome, ClientType
  <2>2. CASE o.term
    BY <1>2, <1>3, <1>4, <2>1, <2>2 DEF Outside
  <2>3. CASE ~o.term
    <3>1. Arrived(t) /\ o.phase = seen[t]
      BY <1>1, <1>7, <2>3 DEF Keeps, Arrives
    <3>2. CASE held[t] = 0
      BY <1>2, <1>3, <1>4, <2>1, <2>3, <3>2 DEF Outside
    <3>3. CASE held[t] # 0 /\ todo[t] > 1
      <4>1. role'[t] = "in" /\ Unarrived(t)'
        BY <1>1, <1>2, <2>1, <2>3, <3>1, <3>3 DEF Arrived, Unarrived
      <4>2. QED BY <1>3, <1>4, <2>1, <4>1
    <3>4. CASE held[t] # 0 /\ ~(todo[t] > 1)
      <4>1. role'[t] = "arrived" /\ Waiting(t)'
        BY <1>1, <1>2, <2>1, <2>3, <3>1, <3>4 DEF Arrived, Waiting, Renewed
      <4>2. QED BY <1>3, <1>4, <2>1, <4>1
    <3>5. QED BY <3>2, <3>3, <3>4
  <2>4. QED BY <2>2, <2>3
<1>8. QED BY <1>1, <1>5, <1>6, <1>7 DEF Ops, PhaseType, Cond

\* An operation returns to its client.
LEMMA TreeComplete ==
  ASSUME IInv, Tree, TreeInv, NEW t \in Threads, Complete(t)
  PROVE  TreeInv' /\ UNCHANGED Flat!bvars
<1>1. /\ Mine(t) /\ LocalType /\ ClientType /\ Rooted /\ pc[t] = "ret" /\ pc[t] # "client"
      /\ caller[t][cur[t]] = NoPhaser /\ cur[t] \in Phasers
      /\ UNCHANGED <<state, lock, caller, copy, held, left, touched>> /\ state[Root] \in Word
  BY InPhaser DEF TreeInv, Tree, IInv, LocalInv, Complete, shared, ghost
<1>2. /\ pc'[t] = "client" /\ op'[t] = "none" /\ cur'[t] = NoPhaser
      /\ snap'[t] = [p \in Phasers |-> NoWord] /\ out'[t] = NoOut /\ copy'[t] = copy[t]
      /\ caller'[t] = caller[t]
  BY <1>1 DEF Complete, LocalType
<1>3. \A u \in Threads : u # t => Same(u)
  <2>1. \A u \in Threads : u # t =>
          role'[u] = role[u] /\ todo'[u] = todo[u] /\ seen'[u] = seen[u]
    BY <1>1 DEF Complete, Outcome, ClientType
  <2>2. QED BY <1>1, <2>1 DEF Same, LocalType, Complete
<1>4. Place(t) /\ Fits(t) /\ Dated(t) /\ op[t] # "none" /\ op[t] \in Ops
  BY <1>1 DEF Mine, Fits, LocalType
<1>5. \A q \in Phasers : caller[t][q] = NoPhaser
  <2>1. CASE op[t] = "register" \/ op[t] \in ArriveOps
    <3>1. cur[t] = Home[t]
      BY <1>1, <1>4, <2>1, PlaceFacts
    <3>2. ASSUME NEW q \in Phasers, caller[t][q] # NoPhaser PROVE FALSE
      <4>1. Depth[cur[t]] < Depth[q] /\ Called(t, q)
        BY <1>1, <1>4, <3>2 DEF Place
      <4>2. Depth[q] <= Depth[Home[t]]
        BY <1>4, <2>1, <4>1 DEF Place
      <4>3. Depth[q] \in Nat /\ Depth[cur[t]] \in Nat
        BY <1>1, DepthType
      <4>4. QED BY <3>1, <4>1, <4>2, <4>3
    <3>3. QED BY <3>2
  <2>2. CASE ~(op[t] = "register" \/ op[t] \in ArriveOps)
    BY <1>4, <2>2 DEF Place
  <2>3. QED BY <2>1, <2>2
<1>6. Place(t)'
  BY <1>2, <1>5 DEF Place, ArriveOps
<1>7. Fits(t)'
  BY <1>2 DEF Fits, Passed, ArriveOps
<1>8. Keeps(t)' /\ seen'[t] <= Now
  <2>1. AtHome(t) \/ op[t] \in {"await", "query", "term"}
    BY <1>1, <1>4, PlaceFacts DEF AtHome, Ops, ArriveOps
  <2>2. QED BY <1>1, <2>1, TreeOutcome
<1>9. Dated(t)'
  <2>1. \A x : Old(x) => x.phase <= Now' /\ (x.term => ~Live' /\ x.phase = Now')
    BY <1>1 DEF Old, Now, Live
  <2>2. Now' = Now
    BY <1>1 DEF Now
  <2>3. Old(NoWord) /\ Old(NoOut)
    BY <1>1, WidthAssumption DEF Old, NoOut, make, NoWord, define_state, Now, Word, Phase
  <2>4. \A q \in Phasers : Old(snap'[t][q])
    BY <1>2, <2>3
  <2>5. /\ Old(copy'[t]) /\ Old(out'[t]) /\ held'[t] \in 0 .. Weight[t]
        /\ left'[t] \in 0 .. held'[t]
    BY <1>1, <1>2, <1>4, <2>3 DEF Dated
  <2>6. QED BY <1>8, <2>1, <2>2, <2>4, <2>5 DEF Dated, Old
<1>10. Pins(t)' /\ Heard(t)'
  BY <1>2 DEF Pins, Heard, Entering, ArriveOps
<1>11. Mine(t)'
  BY <1>6, <1>7, <1>8, <1>9, <1>10 DEF Mine
<1>12. Steady(t) /\ \A c \in Phasers : LockHeld(t, c)' => LockHeld(t, c)
  <2>1. ASSUME NEW c \in Phasers
        PROVE  /\ ~Passed(t, c)' /\ ~ArrivesFor(t, c)' /\ ~Entering(t, c)' /\ ~LockHeld(t, c)'
               /\ ~ArrivesFor(t, c) /\ ~Entering(t, c)
    <3>1. c # NoPhaser
      BY TreeAssumption
    <3>2. QED BY <1>1, <1>2, <3>1 DEF Passed, ArrivesFor, Entering, LockHeld, ArriveOps, Entry, Trying
  <2>2. QED BY <2>1 DEF Steady
<1>13. QED BY <1>1, <1>3, <1>11, <1>12, Idle

\* A child more or less: the root is nobody's child.
LEMMA TotalAlike ==
  ASSUME NEW p \in Phasers, NEW f, NEW S \in SUBSET Phasers, NEW R \in SUBSET Phasers,
         \A q \in Phasers \ {Root} : q \in R <=> q \in S
  PROVE  Total(p, f, R) = Total(p, f, S)
<1>1. Parent[Root] # p
  BY TreeAssumption
<1>2. ChildrenIn(p, R) = ChildrenIn(p, S)
  <2>1. \A q : q \in ChildrenIn(p, R) <=> q \in ChildrenIn(p, S)
    BY <1>1 DEF ChildrenIn
  <2>2. QED BY <2>1
<1>3. QED BY <1>2 DEF Total

\* A child more.
LEMMA TotalGained ==
  ASSUME Tree, NEW p \in Phasers, NEW f, NEW S \in SUBSET Phasers, NEW R \in SUBSET Phasers,
         NEW c \in Phasers \ {Root}, c \notin S,
         \A q \in Phasers \ {Root} : q \in R <=> q \in S \/ q = c
  PROVE  Total(p, f, R) = IF p = Parent[c] THEN Total(p, f, S) + 1 ELSE Total(p, f, S)
<1>1. S \cup {c} \in SUBSET Phasers /\ c \in Phasers \ S
  OBVIOUS
<1>2. Total(p, f, R) = Total(p, f, S \cup {c})
  BY <1>1, TotalAlike
<1>3. QED BY <1>1, <1>2, TotalAdd

\* A child less.
LEMMA TotalLost ==
  ASSUME Tree, NEW p \in Phasers, NEW f, NEW S \in SUBSET Phasers, NEW R \in SUBSET Phasers,
         NEW c \in Phasers \ {Root}, c \in S,
         \A q \in Phasers \ {Root} : q \in R <=> q \in S /\ q # c
  PROVE  Total(p, f, R) = IF p = Parent[c] THEN Total(p, f, S) - 1 ELSE Total(p, f, S)
<1>1. S \ {c} \in SUBSET Phasers
  OBVIOUS
<1>2. Total(p, f, R) = Total(p, f, S \ {c})
  BY <1>1, TotalAlike
<1>3. \A x \in S : Total(p, f, S \ {x}) =
        IF p = Parent[x] THEN Total(p, f, S) - 1 ELSE Total(p, f, S)
  BY TotalDrop
<1>4. QED BY <1>2, <1>3

(***************************************************************************)
(* A step of t inside its frame that counts.                               *)
(***************************************************************************)
\* A step of t inside its frame that gains or loses parties.
Shift(t, l, o, k, w) ==
  /\ pc'[t] = l /\ out'[t] = o /\ copy'[t] = k /\ snap'[t][cur[t]] = w
  /\ \A q \in Phasers : q # cur[t] => snap'[t][q] = snap[t][q]
  /\ op'[t] = op[t] /\ cur'[t] = cur[t] /\ caller'[t] = caller[t]
  /\ role'[t] = role[t] /\ todo'[t] = todo[t] /\ seen'[t] = seen[t]
  /\ held'[t] \in 0 .. Weight[t] /\ left'[t] \in 0 .. held'[t]

\* What the thread relies on after it.
LEMMA ShiftMine ==
  ASSUME IInv, Rooted, NEW t \in Threads, Mine(t), pc[t] # "client", Still,
         NEW l, NEW o, NEW k, NEW w, Shift(t, l, o, k, w),
         l \in {"await", "ret", "adv"},
         Old(o), Old(k), Old(w),
         op[t] = "register" /\ l = "ret" =>
           /\ ~o.term => caller[t][cur[t]] = NoPhaser \/ o.phase = Now
           /\ o.cond = "normal",
         Keeps(t)'
  PROVE  Mine(t)'
<1>1. Place(t) /\ Fits(t) /\ Dated(t) /\ Pins(t) /\ Heard(t)
  BY DEF Mine
<1>2. cur[t] \in Phasers /\ ~Called(t, cur[t])
  BY <1>1, PlaceFacts
<1>3. Place(t)'
  BY <1>1 DEF Place, Shift, Called
<1>4. Fits(t)'
  <2>1. ASSUME NEW c \in Phasers, Passed(t, c)'
        PROVE  snap'[t][c].pending = 0 /\ (op'[t] = "aaa" => snap'[t][c].parties # 0)
    <3>1. Passed(t, c) /\ c # cur[t]
      BY <1>2, <2>1 DEF Passed, Called, Shift
    <3>2. QED BY <1>1, <3>1 DEF Fits, Shift
  <2>2. pc'[t] # "client" /\ op'[t] # "none"
    BY <1>1 DEF Fits, Shift
  <2>3. QED BY <2>1, <2>2 DEF Fits, Shift
<1>5. Dated(t)'
  <2>1. ASSUME NEW q \in Phasers PROVE Old(snap'[t][q])
    BY <1>1, <1>2 DEF Dated, Shift
  <2>2. Now' = Now
    BY DEF Now, Still
  <2>3. /\ Old(copy'[t]) /\ Old(out'[t]) /\ seen'[t] <= Now
        /\ held'[t] \in 0 .. Weight[t] /\ left'[t] \in 0 .. held'[t]
    BY <1>1 DEF Dated, Shift
  <2>4. \A x : Old(x) => x.phase <= Now' /\ (x.term => ~Live' /\ x.phase = Now')
    BY DEF Old, Still, Now, Live
  <2>5. QED BY <2>1, <2>2, <2>3, <2>4 DEF Dated, Old
<1>6. Pins(t)'
  <2>1. ASSUME NEW c \in Phasers, Entering(t, c)', ~o.term PROVE o.phase = Now
    <3>1. op[t] = "register" /\ l = "ret" /\ caller[t][cur[t]] = c
      BY <2>1 DEF Entering, Shift, Entry
    <3>2. c # NoPhaser
      BY TreeAssumption
    <3>3. QED BY <2>1, <3>1, <3>2
  <2>2. Now' = Now
    BY DEF Now, Still
  <2>3. QED BY <2>1, <2>2 DEF Pins, Shift
<1>7. Heard(t)'
  BY DEF Heard, Shift
<1>8. QED BY <1>3, <1>4, <1>5, <1>6, <1>7 DEF Mine

(***************************************************************************)
(* An arrival's compare-and-swap.                                          *)
(***************************************************************************)

\* What the arrival finds: a word of this phase with somebody pending.
LEMMA ArriveFinds ==
  ASSUME IInv, Tree, TreeInv, NEW t \in Threads, pc[t] = "cas", op[t] \in ArriveOps,
         state[cur[t]] = snap[t][cur[t]]
  PROVE  LET p == cur[t]
             s == snap[t][p]
             d == Deregisters(t, p)
             w == Adjusted(s, d)
         IN /\ s \in Word /\ Shaped(s) /\ s.term = FALSE /\ s.phase = Now /\ seen[t] = Now
            /\ s.parties # 0 /\ s.pending # 0 /\ unarrived_of(s) = s.pending
            /\ d \in {0, 1} /\ w \in Word /\ Shaped(w) /\ w.phase = Now /\ w.term = FALSE
            /\ w.pending = s.pending - 1 /\ w.parties = s.parties - d
            /\ Old(s) /\ Old(w)
<1> DEFINE p == cur[t]
           s == snap[t][p]
           d == Deregisters(t, p)
           w == Adjusted(s, d)
<1>1. /\ p \in Phasers /\ s \in Word /\ Shaped(s) /\ ~s.term /\ unarrived_of(s) # 0
  BY InPhaser DEF Fit, CanCas
<1>2. s.parties # 0 /\ s.pending # 0 /\ unarrived_of(s) = s.pending /\ s.term = FALSE
  BY <1>1 DEF unarrived_of, Word
<1>3. Keeps(t) /\ Dated(t) /\ InPhase(t)
  BY DEF TreeInv, Mine, Keeps
<1>4. seen[t] = Now
  BY <1>3 DEF Keeps, Arrives, ArrivesAndWaits, ArriveOps, Trying, Unarrived, Now
<1>5. s.phase = Now
  BY <1>3, <1>4 DEF InPhase
<1>6. d \in {0, 1}
  BY DEF Deregisters
<1>7. /\ w \in Word /\ Shaped(w) /\ w.phase = s.phase /\ w.term = s.term
      /\ w.pending = s.pending - 1
  BY <1>1, <1>6, AdjustedWord
<1>8. w.parties = s.parties - d
  BY DEF Adjusted
<1>9. Old(s) /\ Old(w)
  <2>1. Now \in Int
    BY <1>1, <1>5, WidthAssumption DEF Word, Phase
  <2>2. QED BY <1>2, <1>5, <1>7, <2>1 DEF Old
<1>10. QED BY <1>1, <1>2, <1>4, <1>5, <1>6, <1>7, <1>8, <1>9

\* How many of its parties t keeps, and what it believes then.
LEMMA ArriveBeliefs ==
  ASSUME IInv, Tree, TreeInv, NEW t \in Threads, pc[t] = "cas", op[t] \in ArriveOps,
         seen[t] = Now, NEW d \in {0, 1}, Still,
         IF cur[t] = Home[t]
         THEN /\ left'[t] = left[t] - 1 /\ held'[t] = held[t] - d
              /\ d = 1 <=> op[t] = "dereg"
         ELSE held'[t] = held[t] /\ left'[t] = left[t],
         todo'[t] = todo[t], seen'[t] = seen[t]
  PROVE  /\ role[t] = "in" /\ Now' = Now
         /\ held'[t] \in 0 .. Weight[t] /\ left'[t] \in 0 .. held'[t]
         /\ op[t] = "aaa" => Waiting(t)'
         /\ op[t] # "aaa" => Arrived(t)'
         /\ cur[t] = Home[t] => left[t] > 0 /\ held[t] > 0
<1>1. /\ Keeps(t) /\ held[t] \in 0 .. Weight[t] /\ left[t] \in 0 .. held[t]
      /\ Weight[t] \in Nat /\ todo[t] \in Int
  BY ClientAssumption, WidthAssumption DEF TreeInv, Mine, Dated, IInv, ClientType
<1>2. role[t] = "in"
  BY <1>1 DEF Keeps, Arrives, ArrivesAndWaits, ArriveOps
<1>3. Now' = Now
  BY DEF Still, Now
<1>4. CASE cur[t] = Home[t]
  <2>1. /\ Unarrived(t) /\ (op[t] = "aaa" => todo[t] = 1)
    BY <1>1, <1>4 DEF Keeps, Arrives, ArrivesAndWaits, ArriveOps, Trying, AtHome
  <2>2. left[t] > 0 /\ todo[t] = left[t] /\ seen[t] = Now
    BY <2>1 DEF Unarrived, Now
  <2>3. held'[t] \in 0 .. Weight[t] /\ left'[t] \in 0 .. held'[t]
    BY <1>1, <1>4, <2>2
  <2>4. ASSUME op[t] = "aaa" PROVE Waiting(t)'
    <3>1. left'[t] = 0 /\ held'[t] > 0
      BY <1>1, <1>4, <2>1, <2>2, <2>4
    <3>2. QED BY <1>3, <2>2, <3>1 DEF Waiting, Now
  <2>5. Arrived(t)'
    <3>1. CASE todo[t] > 1
      BY <1>1, <1>3, <1>4, <2>2, <3>1 DEF Arrived, Now
    <3>2. CASE ~(todo[t] > 1)
      <4>1. left'[t] = 0
        BY <1>1, <1>4, <2>2, <3>2
      <4>2. held'[t] = 0 \/ Waiting(t)'
        BY <1>3, <2>2, <2>3, <4>1 DEF Waiting, Now
      <4>3. QED BY <3>2, <4>2 DEF Arrived
    <3>3. QED BY <3>1, <3>2
  <2>6. left[t] > 0 /\ held[t] > 0
    BY <1>1, <2>2
  <2>7. QED BY <1>2, <1>3, <2>3, <2>4, <2>5, <2>6
<1>5. CASE cur[t] # Home[t]
  <2>1. held'[t] = held[t] /\ left'[t] = left[t]
    BY <1>5
  <2>2. (op[t] = "aaa" => Waiting(t)) /\ (op[t] # "aaa" => Arrived(t))
    BY <1>1, <1>5 DEF Keeps, Arrives, ArrivesAndWaits, ArriveOps, Trying, AtHome
  <2>3. (op[t] = "aaa" => Waiting(t)') /\ (op[t] # "aaa" => Arrived(t)')
    BY <2>1, <2>2, Beliefs
  <2>4. QED BY <1>1, <1>2, <1>3, <1>5, <2>1, <2>3
<1>6. QED BY <1>4, <1>5

\* t after its arrival: it returns, waits, is in charge of the advance, or
\* goes on to the parent.
LEMMA ArriveMine ==
  ASSUME IInv, Tree, TreeInv, NEW t \in Threads, pc[t] = "cas",
         state[cur[t]] = snap[t][cur[t]],
         ArriveCas(t, cur[t], snap[t][cur[t]]), UNCHANGED <<copy, lock, op, client>>
  PROVE  LET p == cur[t]
             w == Adjusted(snap[t][p], Deregisters(t, p))
         IN /\ Mine(t)' /\ \A u \in Threads : u # t => Same(u)
            /\ op'[t] = op[t] /\ snap'[t][p] = w
            /\ \A q \in Phasers : q # p => snap'[t][q] = snap[t][q]
            /\ \/ /\ snap[t][p].pending # 1 /\ pc'[t] \in {"await", "ret"}
                  /\ cur'[t] = cur[t] /\ caller'[t] = caller[t]
               \/ /\ p = Root /\ pc'[t] = "adv"
                  /\ cur'[t] = cur[t] /\ caller'[t] = caller[t]
               \/ /\ snap[t][p].pending = 1 /\ p # Root /\ pc'[t] = "load"
                  /\ Climb(t, w)
<1> DEFINE p == cur[t]
           s == snap[t][p]
           d == Deregisters(t, p)
           w == Adjusted(s, d)
           k == copy[t]
<1>1. /\ p \in Phasers /\ Mine(t) /\ Rooted /\ LocalType /\ GhostType /\ pc[t] # "client"
      /\ op[t] \in ArriveOps /\ state \in [Phasers -> Word] /\ Place(t) /\ Dated(t)
      /\ state[Root] \in Word
  BY InPhaser DEF ArriveCas, TreeInv, Tree, IInv, LocalInv, SharedType, Mine
<1>2. /\ s \in Word /\ Shaped(s) /\ s.term = FALSE /\ s.phase = Now /\ seen[t] = Now
      /\ s.parties # 0 /\ s.pending # 0 /\ unarrived_of(s) = s.pending
      /\ d \in {0, 1} /\ w \in Word /\ Shaped(w) /\ w.phase = Now /\ w.term = FALSE
      /\ w.pending = s.pending - 1 /\ w.parties = s.parties - d
      /\ Old(s) /\ Old(w)
  BY <1>1, ArriveFinds
<1>3. d = 1 /\ p = Home[t] => op[t] = "dereg"
  BY DEF Deregisters
<1>4. p = Home[t] /\ op[t] = "dereg" => d = 1
  BY DEF Deregisters
<1>5. op[t] = "aaa" => d = 0
  BY DEF Deregisters
<1>6. /\ state' = [state EXCEPT ![p] = w] /\ snap' = [snap EXCEPT ![t][p] = w]
      /\ \/ /\ s.pending # 1 /\ op[t] = "aaa" /\ Goto(t, "await", make(s))
            /\ UNCHANGED <<cur, caller>>
         \/ /\ s.pending # 1 /\ op[t] # "aaa" /\ Goto(t, "ret", make(w))
            /\ UNCHANGED <<cur, caller>>
         \/ p = Root /\ Goto(t, "adv", make(w)) /\ UNCHANGED <<cur, caller>>
         \/ s.pending = 1 /\ p # Root /\ CallParent(t, p)
  BY <1>2 DEF ArriveCas, Return
<1>7. IF p = Home[t]
      THEN left'[t] = left[t] - 1 /\ held'[t] = held[t] - d
      ELSE held'[t] = held[t] /\ left'[t] = left[t]
  <2>1. CASE p = Home[t]
    <3>1. left' = [left EXCEPT ![t] = @ - 1] /\ held' = [held EXCEPT ![t] = @ - d]
      BY <2>1 DEF ArriveCas
    <3>2. QED BY <1>1, <2>1, <3>1 DEF GhostType
  <2>2. CASE p # Home[t]
    BY <2>2 DEF ArriveCas, ghost
  <2>3. QED BY <2>1, <2>2
<1> HIDE DEF w, d
<1>8. Still
  <2>1. state'[p] = w /\ \A q \in Phasers : q # p => state'[q] = state[q]
    BY <1>1, <1>6
  <2>2. CASE p = Root
    BY <1>2, <2>1, <2>2 DEF Still, Now
  <2>3. CASE p # Root
    BY <2>1, <2>3, TreeAssumption DEF Still, Now
  <2>4. QED BY <2>2, <2>3
<1>9. todo'[t] = todo[t] /\ seen'[t] = seen[t] /\ role'[t] = role[t]
  BY DEF client
<1>10. /\ role[t] = "in" /\ Now' = Now
       /\ held'[t] \in 0 .. Weight[t] /\ left'[t] \in 0 .. held'[t]
       /\ op[t] = "aaa" => Waiting(t)'
       /\ op[t] # "aaa" => Arrived(t)'
  BY <1>1, <1>2, <1>3, <1>4, <1>7, <1>8, <1>9, ArriveBeliefs
<1>11. \A u \in Threads : u # t => Same(u)
  BY <1>1, <1>6 DEF Goto, CallParent, LocalType, Same, client
<1>12. /\ op'[t] = op[t] /\ snap'[t][p] = w /\ copy'[t] = k
       /\ \A q \in Phasers : q # p => snap'[t][q] = snap[t][q]
  BY <1>1, <1>6 DEF LocalType
<1>13. /\ make(s).term = FALSE /\ make(s).phase = Now /\ make(s).cond = "normal"
       /\ make(w).term = FALSE /\ make(w).phase = Now /\ make(w).cond = "normal"
       /\ Old(make(s)) /\ Old(make(w)) /\ Old(k) /\ NoOut.term = FALSE
  <2>1. Old(k)
    BY <1>1 DEF Dated
  <2>2. QED BY <1>1, <1>2, <2>1, Made
<1>14. op[t] \in {"arrive", "dereg"} \/ op[t] = "aaa"
  BY <1>1 DEF ArriveOps
<1>15. ASSUME NEW l \in {"await", "ret", "adv"}, NEW o, Goto(t, l, o), Old(o),
              UNCHANGED <<cur, caller>>,
              o.term = FALSE, o.phase = Now, o.cond = "normal",
              l = "await" => op[t] = "aaa", l = "ret" => op[t] # "aaa"
       PROVE  Mine(t)' /\ pc'[t] = l
  <2>1. pc'[t] = l /\ out'[t] = o
    BY <1>1, <1>15 DEF Goto, LocalType
  <2>2. Shift(t, l, o, k, w)
    BY <1>9, <1>10, <1>12, <1>15, <2>1 DEF Shift
  <2>3. l \notin Trying
    BY DEF Trying
  <2>4. InPhase(t)'
    BY <2>1 DEF InPhase
  <2>5. CASE op[t] = "aaa"
    <3>1. ArrivesAndWaits(t)'
      BY <1>2, <1>9, <1>10, <1>15, <2>1, <2>3, <2>5 DEF ArrivesAndWaits, ToldNext
    <3>2. Keeps(t)'
      BY <1>12, <2>4, <2>5, <3>1 DEF Keeps
    <3>3. QED BY <1>1, <1>2, <1>8, <1>13, <1>15, <2>1, <2>2, <2>5, <3>2, ShiftMine
  <2>6. CASE op[t] \in {"arrive", "dereg"}
    <3>1. Arrives(t)'
      BY <1>2, <1>9, <1>10, <1>15, <2>1, <2>3, <2>6 DEF Arrives
    <3>2. Keeps(t)'
      BY <1>12, <2>4, <2>6, <3>1 DEF Keeps, ArriveOps
    <3>3. QED BY <1>1, <1>2, <1>8, <1>13, <1>15, <2>1, <2>2, <2>6, <3>2, ShiftMine
  <2>7. QED BY <1>14, <2>5, <2>6
<1>16. CASE s.pending # 1 /\ op[t] = "aaa" /\ Goto(t, "await", make(s)) /\ UNCHANGED <<cur, caller>>
  <2>1. Mine(t)' /\ pc'[t] = "await"
    BY <1>13, <1>15, <1>16
  <2>2. cur'[t] = cur[t] /\ caller'[t] = caller[t]
    BY <1>16
  <2>3. QED BY <1>11, <1>12, <1>16, <2>1, <2>2 DEF w, d
<1>17. CASE s.pending # 1 /\ op[t] # "aaa" /\ Goto(t, "ret", make(w)) /\ UNCHANGED <<cur, caller>>
  <2>1. Mine(t)' /\ pc'[t] = "ret"
    BY <1>13, <1>15, <1>17
  <2>2. cur'[t] = cur[t] /\ caller'[t] = caller[t]
    BY <1>17
  <2>3. QED BY <1>11, <1>12, <1>17, <2>1, <2>2 DEF w, d
<1>18. CASE p = Root /\ Goto(t, "adv", make(w)) /\ UNCHANGED <<cur, caller>>
  <2>1. Mine(t)' /\ pc'[t] = "adv"
    BY <1>13, <1>15, <1>18
  <2>2. cur'[t] = cur[t] /\ caller'[t] = caller[t]
    BY <1>18
  <2>3. QED BY <1>11, <1>12, <1>18, <2>1, <2>2 DEF w, d
<1>19. CASE s.pending = 1 /\ p # Root /\ CallParent(t, p)
  <2>1. Climb(t, w) /\ pc'[t] = "load" /\ out'[t] = NoOut
    BY <1>1, <1>9, <1>12, <1>19 DEF CallParent, Goto, LocalType, Climb
  <2>2. cur'[t] # Home[t]
    BY <1>1, <1>19, <2>1, ClimbPlace
  <2>3. InPhase(t)'
    BY <2>1 DEF InPhase
  <2>4. ~AtHome(t)' /\ seen'[t] = Now'
    BY <1>2, <1>9, <1>10, <2>2 DEF AtHome
  <2>5. Keeps(t)'
    <3>1. CASE op[t] = "aaa"
      <4>1. ArrivesAndWaits(t)'
        BY <1>9, <1>10, <2>1, <2>4, <3>1 DEF ArrivesAndWaits, ToldNext, Trying
      <4>2. QED BY <1>12, <2>3, <3>1, <4>1 DEF Keeps
    <3>2. CASE op[t] \in {"arrive", "dereg"}
      <4>1. Arrives(t)'
        BY <1>9, <1>10, <2>1, <2>4, <3>2 DEF Arrives, Trying
      <4>2. QED BY <1>12, <2>3, <3>2, <4>1 DEF Keeps, ArriveOps
    <3>3. QED BY <1>14, <3>1, <3>2
  <2>6. w.pending = 0 /\ (op[t] = "aaa" => w.parties # 0)
    <3>1. s.parties \in Int
      BY <1>2, WidthAssumption DEF Word, Count
    <3>2. op[t] = "aaa" => w.parties = s.parties - 0
      BY <1>2, <1>5 DEF d
    <3>3. QED BY <1>2, <1>19, <3>1, <3>2
  <2>7. Mine(t)'
    BY <1>1, <1>2, <1>8, <1>10, <1>19, <2>1, <2>5, <2>6, ClimbMine
  <2>8. QED BY <1>11, <1>12, <1>19, <2>1, <2>7 DEF w, d
<1>20. QED BY <1>6, <1>16, <1>17, <1>18, <1>19 DEF w, d

\* t's claims before and after its arrival at p.
LEMMA ArriveClaims ==
  ASSUME IInv, Tree, TreeInv, NEW t \in Threads, pc[t] = "cas", op[t] \in ArriveOps,
         op'[t] = op[t],
         \A q \in Phasers : q # cur[t] => snap'[t][q] = snap[t][q],
         \/ /\ pc'[t] \in {"await", "ret", "adv"}
            /\ cur'[t] = cur[t] /\ caller'[t] = caller[t]
         \/ /\ cur[t] # Root /\ pc'[t] = "load" /\ \E w : Climb(t, w)
  PROVE  LET p == cur[t]
         IN \A q \in Phasers :
              /\ ~Entering(t, q) /\ ~Entering(t, q)' /\ ~LockHeld(t, q) /\ ~LockHeld(t, q)'
              /\ ArrivesFor(t, q) <=> caller[t][p] = q
              /\ ArrivesFor(t, q)' <=> (q = p /\ pc'[t] = "load")
              /\ Passed(t, q)' =>
                   \/ Passed(t, q) /\ q # p /\ snap'[t][q] = snap[t][q]
                   \/ q = p /\ pc'[t] = "load"
<1> DEFINE p == cur[t]
<1>1. /\ Place(t) /\ Rooted /\ pc[t] # "client" /\ p \in Phasers /\ ~Called(t, p)
  BY PlaceFacts DEF TreeInv, Mine, Tree
<1>2. op[t] # "register" /\ op'[t] # "register"
  BY DEF ArriveOps
<1> SUFFICES ASSUME NEW q \in Phasers
             PROVE  /\ ~Entering(t, q) /\ ~Entering(t, q)' /\ ~LockHeld(t, q) /\ ~LockHeld(t, q)'
                    /\ ArrivesFor(t, q) <=> caller[t][p] = q
                    /\ ArrivesFor(t, q)' <=> (q = p /\ pc'[t] = "load")
                    /\ Passed(t, q)' =>
                         \/ Passed(t, q) /\ q # p /\ snap'[t][q] = snap[t][q]
                         \/ q = p /\ pc'[t] = "load"
  OBVIOUS
<1>3. ~Entering(t, q) /\ ~Entering(t, q)' /\ ~LockHeld(t, q) /\ ~LockHeld(t, q)'
  BY <1>2 DEF Entering, LockHeld
<1>4. ArrivesFor(t, q) <=> caller[t][p] = q
  BY DEF ArrivesFor, Trying
<1>5. CASE /\ pc'[t] \in {"await", "ret", "adv"}
           /\ cur'[t] = cur[t] /\ caller'[t] = caller[t]
  <2>1. ~ArrivesFor(t, q)' /\ pc'[t] # "load"
    BY <1>5 DEF ArrivesFor, Trying
  <2>2. ASSUME Passed(t, q)' PROVE Passed(t, q) /\ q # p /\ snap'[t][q] = snap[t][q]
    <3>1. Called(t, q)
      BY <1>5, <2>2 DEF Passed, Called
    <3>2. q # p
      BY <1>1, <3>1
    <3>3. QED BY <3>1, <3>2 DEF Passed
  <2>3. QED BY <1>3, <1>4, <2>1, <2>2
<1>6. CASE cur[t] # Root /\ pc'[t] = "load" /\ \E w : Climb(t, w)
  <2>1. PICK w : Climb(t, w)
    BY <1>6
  <2>2. /\ Called(t, q)' <=> (Called(t, q) \/ q = p)
        /\ caller'[t][cur'[t]] = p
    BY <1>1, <1>6, <2>1, ClimbPlace
  <2>3. ArrivesFor(t, q)' <=> q = p
    BY <1>6, <2>2 DEF ArrivesFor, Trying
  <2>4. ASSUME Passed(t, q)', q # p PROVE Passed(t, q) /\ snap'[t][q] = snap[t][q]
    BY <1>6, <2>2, <2>4 DEF Passed
  <2>5. QED BY <1>3, <1>4, <1>6, <2>3, <2>4
<1>7. QED BY <1>5, <1>6

\* The child that t arrives for: it is full, and t alone is in charge of it.
LEMMA CallerDone ==
  ASSUME IInv, Tree, TreeInv, Live, NEW t \in Threads, pc[t] = "cas", op[t] \in ArriveOps,
         NEW c \in Phasers, caller[t][cur[t]] = c
  PROVE  /\ c # Root /\ c # cur[t] /\ Parent[c] = cur[t] /\ cur[t] # Home[t]
         /\ ArrivesFor(t, c)
         /\ state[c] = snap[t][c] /\ Due(c) = 0 /\ touched
         /\ op[t] = "aaa" => state[c].parties # 0
         /\ \A u \in Threads : /\ ~Entering(u, c)
                               /\ u # t => ~ArrivesFor(u, c)
<1>1. /\ Place(t) /\ Fits(t) /\ Finish(t) /\ Alone /\ Rooted /\ pc[t] # "client"
      /\ c # NoPhaser /\ cur[t] \in Phasers
  BY InPhaser, TreeAssumption DEF TreeInv, Mine, Tree, LiveInv
<1>2. c # Root /\ c # cur[t] /\ Parent[c] = cur[t] /\ cur[t] # Home[t]
  BY <1>1, PlaceFacts
<1>3. ArrivesFor(t, c)
  BY DEF ArrivesFor, Trying
<1>4. Passed(t, c) /\ snap[t][c].phase = Now /\ touched
  BY <1>1, <1>3, Claims DEF Finish, Tree
<1>5. /\ state[c] = snap[t][c] /\ snap[t][c].pending = 0
      /\ op[t] = "aaa" => snap[t][c].parties # 0
  BY <1>1, <1>4 DEF Finish, Fits
<1>6. Due(c) = 0
  BY <1>4, <1>5 DEF Due
<1>7. ASSUME NEW u \in Threads, Entering(u, c) PROVE FALSE
  <2>1. LockHeld(u, c) /\ Locks(u)
    BY <1>1, <1>7, Claims DEF TreeInv, LiveInv
  <2>2. QED BY <1>5, <2>1 DEF Locks
<1>8. ASSUME NEW u \in Threads, ArrivesFor(u, c) PROVE u = t
  <2>1. Passed(u, c) /\ Finish(u)
    BY <1>1, <1>8, Claims DEF TreeInv, LiveInv
  <2>2. snap[u][c].phase = Now
    BY <1>8, <2>1 DEF Finish
  <2>3. QED BY <1>1, <1>4, <2>1, <2>2 DEF Alone
<1>9. QED BY <1>2, <1>3, <1>4, <1>5, <1>6, <1>7, <1>8

\* Who is registered and who owes after t's arrival at p.
LEMMA ArriveSets ==
  ASSUME IInv, Tree, TreeInv, Live, NEW t \in Threads, pc[t] = "cas", op[t] \in ArriveOps,
         NEW p, p = cur[t], NEW s, NEW w, s = state[p], Now' = Now,
         s.parties # 0, s.pending # 0, s.phase = Now, s.parties \in Nat, s.pending \in Nat,
         s.pending <= s.parties,
         w.parties = s.parties - Deregisters(t, p), w.pending = s.pending - 1,
         w.phase = Now, Deregisters(t, p) \in {0, 1},
         state'[p] = w, \A q \in Phasers : q # p => state'[q] = state[q],
         snap'[t][p] = w, pc'[t] = "load" <=> (s.pending = 1 /\ p # Root),
         \A u \in Threads : u # t => Same(u),
         \A q \in Phasers :
              /\ ~Entering(t, q) /\ ~Entering(t, q)'
              /\ ArrivesFor(t, q) <=> caller[t][p] = q
              /\ ArrivesFor(t, q)' <=> (q = p /\ pc'[t] = "load")
  PROVE  /\ Due(p)' = Due(p) - 1 /\ Due(p) \in Nat
         /\ \A q \in Phasers : q # p => Due(q)' = Due(q)
         /\ \A q \in Phasers \ {Root} :
              /\ q \in Owing' <=> q \in Owing /\ caller[t][p] # q
              /\ q \in Regd' <=>
                   q \in Regd /\ ~(caller[t][p] = q /\ Deregisters(t, p) = 1)
              /\ caller[t][p] = q => q \in Owing /\ q \in Regd
<1> DEFINE d == Deregisters(t, p)
           c == caller[t][p]
<1>1. /\ p \in Phasers /\ c # p /\ Place(t) /\ pc[t] # "client" /\ Rooted
      /\ c # NoPhaser => c \in Phasers
  <2>1. Place(t) /\ pc[t] # "client" /\ Rooted
    BY DEF TreeInv, Mine, Tree
  <2>2. p \in Phasers /\ p # NoPhaser
    BY <2>1, PlaceFacts, TreeAssumption
  <2>3. QED BY <2>1, <2>2, PlaceFacts
<1>2. Due(p) = s.pending
  BY DEF Due
<1>3. Due(p)' = s.pending - 1
  <2>1. Due(p)' = IF w.parties = 0 THEN 0 ELSE IF w.phase = Now' THEN w.pending ELSE w.parties
    BY <1>1 DEF Due
  <2>2. w.parties = 0 => s.pending = 1
    <3>1. d = 0 \/ d = 1
      OBVIOUS
    <3>2. s.parties = 1 \/ w.parties # 0
      BY <3>1
    <3>3. QED BY <3>2
  <2>3. QED BY <2>1, <2>2
<1>4. ASSUME NEW q \in Phasers, q # p PROVE Due(q)' = Due(q)
  BY <1>4 DEF Due
<1>5. ASSUME NEW u \in Threads, u # t, NEW q \in Phasers
      PROVE  /\ ArrivesFor(u, q)' <=> ArrivesFor(u, q)
             /\ snap'[u][q] = snap[u][q]
             /\ Entering(u, q)' <=> Entering(u, q)
  BY <1>5, SteadySame DEF Steady, Same
<1>6. ASSUME NEW q \in Phasers
      PROVE  /\ q \in Owing <=> \/ Due(q) # 0 \/ c = q
                                \/ \E u \in Threads : u # t /\ (ArrivesFor(u, q) \/ Entering(u, q))
             /\ q \in Owing' <=> \/ Due(q)' # 0 \/ (q = p /\ pc'[t] = "load")
                                 \/ \E u \in Threads : u # t /\ (ArrivesFor(u, q) \/ Entering(u, q))
  BY <1>5 DEF Owing
<1>7. ASSUME NEW q \in Phasers
      PROVE  /\ q \in Regd <=>
                  \/ state[q].parties # 0 \/ (c = q /\ snap[t][q].parties = 0)
                  \/ \E u \in Threads :
                       u # t /\ ((ArrivesFor(u, q) /\ snap[u][q].parties = 0) \/ Entering(u, q))
             /\ q \in Regd' <=>
                  \/ state'[q].parties # 0 \/ (q = p /\ pc'[t] = "load" /\ w.parties = 0)
                  \/ \E u \in Threads :
                       u # t /\ ((ArrivesFor(u, q) /\ snap[u][q].parties = 0) \/ Entering(u, q))
  BY <1>5 DEF Regd
<1>8. ASSUME NEW q \in Phasers \ {Root}
      PROVE  /\ q \in Owing' <=> q \in Owing /\ c # q
             /\ q \in Regd' <=> q \in Regd /\ ~(c = q /\ d = 1)
             /\ c = q => q \in Owing /\ q \in Regd
  <2>1. CASE q = p
    <3>1. q \in Owing /\ q \in Regd /\ c # q
      BY <1>1, <1>2, <1>6, <1>7, <2>1
    <3>2. q \in Owing'
      <4>1. CASE s.pending = 1
        BY <1>6, <2>1, <4>1
      <4>2. CASE s.pending # 1
        <5>1. Due(p)' # 0
          BY <1>3, <4>2
        <5>2. QED BY <1>6, <2>1, <5>1
      <4>3. QED BY <4>1, <4>2
    <3>3. q \in Regd'
      <4>1. CASE w.parties = 0
        <5>1. s.pending = 1
          BY <4>1
        <5>2. QED BY <1>7, <2>1, <4>1, <5>1
      <4>2. CASE w.parties # 0
        BY <1>7, <2>1, <4>2
      <4>3. QED BY <4>1, <4>2
    <3>4. QED BY <3>1, <3>2, <3>3
  <2>2. CASE q # p /\ q # c
    BY <1>4, <1>6, <1>7, <2>2
  <2>3. CASE q # p /\ q = c
    <3>1. /\ state[q] = snap[t][q] /\ Due(q) = 0 /\ p # Home[t]
          /\ op[t] = "aaa" => state[q].parties # 0
          /\ \A u \in Threads : ~Entering(u, q) /\ (u # t => ~ArrivesFor(u, q))
      BY <2>3, CallerDone
    <3>2. d = 1 <=> state[q].parties = 0
      BY <2>3, <3>1 DEF Deregisters
    <3>3. q \in Owing /\ q \in Regd
      BY <1>6, <1>7, <2>3, <3>1
    <3>4. q \notin Owing'
      BY <1>4, <1>6, <2>3, <3>1
    <3>5. q \in Regd' <=> d # 1
      BY <1>7, <2>3, <3>1, <3>2
    <3>6. QED BY <2>3, <3>3, <3>4, <3>5
  <2>4. QED BY <2>1, <2>2, <2>3
<1>9. QED BY <1>2, <1>3, <1>4, <1>8

\* One party of t, or the child c, of p less.
Down(f, g, S, R, p, t, c) ==
  \/ /\ Home[t] = p /\ f[t] # 0 /\ g[t] = f[t] - 1
     /\ \A u \in Threads : u # t => g[u] = f[u]
     /\ \A q \in Phasers \ {Root} : q \in R <=> q \in S
  \/ /\ g = f /\ c \in Phasers \ {Root} /\ Parent[c] = p /\ c \in S
     /\ \A q \in Phasers \ {Root} : q \in R <=> q \in S /\ q # c

\* That is one less in the count.
LEMMA TotalDown ==
  ASSUME Tree, NEW f \in [Threads -> 0 .. CountSize], NEW g,
         NEW S \in SUBSET Phasers, NEW R \in SUBSET Phasers, NEW p \in Phasers,
         NEW t \in Threads, NEW c, Down(f, g, S, R, p, t, c)
  PROVE  \A q \in Phasers : Total(q, g, R) =
           IF q = p THEN Total(q, f, S) - 1 ELSE Total(q, f, S)
<1> SUFFICES ASSUME NEW q \in Phasers
             PROVE  Total(q, g, R) = IF q = p THEN Total(q, f, S) - 1 ELSE Total(q, f, S)
  OBVIOUS
<1>1. CASE /\ Home[t] = p /\ f[t] # 0 /\ g[t] = f[t] - 1
           /\ \A u \in Threads : u # t => g[u] = f[u]
           /\ \A x \in Phasers \ {Root} : x \in R <=> x \in S
  <2>1. Total(q, g, S) = IF q = Home[t] THEN Total(q, f, S) - 1 ELSE Total(q, f, S)
    <3>1. f[t] # 0 /\ g[t] = f[t] - 1 /\ \A u \in Threads : u # t => g[u] = f[u]
      BY <1>1
    <3>2. QED BY <3>1, TotalLess
  <2>2. Total(q, g, R) = Total(q, g, S)
    BY <1>1, TotalAlike
  <2>3. QED BY <1>1, <2>1, <2>2
<1>2. CASE /\ g = f /\ c \in Phasers \ {Root} /\ Parent[c] = p /\ c \in S
           /\ \A x \in Phasers \ {Root} : x \in R <=> x \in S /\ x # c
  BY <1>2, TotalLost
<1>3. QED BY <1>1, <1>2 DEF Down

\* A phaser of this phase with somebody pending is nobody's to finish or to
\* register.
LEMMA Busy ==
  ASSUME TreeInv, Live, NEW p \in Phasers,
         state[p].phase = Now, state[p].parties # 0, state[p].pending # 0,
         NEW u \in Threads
  PROVE  ~LockHeld(u, p) /\ ~(Passed(u, p) /\ snap[u][p].phase = Now)
<1>1. Locks(u) /\ Finish(u) /\ Fits(u)
  BY DEF TreeInv, LiveInv, Mine
<1>2. ~LockHeld(u, p)
  BY <1>1 DEF Locks
<1>3. Passed(u, p) /\ snap[u][p].phase = Now => state[p] = snap[u][p] /\ snap[u][p].pending = 0
  BY <1>1 DEF Finish, Fits
<1>4. QED BY <1>2, <1>3

\* t stores w, of this phase, in p.
LEMMA TreeStore ==
  ASSUME TreeInv, NEW t \in Threads, NEW p \in Phasers, NEW w,
         state'[p] = w, \A q \in Phasers : q # p => state'[q] = state[q], Still,
         w.phase = Now, w.term => ~Live', Now \in Nat, Mine(t)',
         \A u \in Threads : u # t => /\ Same(u)
                                     /\ held'[u] = held[u] /\ left'[u] = left[u],
         Live' => LiveInv'
  PROVE  TreeInv'
<1>1. Now' = Now /\ (~Live => ~Live')
  BY DEF Now, Still, Live
<1>2. ASSUME NEW q \in Phasers PROVE Old(state[q])'
  <2>1. state'[q].phase <= Now' /\ (state'[q].term => ~Live' /\ state'[q].phase = Now')
    <3>1. CASE q = p
      BY <1>1, <3>1
    <3>2. CASE q # p
      BY <1>1, <3>2 DEF TreeInv, Old
    <3>3. QED BY <3>1, <3>2
  <2>2. QED BY <2>1 DEF Old
<1>3. ASSUME NEW u \in Threads PROVE Mine(u)'
  <2>1. CASE u = t
    BY <2>1
  <2>2. CASE u # t
    BY <2>2, MineFrame DEF TreeInv
  <2>3. QED BY <2>1, <2>2
<1>4. Lags'
  <2>1. ASSUME NEW c \in Phasers
        PROVE  \/ state'[c].phase = Now'
               \/ state'[c].parties = 0
               \/ state'[c].pending = 0 /\ Now' = state'[c].phase + 1
    <3>1. CASE c = p
      BY <1>1, <3>1
    <3>2. CASE c # p
      BY <1>1, <3>2 DEF TreeInv, Lags
    <3>3. QED BY <3>1, <3>2
  <2>2. QED BY <2>1 DEF Lags
<1>5. QED BY <1>2, <1>3, <1>4 DEF TreeInv

\* The books after t's arrival at p.
LEMMA ArriveBooks ==
  ASSUME IInv, Tree, TreeInv, Live, NEW t \in Threads, pc[t] = "cas", op[t] \in ArriveOps,
         NEW p, p = cur[t], NEW s, NEW w, s = state[p], Now' = Now,
         s.parties # 0, s.pending # 0, s.phase = Now, s.parties \in Nat, s.pending \in Nat,
         s.pending <= s.parties, NEW d \in {0, 1}, d = Deregisters(t, p),
         w.parties = s.parties - d, w.pending = s.pending - 1, w.phase = Now,
         state'[p] = w, \A q \in Phasers : q # p => state'[q] = state[q],
         snap'[t][p] = w, pc'[t] = "load" <=> (s.pending = 1 /\ p # Root),
         \A u \in Threads : u # t => Same(u),
         \A q \in Phasers :
              /\ ~Entering(t, q) /\ ~Entering(t, q)'
              /\ ArrivesFor(t, q) <=> caller[t][p] = q
              /\ ArrivesFor(t, q)' <=> (q = p /\ pc'[t] = "load"),
         IF p = Home[t]
         THEN /\ left[t] # 0 /\ held[t] # 0
              /\ left' = [left EXCEPT ![t] = @ - 1]
              /\ held' = [held EXCEPT ![t] = @ - d]
         ELSE held' = held /\ left' = left
  PROVE  Books'
<1>1. PICK c : c = caller[t][p]
  OBVIOUS
<1>2. /\ p \in Phasers /\ Rooted /\ Place(t) /\ pc[t] # "client" /\ Books
      /\ c = NoPhaser <=> p = Home[t]
      /\ c # NoPhaser => c \in Phasers \ {Root} /\ Parent[c] = p
      /\ NoPhaser \notin Phasers
  <2>1. Rooted /\ Place(t) /\ pc[t] # "client" /\ Books
    BY DEF TreeInv, Mine, Tree, LiveInv
  <2>2. QED BY <1>1, <2>1, PlaceFacts, TreeAssumption
<1>3. /\ Due(p)' = Due(p) - 1 /\ Due(p) \in Nat
      /\ \A q \in Phasers : q # p => Due(q)' = Due(q)
      /\ \A q \in Phasers \ {Root} :
           /\ q \in Owing' <=> q \in Owing /\ c # q
           /\ q \in Regd' <=> q \in Regd /\ ~(c = q /\ d = 1)
           /\ c = q => q \in Owing /\ q \in Regd
  BY <1>1, ArriveSets
<1>4. /\ held \in [Threads -> 0 .. CountSize] /\ left \in [Threads -> 0 .. CountSize]
      /\ Regd \in SUBSET Phasers /\ Owing \in SUBSET Phasers
      /\ Regd' \in SUBSET Phasers /\ Owing' \in SUBSET Phasers
  <2>1. Regd' \in SUBSET Phasers /\ Owing' \in SUBSET Phasers
    BY DEF Regd, Owing
  <2>2. QED BY <2>1, Counts
<1>5. Down(left, left', Owing, Owing', p, t, c)
  <2>1. CASE p = Home[t]
    <3>1. left'[t] = left[t] - 1 /\ \A u \in Threads : u # t => left'[u] = left[u]
      BY <1>4, <2>1
    <3>2. \A q \in Phasers \ {Root} : q \in Owing' <=> q \in Owing
      BY <1>2, <1>3, <2>1
    <3>3. QED BY <2>1, <3>1, <3>2 DEF Down
  <2>2. CASE p # Home[t]
    BY <1>2, <1>3, <2>2 DEF Down
  <2>3. QED BY <2>1, <2>2
<1>6. \A q \in Phasers : Total(q, left', Owing') =
         IF q = p THEN Total(q, left, Owing) - 1 ELSE Total(q, left, Owing)
  <2>1. \A g, R : /\ R \in SUBSET Phasers /\ Down(left, g, Owing, R, p, t, c)
                  => \A q \in Phasers : Total(q, g, R) =
                       IF q = p THEN Total(q, left, Owing) - 1 ELSE Total(q, left, Owing)
    BY <1>2, <1>4, TotalDown
  <2>2. QED BY <1>4, <1>5, <2>1
<1>7. CASE d = 1
  <2>1. Down(held, held', Regd, Regd', p, t, c)
    <3>1. CASE p = Home[t]
      <4>1. held'[t] = held[t] - 1 /\ \A u \in Threads : u # t => held'[u] = held[u]
        BY <1>4, <1>7, <3>1
      <4>2. \A q \in Phasers \ {Root} : q \in Regd' <=> q \in Regd
        BY <1>2, <1>3, <3>1
      <4>3. QED BY <3>1, <4>1, <4>2 DEF Down
    <3>2. CASE p # Home[t]
      BY <1>2, <1>3, <1>7, <3>2 DEF Down
    <3>3. QED BY <3>1, <3>2
  <2>2. \A q \in Phasers : Total(q, held', Regd') =
           IF q = p THEN Total(q, held, Regd) - 1 ELSE Total(q, held, Regd)
    <3>1. \A g, R : /\ R \in SUBSET Phasers /\ Down(held, g, Regd, R, p, t, c)
                    => \A q \in Phasers : Total(q, g, R) =
                         IF q = p THEN Total(q, held, Regd) - 1 ELSE Total(q, held, Regd)
      BY <1>2, <1>4, TotalDown
    <3>2. QED BY <1>4, <2>1, <3>1
  <2>3. ASSUME NEW q \in Phasers
        PROVE  state'[q].parties = Total(q, held', Regd') /\ Due(q)' = Total(q, left', Owing')
    BY <1>2, <1>3, <1>6, <1>7, <2>2, <2>3 DEF Books
  <2>4. QED BY <2>3 DEF Books
<1>8. CASE d = 0
  <2>1. held' = held
    <3>1. CASE p = Home[t]
      <4>1. held' = [held EXCEPT ![t] = @ - 0] /\ held[t] \in Int
        BY <1>4, <1>8, <3>1, WidthAssumption
      <4>2. QED BY <1>4, <4>1
    <3>2. QED BY <3>1
  <2>2. \A q \in Phasers : Total(q, held, Regd') = Total(q, held, Regd)
    BY <1>3, <1>4, <1>8, TotalAlike
  <2>3. w.parties = s.parties
    BY <1>8
  <2>4. ASSUME NEW q \in Phasers
        PROVE  state'[q].parties = Total(q, held', Regd') /\ Due(q)' = Total(q, left', Owing')
    BY <1>2, <1>3, <1>6, <2>1, <2>2, <2>3, <2>4 DEF Books
  <2>5. QED BY <2>4 DEF Books
<1>9. QED BY <1>7, <1>8

\* After t's arrival the claims that are left are sound.
LEMMA ArriveLive ==
  ASSUME IInv, Tree, TreeInv, Live, NEW t \in Threads, pc[t] = "cas", op[t] \in ArriveOps,
         NEW p, p = cur[t], NEW s, NEW w, s = state[p], Now' = Now,
         s.parties # 0, s.pending # 0, s.phase = Now, w.phase = Now,
         state'[p] = w, \A q \in Phasers : q # p => state'[q] = state[q],
         snap'[t][p] = w, lock' = lock, touched' = TRUE,
         \A u \in Threads : u # t => Same(u),
         \A q \in Phasers :
              /\ ~Entering(t, q) /\ ~Entering(t, q)' /\ ~LockHeld(t, q) /\ ~LockHeld(t, q)'
              /\ ArrivesFor(t, q)' <=> (q = p /\ pc'[t] = "load")
              /\ Passed(t, q)' =>
                   \/ Passed(t, q) /\ q # p /\ snap'[t][q] = snap[t][q]
                   \/ q = p /\ pc'[t] = "load"
  PROVE  Alone' /\ \A u \in Threads : Locks(u)' /\ Finish(u)'
<1>1. /\ p \in Phasers /\ pc[t] # "client" /\ LiveInv
  BY InPhaser DEF TreeInv
<1>2. ASSUME NEW u \in Threads
      PROVE  ~LockHeld(u, p) /\ ~(Passed(u, p) /\ snap[u][p].phase = Now)
  BY <1>1, Busy
<1>3. ASSUME NEW u \in Threads, u # t, NEW q \in Phasers
      PROVE  /\ Passed(u, q)' => Passed(u, q)
             /\ ArrivesFor(u, q)' => ArrivesFor(u, q)
             /\ LockHeld(u, q)' => LockHeld(u, q)
             /\ snap'[u] = snap[u]
  BY <1>3, SteadySame DEF Steady, Same
<1>4. ASSUME NEW u \in Threads, NEW c \in Phasers, Passed(u, c)', snap'[u][c].phase = Now'
      PROVE  \/ u = t /\ c = p /\ pc'[t] = "load"
             \/ /\ Passed(u, c) /\ snap[u][c].phase = Now /\ c # p
                /\ snap'[u][c] = snap[u][c]
  <2>1. CASE u = t
    BY <1>4, <2>1
  <2>2. CASE u # t
    BY <1>2, <1>3, <1>4, <2>2
  <2>3. QED BY <2>1, <2>2
<1>5. ASSUME NEW a \in Threads, NEW u \in Threads, NEW c \in Phasers,
             Passed(a, c)', snap'[a][c].phase = Now',
             Passed(u, c)', snap'[u][c].phase = Now'
      PROVE  a = u
  <2>1. CASE c = p
    BY <1>4, <1>5, <2>1
  <2>2. CASE c # p
    BY <1>1, <1>4, <1>5, <2>2 DEF LiveInv, Alone
  <2>3. QED BY <2>1, <2>2
<1>6. Alone'
  BY <1>5 DEF Alone
<1>7. ASSUME NEW u \in Threads, NEW c \in Phasers, LockHeld(u, c)'
      PROVE  lock'[c] = u /\ state'[c].parties = 0 /\ state'[c].pending = 1
  <2>1. u # t /\ LockHeld(u, c)
    BY <1>3, <1>7
  <2>2. c # p
    BY <1>2, <2>1
  <2>3. QED BY <1>1, <2>1, <2>2 DEF LiveInv, Locks
<1>8. ASSUME NEW u \in Threads, NEW c \in Phasers
      PROVE  /\ Passed(u, c)' /\ snap'[u][c].phase = Now' => state'[c] = snap'[u][c]
             /\ ArrivesFor(u, c)' => snap'[u][c].phase = Now' /\ touched'
  <2>1. Passed(u, c)' /\ snap'[u][c].phase = Now' => state'[c] = snap'[u][c]
    BY <1>1, <1>4 DEF LiveInv, Finish
  <2>2. ArrivesFor(u, c)' => snap'[u][c].phase = Now'
    <3>1. CASE u = t
      BY <3>1
    <3>2. CASE u # t
      BY <1>1, <1>3, <3>2 DEF LiveInv, Finish
    <3>3. QED BY <3>1, <3>2
  <2>3. QED BY <2>1, <2>2
<1>9. ASSUME NEW u \in Threads PROVE Locks(u)' /\ Finish(u)'
  BY <1>7, <1>8 DEF Locks, Finish
<1>10. QED BY <1>6, <1>9

\* An arrival is the barrier's arrival at the thread's home, and does not
\* show further up the tree.
LEMMA TreeArrive ==
  ASSUME IInv, Tree, TreeInv, NEW t \in Threads, pc[t] = "cas",
         state[cur[t]] = snap[t][cur[t]],
         ArriveCas(t, cur[t], snap[t][cur[t]]), UNCHANGED <<copy, lock, op, client>>
  PROVE  TreeInv' /\ ((\E d \in {0, 1} : Flat!Arrive(t, d)) \/ UNCHANGED Flat!bvars)
<1>1. PICK p : p = cur[t]
  OBVIOUS
<1>2. PICK s : s = snap[t][p]
  OBVIOUS
<1>3. PICK d : d = Deregisters(t, p)
  OBVIOUS
<1>4. PICK w : w = Adjusted(s, d)
  OBVIOUS
<1>5. /\ p \in Phasers /\ pc[t] # "client" /\ op[t] \in ArriveOps /\ s = state[p]
      /\ state \in [Phasers -> Word] /\ state[Root] \in Word /\ Rooted
  BY <1>1, <1>2, InPhaser DEF ArriveCas, IInv, SharedType, Tree
<1>6. /\ s \in Word /\ Shaped(s) /\ s.term = FALSE /\ s.phase = Now /\ seen[t] = Now
      /\ s.parties # 0 /\ s.pending # 0
      /\ d \in {0, 1} /\ w.phase = Now /\ w.term = FALSE
      /\ w.pending = s.pending - 1 /\ w.parties = s.parties - d
  BY <1>1, <1>2, <1>3, <1>4, <1>5, ArriveFinds
<1>7. /\ s.parties \in Nat /\ s.pending \in Nat /\ s.pending <= s.parties
  BY <1>6, WidthAssumption DEF Word, Count, Shaped
<1>8. /\ Mine(t)' /\ \A u \in Threads : u # t => Same(u)
      /\ op'[t] = op[t] /\ snap'[t][p] = w
      /\ \A q \in Phasers : q # p => snap'[t][q] = snap[t][q]
      /\ \/ /\ s.pending # 1 /\ pc'[t] \in {"await", "ret"}
            /\ cur'[t] = cur[t] /\ caller'[t] = caller[t]
         \/ /\ p = Root /\ pc'[t] = "adv"
            /\ cur'[t] = cur[t] /\ caller'[t] = caller[t]
         \/ /\ s.pending = 1 /\ p # Root /\ pc'[t] = "load"
            /\ Climb(t, w)
  BY <1>1, <1>2, <1>3, <1>4, ArriveMine
<1>9. /\ state' = [state EXCEPT ![p] = w]
      /\ IF p = Home[t]
         THEN /\ left' = [left EXCEPT ![t] = @ - 1]
              /\ held' = [held EXCEPT ![t] = @ - d]
              /\ touched' = TRUE
         ELSE UNCHANGED ghost
  BY <1>1, <1>2, <1>3, <1>4 DEF ArriveCas
<1>10. /\ state'[p] = w /\ \A q \in Phasers : q # p => state'[q] = state[q]
       /\ Now' = Now /\ Still
  <2>1. state'[p] = w /\ \A q \in Phasers : q # p => state'[q] = state[q]
    BY <1>5, <1>9
  <2>2. state'[Root].phase = state[Root].phase /\ (state[Root].term => state'[Root].term)
    <3>1. CASE p = Root
      BY <1>5, <1>6, <2>1, <3>1 DEF Now
    <3>2. CASE p # Root
      BY <2>1, <3>2, TreeAssumption
    <3>3. QED BY <3>1, <3>2
  <2>3. QED BY <2>1, <2>2 DEF Still, Now
<1>11. /\ left[t] > 0 \/ p # Home[t]
       /\ held[t] > 0 \/ p # Home[t]
       /\ held \in [Threads -> Int] /\ left \in [Threads -> Int]
  <2>1. p = Home[t] => Unarrived(t)
    BY <1>1, <1>5 DEF TreeInv, Mine, Keeps, Arrives, ArrivesAndWaits, ArriveOps, Trying, AtHome
  <2>2. held[t] \in 0 .. Weight[t] /\ left[t] \in 0 .. held[t] /\ Weight[t] \in Nat
    BY ClientAssumption, WidthAssumption DEF TreeInv, Mine, Dated
  <2>3. left[t] > 0 => held[t] > 0
    BY <2>2
  <2>4. QED BY <2>1, <2>3 DEF Unarrived, IInv, GhostType
<1>12. ASSUME Live' PROVE LiveInv'
  <2>1. Live
    BY <1>10, <1>12 DEF Still, Live
  <2>2. \A q \in Phasers :
              /\ ~Entering(t, q) /\ ~Entering(t, q)' /\ ~LockHeld(t, q) /\ ~LockHeld(t, q)'
              /\ ArrivesFor(t, q) <=> caller[t][p] = q
              /\ ArrivesFor(t, q)' <=> (q = p /\ pc'[t] = "load")
              /\ Passed(t, q)' =>
                   \/ Passed(t, q) /\ q # p /\ snap'[t][q] = snap[t][q]
                   \/ q = p /\ pc'[t] = "load"
    <3>1. \/ /\ pc'[t] \in {"await", "ret", "adv"}
             /\ cur'[t] = cur[t] /\ caller'[t] = caller[t]
          \/ /\ cur[t] # Root /\ pc'[t] = "load" /\ \E x : Climb(t, x)
      BY <1>1, <1>8
    <3>2. \A q \in Phasers : q # cur[t] => snap'[t][q] = snap[t][q]
      BY <1>1, <1>8
    <3>3. QED BY <1>1, <1>5, <1>8, <3>1, <3>2, ArriveClaims
  <2>3. touched' = TRUE
    <3>1. CASE p = Home[t]
      BY <1>9, <3>1
    <3>2. CASE p # Home[t]
      <4>1. Place(t)
        BY DEF TreeInv, Mine
      <4>2. caller[t][p] \in Phasers
        BY <1>1, <1>5, <3>2, <4>1, PlaceFacts
      <4>3. touched = TRUE
        BY <1>1, <1>5, <2>1, <4>2, CallerDone DEF IInv, GhostType
      <4>4. QED BY <1>9, <3>2, <4>3 DEF ghost
    <3>3. QED BY <3>1, <3>2
  <2>4. Alone' /\ \A u \in Threads : Locks(u)' /\ Finish(u)'
    <3>1. lock' = lock
      OBVIOUS
    <3>2. QED BY <1>1, <1>5, <1>6, <1>8, <1>10, <2>1, <2>2, <2>3, <3>1, ArriveLive
  <2>5. pc'[t] = "load" <=> (s.pending = 1 /\ p # Root)
    BY <1>8
  <2>6. IF p = Home[t]
        THEN /\ left[t] # 0 /\ held[t] # 0
             /\ left' = [left EXCEPT ![t] = @ - 1]
             /\ held' = [held EXCEPT ![t] = @ - d]
        ELSE held' = held /\ left' = left
    <3>1. CASE p = Home[t]
      BY <1>9, <1>11, <3>1
    <3>2. CASE p # Home[t]
      BY <1>9, <3>2 DEF ghost
    <3>3. QED BY <3>1, <3>2
  <2>7. Books'
    <3>1. /\ s.parties # 0 /\ s.pending # 0 /\ s.phase = Now /\ s.parties \in Nat
          /\ s.pending \in Nat /\ s.pending <= s.parties
          /\ w.parties = s.parties - d /\ w.pending = s.pending - 1 /\ w.phase = Now
      BY <1>6, <1>7
    <3>2. /\ pc[t] = "cas" /\ op[t] \in ArriveOps /\ p = cur[t] /\ s = state[p]
          /\ d \in {0, 1} /\ d = Deregisters(t, p)
      BY <1>1, <1>3, <1>5, <1>6
    <3>3. snap'[t][p] = w /\ \A u \in Threads : u # t => Same(u)
      BY <1>1, <1>8
    <3>4. \A q \in Phasers :
            /\ ~Entering(t, q) /\ ~Entering(t, q)'
            /\ ArrivesFor(t, q) <=> caller[t][p] = q
            /\ ArrivesFor(t, q)' <=> (q = p /\ pc'[t] = "load")
      BY <2>2
    <3>5. QED
      BY <1>10, <2>1, <2>5, <2>6, <3>1, <3>2, <3>3, <3>4, ArriveBooks
  <2>8. QED BY <2>3, <2>4, <2>7 DEF LiveInv
<1>13. \A u \in Threads : u # t => /\ Same(u)
                                   /\ held'[u] = held[u] /\ left'[u] = left[u]
  <2>1. CASE p = Home[t]
    BY <1>8, <1>9, <1>11, <2>1
  <2>2. CASE p # Home[t]
    BY <1>8, <1>9, <2>2 DEF ghost
  <2>3. QED BY <2>1, <2>2
<1>14. TreeInv'
  <2>1. Now \in Nat
    BY <1>5, WidthAssumption DEF Now, Word, Phase
  <2>2. QED BY <1>5, <1>6, <1>8, <1>10, <1>12, <1>13, <2>1, TreeStore
<1>15. state'[Root].phase = state[Root].phase /\ state'[Root].term = state[Root].term
  <2>1. CASE p = Root
    BY <1>5, <1>6, <1>10, <2>1 DEF Now
  <2>2. CASE p # Root
    BY <1>10, <2>2, TreeAssumption
  <2>3. QED BY <2>1, <2>2
<1>16. CASE p = Home[t]
  <2>1. Flat!Arrive(t, d)
    BY <1>9, <1>11, <1>15, <1>16 DEF Flat!Arrive
  <2>2. QED BY <1>6, <1>14, <2>1
<1>17. CASE p # Home[t]
  <2>1. UNCHANGED Flat!bvars
    BY <1>9, <1>15, <1>17 DEF ghost, Flat!bvars
  <2>2. QED BY <1>14, <2>1
<1>18. QED BY <1>16, <1>17

(***************************************************************************)
(* A registration.                                                         *)
(***************************************************************************)
\* The new parties are pending.
LEMMA EnrolledCount ==
  ASSUME NEW w \in Word, Shaped(w), NEW n \in 1 .. CountSize - 1, ~Overflows(w, n)
  PROVE  Enrolled(w, n).pending = (IF w.parties = 0 THEN 0 ELSE w.pending) + n
<1> DEFINE e == Enrolled(w, n)
<1>1. e \in Word /\ e.parties = w.parties + n
  BY EnrolledWord
<1>2. w.parties \in Count /\ w.pending \in Count /\ n \in Count
  BY WidthAssumption DEF Word, Count
<1>3. CASE w.parties = 0
  <2>1. e.pending = n % CountSize
    BY <1>3 DEF Enrolled, to_state
  <2>2. n % CountSize = n
    BY <1>2, ModSmall, WidthAssumption DEF Count
  <2>3. QED BY <1>2, <1>3, <2>1, <2>2, WidthAssumption DEF Count
<1>4. CASE w.parties # 0
  <2>1. w.pending + n \in Count
    <3>1. w.parties + n \in Count
      BY <1>1 DEF Word
    <3>2. w.pending <= w.parties
      BY <1>4 DEF Shaped
    <3>3. QED BY <1>2, <3>1, <3>2, WidthAssumption DEF Count
  <2>2. e.pending = (w.pending + n) % CountSize
    BY <1>4 DEF Enrolled, to_state
  <2>3. (w.pending + n) % CountSize = w.pending + n
    BY <2>1, ModSmall, WidthAssumption DEF Count
  <2>4. QED BY <1>4, <2>2, <2>3
<1>5. QED BY <1>3, <1>4

\* n parties of t, or the child c, of p more.
Up(f, g, S, R, p, t, c, n) ==
  \/ /\ Home[t] = p /\ f[t] = 0 /\ g[t] = n
     /\ \A u \in Threads : u # t => g[u] = f[u]
     /\ \A q \in Phasers \ {Root} : q \in R <=> q \in S
  \/ /\ g = f /\ n = 1 /\ c \in Phasers \ {Root} /\ Parent[c] = p /\ c \notin S
     /\ \A q \in Phasers \ {Root} : q \in R <=> q \in S \/ q = c

\* That is n more in the count.
LEMMA TotalUp ==
  ASSUME Tree, NEW f \in [Threads -> 0 .. CountSize], NEW g,
         NEW S \in SUBSET Phasers, NEW R \in SUBSET Phasers, NEW p \in Phasers,
         NEW t \in Threads, NEW c, NEW n \in 0 .. CountSize, Up(f, g, S, R, p, t, c, n)
  PROVE  \A q \in Phasers : Total(q, g, R) =
           IF q = p THEN Total(q, f, S) + n ELSE Total(q, f, S)
<1> SUFFICES ASSUME NEW q \in Phasers
             PROVE  Total(q, g, R) = IF q = p THEN Total(q, f, S) + n ELSE Total(q, f, S)
  OBVIOUS
<1>1. CASE /\ Home[t] = p /\ f[t] = 0 /\ g[t] = n
           /\ \A u \in Threads : u # t => g[u] = f[u]
           /\ \A x \in Phasers \ {Root} : x \in R <=> x \in S
  <2>1. Total(q, g, S) = IF q = Home[t] THEN Total(q, f, S) + n ELSE Total(q, f, S)
    <3>1. f[t] = 0 /\ g[t] = n /\ \A u \in Threads : u # t => g[u] = f[u]
      BY <1>1
    <3>2. QED BY <3>1, TotalMore
  <2>2. Total(q, g, R) = Total(q, g, S)
    BY <1>1, TotalAlike
  <2>3. QED BY <1>1, <2>1, <2>2
<1>2. CASE /\ g = f /\ n = 1 /\ c \in Phasers \ {Root} /\ Parent[c] = p /\ c \notin S
           /\ \A x \in Phasers \ {Root} : x \in R <=> x \in S \/ x = c
  <2>1. Total(q, f, R) = IF q = Parent[c] THEN Total(q, f, S) + 1 ELSE Total(q, f, S)
    BY <1>2, TotalGained
  <2>2. QED BY <1>2, <2>1
<1>3. QED BY <1>1, <1>2 DEF Up

\* t's claims before and after its registration at p.
LEMMA JoinClaims ==
  ASSUME IInv, Tree, TreeInv, Live, NEW t \in Threads,
         op[t] = "register", op'[t] = "register", pc[t] \in {"cas", "commit"},
         pc'[t] = "ret", ~out'[t].term, cur'[t] = cur[t], caller'[t] = caller[t],
         NEW q \in Phasers
  PROVE  /\ ~ArrivesFor(t, q) /\ ~ArrivesFor(t, q)' /\ ~Passed(t, q)'
         /\ Entering(t, q) <=> (pc[t] = "commit" /\ q = cur[t])
         /\ Entering(t, q)' <=> caller[t][cur[t]] = q
         /\ LockHeld(t, q)' => LockHeld(t, q) /\ q # cur[t]
         /\ caller[t][cur[t]] = q =>
              q # cur[t] /\ q # Root /\ q \notin Regd /\ q \notin Owing
<1>1. Place(t) /\ Rooted /\ pc[t] # "client"
  BY DEF TreeInv, Mine, Tree
<1>2. /\ ~ArrivesFor(t, q) /\ ~ArrivesFor(t, q)' /\ ~Passed(t, q)'
  BY DEF ArrivesFor, Passed, ArriveOps
<1>3. Entering(t, q) <=> (pc[t] = "commit" /\ q = cur[t])
  BY DEF Entering, Entry
<1>4. Entering(t, q)' <=> caller[t][cur[t]] = q
  BY DEF Entering, Entry
<1>5. ~Called(t, cur[t])
  BY <1>1, PlaceFacts
<1>6. LockHeld(t, q)' => LockHeld(t, q) /\ q # cur[t]
  BY <1>5 DEF LockHeld, Called, Entry
<1>7. ASSUME caller[t][cur[t]] = q
      PROVE  q # cur[t] /\ q # Root /\ q \notin Regd /\ q \notin Owing
  <2>1. Called(t, q) /\ q # Root /\ q # cur[t]
    BY <1>1, <1>7, PlaceFacts, TreeAssumption
  <2>2. LockHeld(t, q) /\ ~Entering(t, q)
    BY <1>3, <2>1 DEF LockHeld
  <2>3. QED BY <1>1, <2>1, <2>2, Fresh
<1>8. QED BY <1>2, <1>3, <1>4, <1>6, <1>7

\* Who is registered and who owes after t's registration at p.
LEMMA JoinSets ==
  ASSUME IInv, Tree, TreeInv, Live, NEW t \in Threads,
         op[t] = "register", op'[t] = "register", pc[t] \in {"cas", "commit"},
         pc'[t] = "ret", ~out'[t].term, cur'[t] = cur[t], caller'[t] = caller[t],
         NEW p, p = cur[t], Now' = Now, NEW n \in Nat, n # 0,
         NEW s, NEW w, s = state[p], s.parties \in Nat,
         pc[t] = "commit" \/ p = Root \/ (s.parties # 0 /\ Due(p) # 0),
         w.parties = s.parties + n, Due(p) \in Nat, Due(p)' = Due(p) + n,
         state'[p] = w, \A q \in Phasers : q # p => state'[q] = state[q],
         \A u \in Threads : u # t => Same(u)
  PROVE  /\ \A q \in Phasers : q # p => Due(q)' = Due(q)
         /\ \A q \in Phasers \ {Root} :
              /\ q \in Owing' <=> q \in Owing \/ caller[t][p] = q
              /\ q \in Regd' <=> q \in Regd \/ caller[t][p] = q
              /\ caller[t][p] = q => q \notin Owing /\ q \notin Regd
<1> DEFINE c == caller[t][p]
<1>1. ASSUME NEW q \in Phasers, q # p PROVE Due(q)' = Due(q)
  BY <1>1 DEF Due
<1>2. ASSUME NEW q \in Phasers
      PROVE  /\ ~ArrivesFor(t, q) /\ ~ArrivesFor(t, q)'
             /\ Entering(t, q) <=> (pc[t] = "commit" /\ q = p)
             /\ Entering(t, q)' <=> c = q
             /\ c = q => q # p /\ q \notin Regd /\ q \notin Owing
  BY JoinClaims
<1>3. ASSUME NEW u \in Threads, u # t, NEW q \in Phasers
      PROVE  /\ ArrivesFor(u, q)' <=> ArrivesFor(u, q)
             /\ snap'[u][q] = snap[u][q]
             /\ Entering(u, q)' <=> Entering(u, q)
  BY <1>3, SteadySame DEF Steady, Same
<1>4. ASSUME NEW q \in Phasers
      PROVE  /\ q \in Owing <=> \/ Due(q) # 0 \/ (pc[t] = "commit" /\ q = p)
                                \/ \E u \in Threads : u # t /\ (ArrivesFor(u, q) \/ Entering(u, q))
             /\ q \in Owing' <=> \/ Due(q)' # 0 \/ c = q
                                 \/ \E u \in Threads : u # t /\ (ArrivesFor(u, q) \/ Entering(u, q))
  BY <1>2, <1>3 DEF Owing
<1>5. ASSUME NEW q \in Phasers
      PROVE  /\ q \in Regd <=>
                  \/ state[q].parties # 0 \/ (pc[t] = "commit" /\ q = p)
                  \/ \E u \in Threads :
                       u # t /\ ((ArrivesFor(u, q) /\ snap[u][q].parties = 0) \/ Entering(u, q))
             /\ q \in Regd' <=>
                  \/ state'[q].parties # 0 \/ c = q
                  \/ \E u \in Threads :
                       u # t /\ ((ArrivesFor(u, q) /\ snap[u][q].parties = 0) \/ Entering(u, q))
  BY <1>2, <1>3 DEF Regd
<1>6. ASSUME NEW q \in Phasers \ {Root}
      PROVE  /\ q \in Owing' <=> q \in Owing \/ c = q
             /\ q \in Regd' <=> q \in Regd \/ c = q
             /\ c = q => q \notin Owing /\ q \notin Regd
  <2>1. CASE q = p
    <3>1. Due(q)' # 0 /\ state'[q].parties # 0
      BY <2>1
    <3>2. q \in Owing' /\ q \in Regd'
      BY <1>4, <1>5, <3>1
    <3>3. q \in Owing /\ q \in Regd
      BY <1>4, <1>5, <2>1
    <3>4. QED BY <1>2, <2>1, <3>2, <3>3
  <2>2. CASE q # p
    BY <1>1, <1>2, <1>4, <1>5, <2>2
  <2>3. QED BY <2>1, <2>2
<1>7. QED BY <1>1, <1>6

\* The books after t's registration at p.
LEMMA JoinBooks ==
  ASSUME IInv, Tree, TreeInv, Live, NEW t \in Threads,
         op[t] = "register", pc[t] \in {"cas", "commit"},
         NEW p, p = cur[t], NEW n \in 0 .. CountSize, n = Registrations(t, p),
         NEW s, NEW w, s = state[p], held[t] = 0,
         w.parties = s.parties + n, Due(p)' = Due(p) + n,
         state'[p] = w, \A q \in Phasers : q # p => state'[q] = state[q],
         \A q \in Phasers : q # p => Due(q)' = Due(q),
         \A q \in Phasers \ {Root} :
              /\ q \in Owing' <=> q \in Owing \/ caller[t][p] = q
              /\ q \in Regd' <=> q \in Regd \/ caller[t][p] = q
              /\ caller[t][p] = q => q \notin Owing /\ q \notin Regd,
         IF p = Home[t]
         THEN held' = [held EXCEPT ![t] = n] /\ left' = [left EXCEPT ![t] = n]
         ELSE held' = held /\ left' = left
  PROVE  Books'
<1>1. PICK c : c = caller[t][p]
  OBVIOUS
<1>2. /\ p \in Phasers /\ Rooted /\ Place(t) /\ pc[t] # "client" /\ Books
      /\ c = NoPhaser <=> p = Home[t]
      /\ c # NoPhaser => c \in Phasers \ {Root} /\ Parent[c] = p
      /\ NoPhaser \notin Phasers
  <2>1. Rooted /\ Place(t) /\ pc[t] # "client" /\ Books
    BY DEF TreeInv, Mine, Tree, LiveInv
  <2>2. QED BY <1>1, <2>1, PlaceFacts, TreeAssumption
<1>3. \A q \in Phasers \ {Root} :
              /\ q \in Owing' <=> q \in Owing \/ c = q
              /\ q \in Regd' <=> q \in Regd \/ c = q
              /\ c = q => q \notin Owing /\ q \notin Regd
  BY <1>1
<1>4. /\ held \in [Threads -> 0 .. CountSize] /\ left \in [Threads -> 0 .. CountSize]
      /\ Regd \in SUBSET Phasers /\ Owing \in SUBSET Phasers
      /\ Regd' \in SUBSET Phasers /\ Owing' \in SUBSET Phasers
      /\ left[t] = 0
  <2>1. Regd' \in SUBSET Phasers /\ Owing' \in SUBSET Phasers
    BY DEF Regd, Owing
  <2>2. left[t] \in 0 .. held[t]
    BY DEF TreeInv, Mine, Dated
  <2>3. left[t] = 0
    BY <2>2
  <2>4. QED BY <2>1, <2>3, Counts
<1>5. p # Home[t] => n = 1
  BY DEF Registrations
<1>6. Up(left, left', Owing, Owing', p, t, c, n)
  <2>1. CASE p = Home[t]
    <3>1. left'[t] = n /\ \A u \in Threads : u # t => left'[u] = left[u]
      BY <1>4, <2>1
    <3>2. \A q \in Phasers \ {Root} : q \in Owing' <=> q \in Owing
      BY <1>2, <1>3, <2>1
    <3>3. QED BY <1>4, <2>1, <3>1, <3>2 DEF Up
  <2>2. CASE p # Home[t]
    BY <1>2, <1>3, <1>5, <2>2 DEF Up
  <2>3. QED BY <2>1, <2>2
<1>7. Up(held, held', Regd, Regd', p, t, c, n)
  <2>1. CASE p = Home[t]
    <3>1. held'[t] = n /\ \A u \in Threads : u # t => held'[u] = held[u]
      BY <1>4, <2>1
    <3>2. \A q \in Phasers \ {Root} : q \in Regd' <=> q \in Regd
      BY <1>2, <1>3, <2>1
    <3>3. QED BY <2>1, <3>1, <3>2 DEF Up
  <2>2. CASE p # Home[t]
    BY <1>2, <1>3, <1>5, <2>2 DEF Up
  <2>3. QED BY <2>1, <2>2
<1>8. \A q \in Phasers : Total(q, left', Owing') =
         IF q = p THEN Total(q, left, Owing) + n ELSE Total(q, left, Owing)
  <2>1. \A g, R : /\ R \in SUBSET Phasers /\ Up(left, g, Owing, R, p, t, c, n)
                  => \A q \in Phasers : Total(q, g, R) =
                       IF q = p THEN Total(q, left, Owing) + n ELSE Total(q, left, Owing)
    BY <1>2, <1>4, TotalUp
  <2>2. QED BY <1>4, <1>6, <2>1
<1>9. \A q \in Phasers : Total(q, held', Regd') =
         IF q = p THEN Total(q, held, Regd) + n ELSE Total(q, held, Regd)
  <2>1. \A g, R : /\ R \in SUBSET Phasers /\ Up(held, g, Regd, R, p, t, c, n)
                  => \A q \in Phasers : Total(q, g, R) =
                       IF q = p THEN Total(q, held, Regd) + n ELSE Total(q, held, Regd)
    BY <1>2, <1>4, TotalUp
  <2>2. QED BY <1>4, <1>7, <2>1
<1>10. ASSUME NEW q \in Phasers
       PROVE  state'[q].parties = Total(q, held', Regd') /\ Due(q)' = Total(q, left', Owing')
  BY <1>2, <1>8, <1>9, <1>10 DEF Books
<1>11. QED BY <1>10 DEF Books

\* A child is locked below the root.
LEMMA LockedBelow ==
  ASSUME IInv, NEW t \in Threads, LockHeld(t, Root)
  PROVE  FALSE
<1>1. op[t] = "register" /\ cur[t] = Root /\ pc[t] \in Entry
  BY DEF LockHeld, Called
<1>2. pc[t] # "client" /\ pc[t] \in BelowRoot
  BY <1>1 DEF Entry, BelowRoot
<1>3. QED BY <1>1, <1>2, InPhaser DEF Fit

\* After t's registration at p the claims that are left are sound.
LEMMA JoinLive ==
  ASSUME IInv, Tree, TreeInv, Live, NEW t \in Threads,
         op[t] = "register", op'[t] = "register", pc[t] \in {"cas", "commit"},
         pc'[t] = "ret", ~out'[t].term, cur'[t] = cur[t], caller'[t] = caller[t],
         NEW p, p = cur[t], NEW s, NEW w, s = state[p], Now' = Now,
         s.pending # 0, w.pending # 0,
         state'[p] = w, \A q \in Phasers : q # p => state'[q] = state[q],
         \A u \in Threads : u # t => Same(u) /\ ~LockHeld(u, p),
         \A q \in Phasers : q # p => lock'[q] = lock[q],
         touched' = touched
  PROVE  /\ Alone' /\ \A u \in Threads : Locks(u)' /\ Finish(u)'
         /\ state'[Root].pending = 0 => touched'
<1>1. LiveInv /\ p \in Phasers /\ \A u \in Threads : Fits(u)
  BY InPhaser DEF TreeInv, Mine
<1>2. ASSUME NEW q \in Phasers
      PROVE  /\ ~ArrivesFor(t, q)' /\ ~Passed(t, q)'
             /\ LockHeld(t, q)' => LockHeld(t, q) /\ q # p
  BY JoinClaims
<1>3. ASSUME NEW u \in Threads, u # t, NEW q \in Phasers
      PROVE  /\ Passed(u, q)' => Passed(u, q)
             /\ ArrivesFor(u, q)' => ArrivesFor(u, q)
             /\ LockHeld(u, q)' => LockHeld(u, q)
             /\ snap'[u] = snap[u]
  BY <1>3, SteadySame DEF Steady, Same
<1>4. ASSUME NEW u \in Threads, NEW c \in Phasers, Passed(u, c)', snap'[u][c].phase = Now'
      PROVE  /\ Passed(u, c) /\ snap[u][c].phase = Now /\ c # p
             /\ state[c] = snap[u][c] /\ snap'[u] = snap[u]
  <2>1. u # t
    BY <1>2, <1>4
  <2>2. Passed(u, c) /\ snap'[u] = snap[u]
    BY <1>3, <1>4, <2>1
  <2>3. state[c] = snap[u][c] /\ snap[u][c].pending = 0
    BY <1>1, <1>4, <2>2 DEF LiveInv, Finish, Fits
  <2>4. QED BY <1>4, <2>2, <2>3
<1>5. ASSUME NEW a \in Threads, NEW u \in Threads, NEW c \in Phasers,
             Passed(a, c)', snap'[a][c].phase = Now',
             Passed(u, c)', snap'[u][c].phase = Now'
      PROVE  a = u
  BY <1>1, <1>4, <1>5 DEF LiveInv, Alone
<1>6. Alone'
  BY <1>5 DEF Alone
<1>7. ASSUME NEW u \in Threads, NEW c \in Phasers, LockHeld(u, c)'
      PROVE  lock'[c] = u /\ state'[c].parties = 0 /\ state'[c].pending = 1
  <2>1. LockHeld(u, c) /\ c # p
    BY <1>2, <1>3, <1>7
  <2>2. QED BY <1>1, <2>1 DEF LiveInv, Locks
<1>8. ASSUME NEW u \in Threads, NEW c \in Phasers
      PROVE  /\ Passed(u, c)' /\ snap'[u][c].phase = Now' => state'[c] = snap'[u][c]
             /\ ArrivesFor(u, c)' => snap'[u][c].phase = Now' /\ touched'
  <2>1. Passed(u, c)' /\ snap'[u][c].phase = Now' => state'[c] = snap'[u][c]
    BY <1>4
  <2>2. ArrivesFor(u, c)' => snap'[u][c].phase = Now' /\ touched'
    BY <1>1, <1>2, <1>3 DEF LiveInv, Finish
  <2>3. QED BY <2>1, <2>2
<1>9. ASSUME NEW u \in Threads PROVE Locks(u)' /\ Finish(u)'
  BY <1>7, <1>8 DEF Locks, Finish
<1>10. state'[Root].pending = 0 => touched'
  BY <1>1, TreeAssumption DEF LiveInv
<1>11. QED BY <1>6, <1>9, <1>10

\* t adds n parties to the word s of its phaser p, and makes it w; nobody
\* else has p locked.
Joining(t, p, n, s, w) ==
  /\ w.parties = s.parties + n /\ w.pending # 0 /\ s.pending # 0
  /\ w.pending = (IF s.parties = 0 THEN 0 ELSE s.pending) + n
  /\ s.parties # 0 => s.phase = Now
  /\ pc[t] = "commit" \/ p = Root \/ s.parties # 0
  /\ \A u \in Threads : u # t => ~LockHeld(u, p)
\* The step that does so, with the result o.
Registered(t, p, n, s, w, o) ==
  /\ op[t] = "register" /\ pc[t] \in {"cas", "commit"} /\ role[t] = "out" /\ held[t] = 0
  /\ p = cur[t] /\ n \in 1 .. CountSize - 1 /\ n = Registrations(t, p) /\ s = state[p]
  /\ w.phase = Now /\ (w.term => ~Live) /\ (p = Root => w.term = state[Root].term)
  /\ Live => Joining(t, p, n, s, w)
  /\ state' = [state EXCEPT ![p] = w]
  /\ Old(o) /\ o.phase = Now /\ o.cond = "normal" /\ Return(t, o)
  /\ \A q \in Phasers : q # p => lock'[q] = lock[q]
  /\ touched' = touched
  /\ IF p = Home[t]
     THEN held' = [held EXCEPT ![t] = n] /\ left' = [left EXCEPT ![t] = n]
     ELSE held' = held /\ left' = left
  /\ UNCHANGED <<op, cur, caller, snap, copy, client>>

\* What the two ways to register have in common.
LEMMA TreeJoin ==
  ASSUME IInv, Tree, TreeInv, NEW t \in Threads,
         NEW p, NEW n, NEW s, NEW w, NEW o, Registered(t, p, n, s, w, o)
  PROVE  TreeInv' /\ (Flat!Register(t) \/ UNCHANGED Flat!bvars)
<1> USE DEF Registered
<1>1. /\ p \in Phasers /\ Mine(t) /\ Rooted /\ LocalType /\ pc[t] # "client"
      /\ state \in [Phasers -> Word] /\ Dated(t) /\ Place(t) /\ Root \in Phasers
      /\ state[Root] \in Word /\ GhostType /\ s \in Word
  BY InPhaser, TreeAssumption DEF TreeInv, Mine, Tree, IInv, SharedType, LocalInv
<1>2. /\ state'[p] = w /\ \A q \in Phasers : q # p => state'[q] = state[q]
      /\ pc'[t] = "ret" /\ out'[t] = o /\ op'[t] = "register"
      /\ cur'[t] = cur[t] /\ caller'[t] = caller[t]
      /\ snap'[t] = snap[t] /\ copy'[t] = copy[t]
      /\ role'[t] = role[t] /\ todo'[t] = todo[t] /\ seen'[t] = seen[t]
  BY <1>1 DEF Return, Goto, LocalType, client
<1>3. \A u \in Threads : u # t => Same(u)
  BY <1>1 DEF Return, Goto, LocalType, Same, client
<1>4. Still /\ Now' = Now /\ (Live' => Live) /\ (w.term => ~Live')
  <2>1. CASE p = Root
    BY <1>2, <2>1 DEF Still, Now, Live
  <2>2. CASE p # Root
    BY <1>1, <1>2, <2>2 DEF Still, Now, Live
  <2>3. QED BY <2>1, <2>2
<1>5. /\ held \in [Threads -> Int] /\ left \in [Threads -> Int]
      /\ left[t] = 0 /\ Weight[t] \in Nat /\ n \in Nat /\ n # 0 /\ n \in 0 .. CountSize
      /\ p = Home[t] <=> caller[t][p] = NoPhaser
      /\ p = Home[t] => n = Weight[t]
  <2>1. left[t] \in 0 .. held[t]
    BY <1>1 DEF Dated
  <2>2. left[t] = 0
    BY <2>1
  <2>3. Weight[t] \in Nat /\ n \in Nat /\ n # 0 /\ n \in 0 .. CountSize
    BY ClientAssumption, WidthAssumption
  <2>4. p = Home[t] <=> caller[t][p] = NoPhaser
    BY <1>1, PlaceFacts
  <2>5. QED BY <1>1, <2>2, <2>3, <2>4 DEF GhostType, Registrations
<1>6. /\ IF p = Home[t] THEN held'[t] = n /\ left'[t] = n ELSE held'[t] = 0 /\ left'[t] = 0
      /\ \A u \in Threads : u # t => held'[u] = held[u] /\ left'[u] = left[u]
  BY <1>5
<1>7. held'[t] \in 0 .. Weight[t] /\ left'[t] \in 0 .. held'[t]
  BY <1>5, <1>6
<1>8. Keeps(t)'
  <2>1. CASE p = Home[t]
    <3>1. Renewed(t)' /\ out'[t].phase = Now'
      BY <1>2, <1>4, <1>5, <1>6, <2>1 DEF Renewed
    <3>2. Entered(t)'
      BY <3>1 DEF Entered, Now
    <3>3. o.term => Outside(t)'
      BY <1>4 DEF Old, Outside, Live
    <3>4. AtHome(t)'
      BY <1>2, <2>1 DEF AtHome
    <3>5. Joins(t)'
      BY <1>2, <3>2, <3>3, <3>4 DEF Joins, Entry
    <3>6. QED BY <1>2, <3>5 DEF Keeps, ArriveOps
  <2>2. CASE p # Home[t]
    <3>1. Outside(t)' /\ held'[t] = 0
      BY <1>6, <2>2 DEF Outside
    <3>2. ~AtHome(t)'
      BY <1>2, <2>2 DEF AtHome
    <3>3. Joins(t)'
      BY <1>2, <3>1, <3>2 DEF Joins
    <3>4. QED BY <1>2, <3>3 DEF Keeps, ArriveOps
  <2>3. QED BY <2>1, <2>2
<1>9. Mine(t)'
  <2>1. Shift(t, "ret", o, copy[t], snap[t][cur[t]])
    BY <1>2, <1>7 DEF Shift
  <2>2. Old(copy[t]) /\ Old(snap[t][cur[t]])
    BY <1>1 DEF Dated
  <2>3. QED BY <1>1, <1>4, <1>8, <2>1, <2>2, ShiftMine
<1>10. ASSUME Live' PROVE LiveInv'
  <2>1. /\ Live /\ w.parties = s.parties + n /\ w.pending # 0 /\ s.pending # 0
        /\ w.pending = (IF s.parties = 0 THEN 0 ELSE s.pending) + n
        /\ s.parties # 0 => s.phase = Now
        /\ pc[t] = "commit" \/ p = Root \/ s.parties # 0
        /\ \A u \in Threads : u # t => ~LockHeld(u, p)
    BY <1>4, <1>10 DEF Joining
  <2>2. ~out'[t].term
    BY <1>2, <2>1 DEF Old
  <2>3. s.parties \in Nat /\ s.pending \in Nat
    BY <1>1, WidthAssumption DEF Word, Count
  <2>4. Due(p) = IF s.parties = 0 THEN 0 ELSE s.pending
    BY <2>1 DEF Due
  <2>5. Due(p)' = w.pending
    <3>1. Due(p)' = IF w.parties = 0 THEN 0 ELSE IF w.phase = Now' THEN w.pending ELSE w.parties
      BY <1>2 DEF Due
    <3>2. w.parties # 0
      BY <1>5, <2>1, <2>3
    <3>3. QED BY <1>4, <3>1, <3>2
  <2>6. Due(p) \in Nat /\ Due(p)' = Due(p) + n /\ (s.parties # 0 => Due(p) # 0)
    BY <2>1, <2>3, <2>4, <2>5
  <2>7. /\ \A q \in Phasers : q # p => Due(q)' = Due(q)
        /\ \A q \in Phasers \ {Root} :
              /\ q \in Owing' <=> q \in Owing \/ caller[t][p] = q
              /\ q \in Regd' <=> q \in Regd \/ caller[t][p] = q
              /\ caller[t][p] = q => q \notin Owing /\ q \notin Regd
    <3>1. pc[t] = "commit" \/ p = Root \/ (s.parties # 0 /\ Due(p) # 0)
      BY <2>1, <2>6
    <3>2. QED BY <1>2, <1>3, <1>4, <1>5, <2>1, <2>2, <2>3, <2>6, <3>1, JoinSets
  <2>8. Books'
    BY <1>2, <1>5, <2>1, <2>6, <2>7, JoinBooks
  <2>9. /\ Alone' /\ \A u \in Threads : Locks(u)' /\ Finish(u)'
        /\ state'[Root].pending = 0 => touched'
    <3>1. \A u \in Threads : u # t => Same(u) /\ ~LockHeld(u, p)
      BY <1>3, <2>1
    <3>2. QED BY <1>2, <1>4, <2>1, <2>2, <3>1, JoinLive
  <2>10. QED BY <2>8, <2>9 DEF LiveInv
<1>11. TreeInv'
  <2>1. Now \in Nat
    BY <1>1, WidthAssumption DEF Now, Word, Phase
  <2>2. \A u \in Threads : u # t => /\ Same(u)
                                    /\ held'[u] = held[u] /\ left'[u] = left[u]
    BY <1>3, <1>6
  <2>3. QED BY <1>1, <1>2, <1>4, <1>9, <1>10, <2>1, <2>2, TreeStore
<1>12. state'[Root].phase = state[Root].phase
  BY <1>4 DEF Now
<1>13. state'[Root].term = state[Root].term
  <2>1. CASE p = Root
    BY <1>2, <2>1
  <2>2. CASE p # Root
    BY <1>1, <1>2, <2>2
  <2>3. QED BY <2>1, <2>2
<1>14. CASE p = Home[t]
  <2>1. Flat!Register(t)
    BY <1>5, <1>12, <1>13, <1>14 DEF Flat!Register
  <2>2. QED BY <1>11, <2>1
<1>15. CASE p # Home[t]
  <2>1. UNCHANGED Flat!bvars
    BY <1>12, <1>13, <1>15 DEF Flat!bvars
  <2>2. QED BY <1>11, <2>1
<1>16. QED BY <1>14, <1>15

\* The registration's compare-and-swap.
LEMMA TreeRegisterCas ==
  ASSUME IInv, Tree, TreeInv, NEW t \in Threads, pc[t] = "cas",
         state[cur[t]] = snap[t][cur[t]],
         RegisterCas(t, cur[t], snap[t][cur[t]]), UNCHANGED <<copy, lock, op, client>>
  PROVE  TreeInv' /\ (Flat!Register(t) \/ UNCHANGED Flat!bvars)
<1>1. PICK p : p = cur[t]
  OBVIOUS
<1>2. PICK s : s = snap[t][p]
  OBVIOUS
<1>3. PICK n : n = Registrations(t, p)
  OBVIOUS
<1>4. PICK w : w = Enrolled(s, n)
  OBVIOUS
<1>5. /\ p \in Phasers /\ s \in Word /\ Shaped(s) /\ s = state[p] /\ state[Root] \in Word
      /\ Fit(t, op[t], p, pc[t], s) /\ op[t] = "register" /\ pc[t] # "client"
  BY <1>1, <1>2, InPhaser DEF RegisterCas
<1>6. ~s.term /\ ~Overflows(s, n) /\ s.pending # 0 /\ n \in 1 .. CountSize - 1
  BY <1>3, <1>5, RegistrationsType DEF Fit, CanCas
<1>7. /\ Mine(t) /\ Fits(t) /\ Joins(t) /\ Old(s) /\ Lags
      /\ p # Root => s.parties # 0
  <2>1. Mine(t) /\ Lags /\ Old(state[p])
    BY <1>5 DEF TreeInv
  <2>2. Fits(t) /\ Joins(t)
    BY <1>5, <2>1 DEF Mine, Keeps
  <2>3. p # Root => s.parties # 0
    BY <1>1, <1>2, <1>5, <2>2 DEF Fits
  <2>4. QED BY <1>5, <2>1, <2>2, <2>3
<1>8. role[t] = "out" /\ held[t] = 0
  BY <1>7 DEF Joins
<1>9. s.phase = Now
  <2>1. CASE p = Root
    BY <1>5, <2>1 DEF Now
  <2>2. CASE p # Root
    BY <1>5, <1>6, <1>7, <2>2 DEF Lags
  <2>3. QED BY <2>1, <2>2
<1>10. /\ w.parties = s.parties + n /\ w.phase = s.phase /\ w.term = s.term
       /\ w.pending # 0
       /\ w.pending = (IF s.parties = 0 THEN 0 ELSE s.pending) + n
  <2>1. w.parties = s.parties + n /\ w.phase = s.phase /\ w.pending # 0
    BY <1>4, <1>5, <1>6, EnrolledWord, EnrolledPending
  <2>2. w.pending = (IF s.parties = 0 THEN 0 ELSE s.pending) + n
    BY <1>4, <1>5, <1>6, EnrolledCount
  <2>3. w.term = s.term
    BY <1>4 DEF Enrolled, to_state
  <2>4. QED BY <2>1, <2>2, <2>3
<1>11. /\ state' = [state EXCEPT ![p] = w] /\ Return(t, make(s))
       /\ IF p = Home[t]
          THEN held' = [held EXCEPT ![t] = n] /\ left' = [left EXCEPT ![t] = n]
          ELSE held' = held /\ left' = left
       /\ touched' = touched /\ UNCHANGED <<snap, cur, caller>>
  <2>1. p = Home[t] => n = Weight[t]
    BY <1>3 DEF Registrations
  <2>2. CASE p = Home[t]
    BY <1>1, <1>2, <1>3, <1>4, <2>1, <2>2 DEF RegisterCas
  <2>3. CASE p # Home[t]
    BY <1>1, <1>2, <1>3, <1>4, <2>3 DEF RegisterCas, ghost
  <2>4. QED BY <2>2, <2>3
<1>12. PICK o : o = make(s)
  OBVIOUS
<1>13. Old(o) /\ o.phase = Now /\ o.cond = "normal"
  BY <1>5, <1>7, <1>9, <1>12, Made
<1>14. Live => Joining(t, p, n, s, w)
  <2>1. ASSUME Live, NEW u \in Threads, LockHeld(u, p) PROVE FALSE
    <3>1. state[p].parties = 0
      BY <1>5, <2>1 DEF TreeInv, LiveInv, Locks
    <3>2. p = Root
      BY <1>5, <1>7, <3>1
    <3>3. QED BY <2>1, <3>2, LockedBelow
  <2>2. Live => \A u \in Threads : u # t => ~LockHeld(u, p)
    BY <2>1
  <2>3. QED BY <1>6, <1>7, <1>9, <1>10, <2>2 DEF Joining
<1>15. /\ w.phase = Now /\ (w.term => ~Live) /\ (p = Root => w.term = state[Root].term)
       /\ Return(t, o) /\ \A q \in Phasers : q # p => lock'[q] = lock[q]
       /\ UNCHANGED <<op, cur, caller, snap, copy, client>>
       /\ pc[t] \in {"cas", "commit"}
  BY <1>5, <1>6, <1>9, <1>10, <1>11, <1>12
<1>16. Registered(t, p, n, s, w, o)
  BY <1>1, <1>3, <1>5, <1>6, <1>8, <1>11, <1>13, <1>14, <1>15 DEF Registered
<1>17. QED BY <1>16, TreeJoin

\* The child's own word, once its parent has counted it.
LEMMA TreeCommits ==
  ASSUME IInv, Tree, TreeInv, NEW t \in Threads, pc[t] = "commit",
         state[cur[t]] = snap[t][cur[t]],
         NEW p, p = cur[t], NEW n, n = Registrations(t, p),
         state' = [state EXCEPT ![p] = to_state(out[t], n, n)],
         lock' = [lock EXCEPT ![p] = NoThread],
         Return(t, out[t]),
         IF p = Home[t]
         THEN held' = [held EXCEPT ![t] = n] /\ left' = [left EXCEPT ![t] = n]
         ELSE UNCHANGED <<held, left>>,
         UNCHANGED <<snap, op, cur, caller, copy, client, touched>>
  PROVE  TreeInv' /\ (Flat!Register(t) \/ UNCHANGED Flat!bvars)
<1>1. PICK o : o = out[t]
  OBVIOUS
<1>2. PICK s : s = state[p]
  OBVIOUS
<1>3. PICK w : w = to_state(o, n, n)
  OBVIOUS
<1>4. /\ p \in Phasers /\ s \in Word /\ o \in PhaseType /\ p # Root /\ pc[t] # "client"
      /\ lock \in [Phasers -> Threads \cup {NoThread}] /\ n \in 1 .. CountSize - 1
      /\ n \in Count
  <2>1. n \in 1 .. CountSize - 1 /\ p \in Phasers
    BY InPhaser, RegistrationsType
  <2>2. n \in Count
    BY <2>1, WidthAssumption DEF Count
  <2>3. p # Root /\ state[p] \in Word /\ out[t] \in PhaseType
    BY InPhaser DEF Fit, BelowRoot
  <2>4. QED BY <1>1, <1>2, <2>1, <2>2, <2>3 DEF IInv, SharedType
<1>5. w.term = o.term /\ w.phase = o.phase /\ w.parties = n /\ w.pending = n
  BY <1>3, <1>4, ToStateOut
<1>6. /\ Mine(t) /\ Pins(t) /\ Heard(t) /\ Dated(t)
      /\ op[t] = "register" /\ held[t] = 0 /\ role[t] = "out"
  BY InEntry DEF TreeInv, Mine, Entry
<1>7. Entering(t, p) /\ LockHeld(t, p)
  BY <1>6 DEF Entering, LockHeld, Entry
<1>8. Old(o) /\ o.cond = "normal" /\ o.phase = Now
  <2>1. Old(o) /\ o.cond = "normal"
    BY <1>1, <1>6 DEF Dated, Heard
  <2>2. CASE o.term
    BY <2>1, <2>2 DEF Old
  <2>3. CASE ~o.term
    <3>1. ~out[t].term
      BY <1>1, <2>3
    <3>2. out[t].phase = Now
      BY <1>4, <1>6, <1>7, <3>1 DEF Pins
    <3>3. QED BY <1>1, <2>1, <3>2
  <2>4. QED BY <2>1, <2>2, <2>3
<1>9. Live => Joining(t, p, n, s, w)
  <2> SUFFICES ASSUME Live PROVE Joining(t, p, n, s, w)
    OBVIOUS
  <2>1. lock[p] = t /\ s.parties = 0 /\ s.pending = 1
    BY <1>2, <1>4, <1>7 DEF TreeInv, LiveInv, Locks
  <2>2. ASSUME NEW u \in Threads, u # t, LockHeld(u, p) PROVE FALSE
    <3>1. lock[p] = u
      BY <1>4, <2>2 DEF TreeInv, LiveInv, Locks
    <3>2. QED BY <2>1, <2>2, <3>1
  <2>3. n \in Nat /\ n # 0
    BY <1>4, WidthAssumption
  <2>4. QED BY <1>5, <2>1, <2>2, <2>3 DEF Joining
<1>10. IF p = Home[t]
       THEN held' = [held EXCEPT ![t] = n] /\ left' = [left EXCEPT ![t] = n]
       ELSE held' = held /\ left' = left
  OBVIOUS
<1>11. \A q \in Phasers : q # p => lock'[q] = lock[q]
  BY <1>4
<1>12. /\ state' = [state EXCEPT ![p] = w] /\ Return(t, o) /\ touched' = touched
       /\ UNCHANGED <<op, cur, caller, snap, copy, client>>
       /\ pc[t] \in {"cas", "commit"} /\ w.phase = Now /\ (w.term => ~Live)
       /\ p = Root => w.term = state[Root].term
  BY <1>1, <1>3, <1>4, <1>5, <1>8 DEF Old
<1>13. Registered(t, p, n, s, w, o)
  BY <1>2, <1>4, <1>6, <1>8, <1>9, <1>10, <1>11, <1>12 DEF Registered
<1>14. QED BY <1>13, TreeJoin

\* The compare-and-swap of the child's word.
LEMMA TreeCommit ==
  ASSUME IInv, Tree, TreeInv, NEW t \in Threads, Commit(t)
  PROVE  TreeInv' /\ (Flat!Register(t) \/ UNCHANGED Flat!bvars)
<1>1. pc[t] = "commit" /\ UNCHANGED <<op, cur, caller, copy, client, touched>>
  BY DEF Commit
<1>2. CASE /\ snap' = [snap EXCEPT ![t][cur[t]] = state[cur[t]]]
           /\ Goto(t, "commitLoad", NoOut)
           /\ UNCHANGED <<shared, held, left>>
  BY <1>1, <1>2, TreeCommitFails
<1>3. CASE ~(/\ snap' = [snap EXCEPT ![t][cur[t]] = state[cur[t]]]
             /\ Goto(t, "commitLoad", NoOut)
             /\ UNCHANGED <<shared, held, left>>)
  <2>1. PICK p : p = cur[t]
    OBVIOUS
  <2>2. PICK n : n = Registrations(t, p)
    OBVIOUS
  <2>3. /\ state[cur[t]] = snap[t][cur[t]]
        /\ state' = [state EXCEPT ![p] = to_state(out[t], n, n)]
        /\ lock' = [lock EXCEPT ![p] = NoThread]
        /\ Return(t, out[t])
        /\ IF p = Home[t]
           THEN held' = [held EXCEPT ![t] = n] /\ left' = [left EXCEPT ![t] = n]
           ELSE UNCHANGED <<held, left>>
        /\ UNCHANGED snap
    BY <1>3, <2>1, <2>2 DEF Commit
  <2>4. QED BY <1>1, <2>1, <2>2, <2>3, TreeCommits
<1>4. QED BY <1>2, <1>3

(***************************************************************************)
(* Termination and the advance.                                            *)
(***************************************************************************)
\* force_termination is the barrier's.
LEMMA TreeTerminate ==
  ASSUME IInv, Tree, TreeInv, NEW t \in Threads, pc[t] = "cas",
         state[cur[t]] = snap[t][cur[t]],
         TerminateCas(t, cur[t], snap[t][cur[t]]), UNCHANGED <<copy, lock, op, client>>
  PROVE  TreeInv' /\ Flat!Terminate
<1>1. PICK s : s = state[Root]
  OBVIOUS
<1>2. PICK w : w = Terminated(s)
  OBVIOUS
<1>3. PICK o : o = make(s)
  OBVIOUS
<1>4. /\ Mine(t) /\ Place(t) /\ Dated(t) /\ Keeps(t) /\ Rooted /\ LocalType
      /\ op[t] = "term" /\ pc[t] # "client" /\ Root \in Phasers /\ Old(s)
      /\ state \in [Phasers -> Word] /\ s \in Word
  BY <1>1, TreeAssumption
  DEF TerminateCas, TreeInv, Tree, IInv, SharedType, LocalInv, Mine
<1>5. cur[t] = Root /\ s = snap[t][Root]
  BY <1>1, <1>4 DEF Place
<1>6. /\ state' = [state EXCEPT ![Root] = w] /\ Goto(t, "ret", o)
      /\ UNCHANGED <<op, client, snap, cur, caller, copy, held, left, touched>>
  BY <1>2, <1>3, <1>5 DEF TerminateCas, Return, ghost
<1>7. w.term = TRUE /\ w.phase = Now
  BY <1>1, <1>2 DEF Terminated, Now
<1>8. /\ state'[Root] = w /\ \A q \in Phasers : q # Root => state'[q] = state[q]
      /\ ~Live' /\ Still
  BY <1>4, <1>6, <1>7 DEF Live, Still, Now
<1>9. \A u \in Threads : u # t => /\ Same(u)
                                  /\ held'[u] = held[u] /\ left'[u] = left[u]
  BY <1>4, <1>6 DEF Goto, LocalType, Same, client
<1>10. /\ pc'[t] = "ret" /\ out'[t] = o /\ op'[t] = "term"
       /\ role'[t] = role[t] /\ todo'[t] = todo[t] /\ seen'[t] = seen[t]
  BY <1>4, <1>6 DEF Goto, LocalType, client
<1>11. Mine(t)'
  <2>1. Rests(t)
    BY <1>4 DEF Keeps
  <2>2. /\ Outside(t) => Outside(t)'
        /\ Unarrived(t) => Unarrived(t)'
        /\ Waiting(t) => Waiting(t)'
    BY <1>6, <1>8, <1>10, Beliefs
  <2>3. Rests(t)'
    BY <1>10, <2>1, <2>2 DEF Rests
  <2>4. Keeps(t)'
    BY <1>10, <2>3 DEF Keeps, ArriveOps
  <2>5. Move(t, "ret", o, copy[t], snap[t][cur[t]])
    BY <1>4, <1>6, <1>10 DEF Move
  <2>6. Old(o) /\ Old(copy[t]) /\ Old(snap[t][cur[t]])
    BY <1>1, <1>3, <1>4, <1>5, Made DEF Dated
  <2>7. QED BY <1>4, <1>8, <2>4, <2>5, <2>6, MoveMine DEF ArriveOps
<1>12. TreeInv'
  <2>1. Now \in Nat
    BY <1>1, <1>4, WidthAssumption DEF Now, Word, Phase
  <2>2. QED BY <1>4, <1>7, <1>8, <1>9, <1>11, <2>1, TreeStore
<1>13. Flat!Terminate
  BY <1>6, <1>7, <1>8 DEF Flat!Terminate, Now
<1>14. QED BY <1>12, <1>13

\* When nobody is pending at the root, nobody is anywhere in the tree.
LEMMA AllDone ==
  ASSUME IInv, Tree, TreeInv, Live, state[Root].pending = 0
  PROVE  /\ touched
         /\ \A p \in Phasers : Due(p) = 0
         /\ \A t \in Threads : left[t] = 0
         /\ \A t \in Threads, c \in Phasers : ~ArrivesFor(t, c) /\ ~Entering(t, c)
         /\ state[Root].parties = 0 <=> \A t \in Threads : held[t] = 0
         /\ Regd = {p \in Phasers : state[p].parties # 0}
<1>1. /\ Books /\ Rooted /\ touched /\ Root \in Phasers
      /\ state \in [Phasers -> Word] /\ Home \in [Threads -> Phasers]
  BY TreeAssumption, ClientAssumption DEF TreeInv, LiveInv, Tree, IInv, SharedType
<1>2. /\ held \in [Threads -> 0 .. CountSize] /\ left \in [Threads -> 0 .. CountSize]
      /\ Regd \in SUBSET Phasers /\ Owing \in SUBSET Phasers
  BY Counts
<1>3. \A t \in Threads : ~ArrivesFor(t, Root) /\ ~Entering(t, Root)
  BY <1>1, Claims
<1>4. Due(Root) = 0
  BY DEF Due, Now
<1>5. Root \notin Owing
  BY <1>3, <1>4 DEF Owing
<1>6. Owing = {}
  <2>1. ASSUME NEW c \in Owing, c # Root PROVE Parent[c] \in Owing
    <3>1. Parent[c] \in Phasers
      BY <1>2, <2>1, TreeAssumption
    <3>2. Total(Parent[c], left, Owing) # 0
      BY <1>2, <3>1, TotalNone
    <3>3. Due(Parent[c]) # 0
      BY <1>1, <3>1, <3>2 DEF Books
    <3>4. QED BY <3>1, <3>3 DEF Owing
  <2>2. QED BY <1>1, <1>2, <1>5, <2>1, Upwards
<1>7. /\ \A p \in Phasers : Due(p) = 0
      /\ \A t \in Threads, c \in Phasers : ~ArrivesFor(t, c) /\ ~Entering(t, c)
  BY <1>6 DEF Owing
<1>8. ASSUME NEW t \in Threads PROVE left[t] = 0
  <2>1. Home[t] \in Phasers
    BY <1>1
  <2>2. Total(Home[t], left, Owing) = 0
    BY <1>1, <1>7, <2>1 DEF Books
  <2>3. QED BY <1>2, <2>1, <2>2, TotalNone
<1>9. Regd = {p \in Phasers : state[p].parties # 0}
  BY <1>7 DEF Regd
<1>10. ASSUME state[Root].parties = 0, NEW t \in Threads PROVE held[t] = 0
  <2>1. ASSUME NEW c \in Regd, c # Root PROVE Parent[c] \in Regd
    <3>1. Parent[c] \in Phasers
      BY <1>2, <2>1, TreeAssumption
    <3>2. Total(Parent[c], held, Regd) # 0
      BY <1>2, <3>1, TotalNone
    <3>3. QED BY <1>1, <1>9, <3>1, <3>2 DEF Books
  <2>2. Regd = {}
    BY <1>1, <1>2, <1>9, <1>10, <2>1, Upwards
  <2>3. Home[t] \in Phasers
    BY <1>1
  <2>4. Total(Home[t], held, Regd) = 0
    BY <1>1, <1>9, <2>2, <2>3 DEF Books
  <2>5. QED BY <1>2, <2>3, <2>4, TotalNone
<1>11. ASSUME \A t \in Threads : held[t] = 0 PROVE state[Root].parties = 0
  <2>1. ASSUME NEW p \in Regd PROVE \E c \in Regd : c # Root /\ Parent[c] = p
    <3>1. p \in Phasers /\ Total(p, held, Regd) # 0
      BY <1>1, <1>9 DEF Books
    <3>2. PICK c \in Regd : Parent[c] = p
      BY <1>2, <1>11, <3>1, TotalNone
    <3>3. c # Root
      BY <3>1, <3>2, TreeAssumption
    <3>4. QED BY <3>2, <3>3
  <2>2. Regd = {}
    BY <1>1, <1>2, <2>1, Downwards
  <2>3. QED BY <1>1, <1>9, <2>2
<1>12. QED BY <1>1, <1>7, <1>8, <1>9, <1>10, <1>11

\* The word of the next phase.
LEMMA AdvancedCount ==
  ASSUME NEW w \in Word
  PROVE  /\ Advanced(w).parties = w.parties
         /\ Advanced(w).term = on_advance(w.parties)
         /\ w.parties # 0 => Advanced(w).pending = w.parties
<1>1. /\ w.parties \in Count /\ 0 \in Count /\ 1 \in Count
  BY WidthAssumption DEF Word, Count
<1>2. /\ 0 % CountSize = 0 /\ 1 % CountSize = 1
      /\ w.parties % CountSize = w.parties
  BY <1>1, ModSmall, WidthAssumption DEF Count
<1>3. on_advance(w.parties) => w.parties = 0
  BY DEF on_advance
<1>4. Advanced(w).term = on_advance(w.parties)
  BY DEF Advanced, to_state
<1>5. CASE w.parties = 0
  <2>1. Advanced(w).parties = 0 % CountSize \/ Advanced(w).parties = w.parties % CountSize
    BY <1>5 DEF Advanced, to_state
  <2>2. QED BY <1>2, <1>4, <1>5, <2>1
<1>6. CASE w.parties # 0
  <2>1. /\ Advanced(w).parties = w.parties % CountSize
        /\ Advanced(w).pending = w.parties % CountSize
    BY <1>3, <1>6 DEF Advanced, to_state
  <2>2. QED BY <1>2, <1>4, <2>1
<1>7. QED BY <1>5, <1>6

(***************************************************************************)
(* A new phase.                                                            *)
(***************************************************************************)
\* A phase begins: nobody was left to arrive, and now everybody is.
Opens ==
  /\ Live /\ Now \in Nat /\ state'[Root].phase = Now + 1 /\ NextPhase(Now) = Now + 1
  /\ \A u \in Threads : /\ left[u] = 0 /\ held[u] \in Nat
                        /\ held'[u] = held[u] /\ left'[u] = held[u]
  /\ \A u \in Threads, c \in Phasers : ~ArrivesFor(u, c) /\ ~Entering(u, c)

\* What a client believes when the phase begins.
LEMMA OpensBelief ==
  ASSUME IInv, Opens, NEW u \in Threads, todo'[u] = todo[u], seen'[u] = seen[u]
  PROVE  /\ ~Unarrived(u) /\ ~Renewed(u) /\ ~Entered(u)
         /\ Outside(u) => Outside(u)'
         /\ Waiting(u) => Waiting(u)' /\ seen[u] = Now /\ Renewed(u)'
         /\ Arrived(u) => Arrived(u)'
<1>1. /\ left[u] = 0 /\ held[u] \in Nat /\ held'[u] = held[u] /\ left'[u] = held[u]
      /\ ~state[Root].term /\ Now = state[Root].phase
      /\ state'[Root].phase = Now + 1 /\ NextPhase(Now) = Now + 1
  BY DEF Opens, Live, Now
<1>2. ~Unarrived(u) /\ ~Renewed(u) /\ ~Entered(u)
  BY <1>1 DEF Unarrived, Renewed, Entered
<1>3. Outside(u) => Outside(u)'
  BY <1>1 DEF Outside
<1>4. Waiting(u) => Waiting(u)' /\ seen[u] = Now /\ Renewed(u)'
  <2>1. Waiting(u) => held[u] > 0 /\ seen[u] = Now
    BY <1>1, <1>2 DEF Waiting
  <2>2. Waiting(u) => Renewed(u)'
    BY <1>1, <2>1 DEF Renewed
  <2>3. Waiting(u) => state'[Root].phase = NextPhase(seen'[u])
    BY <1>1, <2>1
  <2>4. QED BY <2>1, <2>2, <2>3 DEF Waiting
<1>5. Arrived(u) => Arrived(u)'
  <2>1. Arrived(u) /\ todo[u] > 1 => left[u] > 0
    BY DEF Arrived, IInv, ClientType
  <2>2. Arrived(u) => ~(todo[u] > 1) /\ (held[u] = 0 \/ Waiting(u))
    BY <1>1, <2>1 DEF Arrived
  <2>3. Arrived(u) => ~(todo'[u] > 1) /\ (held'[u] = 0 \/ Waiting(u)')
    BY <1>1, <1>4, <2>2
  <2>4. QED BY <2>3 DEF Arrived
<1>6. QED BY <1>2, <1>3, <1>4, <1>5

\* Nobody was about to arrive.
LEMMA OpensQuiet ==
  ASSUME IInv, Rooted, Opens, NEW u \in Threads, Mine(u)
  PROVE  ~(op[u] \in ArriveOps /\ pc[u] \in Trying)
<1> SUFFICES ASSUME op[u] \in ArriveOps, pc[u] \in Trying
             PROVE  FALSE
  OBVIOUS
<1>1. Place(u) /\ Keeps(u) /\ pc[u] # "client"
  BY DEF Mine, Trying
<1>2. left[u] = 0
  BY DEF Opens
<1>3. AtHome(u) => Unarrived(u)
  BY <1>1 DEF Keeps, Arrives, ArrivesAndWaits, ArriveOps
<1>4. cur[u] # Home[u]
  BY <1>2, <1>3 DEF AtHome, Unarrived
<1>5. caller[u][cur[u]] \in Phasers
  BY <1>1, <1>4, PlaceFacts
<1>6. ArrivesFor(u, caller[u][cur[u]])
  BY DEF ArrivesFor
<1>7. QED BY <1>5, <1>6 DEF Opens

\* What a thread remembers is of an earlier phase.
LEMMA OpensOld ==
  ASSUME Opens, NEW w, Old(w), w.phase \in Nat
  PROVE  w.phase # Now' /\ w.phase <= Now' /\ ~w.term
  BY DEF Opens, Old, Now

\* The affairs of a client that only looks on.
LEMMA OpensKeeps ==
  ASSUME IInv, Rooted, Opens, NEW u \in Threads, Mine(u), Same(u)
  PROVE  Keeps(u)'
<1>1. Keeps(u) /\ Dated(u) /\ Live
  BY DEF Mine, Opens
<1>2. ~(op[u] \in ArriveOps /\ pc[u] \in Trying)
  BY OpensQuiet
<1>3. /\ ~Unarrived(u) /\ ~Renewed(u) /\ ~Entered(u)
      /\ Outside(u) => Outside(u)'
      /\ Waiting(u) => Waiting(u)' /\ seen[u] = Now /\ Renewed(u)'
      /\ Arrived(u) => Arrived(u)'
  BY OpensBelief DEF Same
<1>4. /\ pc'[u] = pc[u] /\ op'[u] = op[u] /\ cur'[u] = cur[u] /\ role'[u] = role[u]
      /\ out'[u] = out[u] /\ seen'[u] = seen[u] /\ snap'[u] = snap[u]
      /\ held'[u] = held[u]
  BY DEF Same, Opens
<1>5. ToldNext(u) /\ ~out[u].term => pc[u] # "ret"
  BY <1>3 DEF ToldNext
<1>6. ~out[u].term
  BY <1>1 DEF Dated, Old
<1>7. Rests(u) => Rests(u)'
  BY <1>3, <1>4 DEF Rests
<1>8. Joins(u) => Joins(u)'
  <2>1. Joins(u) =>
          /\ ~(pc[u] = "ret" /\ AtHome(u) /\ out[u].cond = "normal" /\ ~out[u].term)
          /\ Outside(u)
    BY <1>3 DEF Joins
  <2>2. AtHome(u)' <=> AtHome(u)
    BY <1>4 DEF AtHome
  <2>3. QED BY <1>3, <1>4, <2>1, <2>2 DEF Joins
<1>9. Arrives(u) /\ op[u] \in ArriveOps => Arrives(u)'
  BY <1>2, <1>3, <1>4 DEF Arrives
<1>10. ToldNext(u) => ToldNext(u)'
  BY <1>4, <1>5, <1>6 DEF ToldNext
<1>11. ArrivesAndWaits(u) /\ op[u] \in ArriveOps => ArrivesAndWaits(u)'
  BY <1>2, <1>3, <1>4, <1>10 DEF ArrivesAndWaits
<1>12. op[u] \in ArriveOps => InPhase(u)'
  BY <1>2, <1>4 DEF InPhase, Trying
<1>13. Awaits(u) => Awaits(u)'
  BY <1>3, <1>4, <1>10 DEF Awaits
<1>14. QED BY <1>1, <1>4, <1>7, <1>8, <1>9, <1>11, <1>12, <1>13 DEF Keeps, ArriveOps

\* What a thread remembers stays old.
LEMMA OpensDated ==
  ASSUME IInv, Opens, NEW u \in Threads, Dated(u),
         snap'[u] = snap[u], copy'[u] = copy[u], seen'[u] = seen[u]
  PROVE  /\ \A q \in Phasers : snap'[u][q].phase # Now'
         /\ Old(out[u])' => Dated(u)'
         /\ out'[u] = out[u] => Old(out[u])'
<1>1. /\ copy[u] \in Word /\ out[u] \in PhaseType /\ seen[u] \in Phase
      /\ \A q \in Phasers : snap[u][q] \in Word
      /\ \A w \in Word : w.phase \in Nat
      /\ \A o \in PhaseType : o.phase \in Nat
      /\ \A ph \in Phase : ph \in Nat
  BY WidthAssumption
  DEF IInv, LocalInv, LocalType, ClientType, Word, PhaseType, Phase
<1>2. \A w : Old(w) /\ w.phase \in Nat => w.phase # Now' /\ w.phase <= Now' /\ ~w.term
  BY OpensOld
<1>3. /\ Old(copy[u]) /\ Old(out[u]) /\ \A q \in Phasers : Old(snap[u][q])
      /\ seen[u] <= Now /\ held[u] \in 0 .. Weight[u]
  BY DEF Dated
<1>4. Now \in Nat /\ Now' = Now + 1
  BY DEF Opens, Now
<1>5. \A q \in Phasers : snap'[u][q].phase # Now' /\ snap'[u][q].phase <= Now'
                         /\ ~snap'[u][q].term
  BY <1>1, <1>2, <1>3
<1>6. copy'[u].phase <= Now' /\ ~copy'[u].term
  BY <1>1, <1>2, <1>3
<1>7. out[u].phase <= Now' /\ ~out[u].term
  BY <1>1, <1>2, <1>3
<1>8. seen'[u] <= Now'
  BY <1>1, <1>3, <1>4
<1>9. held'[u] \in 0 .. Weight[u] /\ left'[u] \in 0 .. held'[u]
  BY <1>3 DEF Opens
<1>10. (\A q \in Phasers : Old(snap[u][q])') /\ Old(copy[u])'
  BY <1>5, <1>6 DEF Old
<1>11. out'[u] = out[u] => Old(out[u])'
  BY <1>7 DEF Old
<1>12. Old(out[u])' => Dated(u)'
  BY <1>8, <1>9, <1>10 DEF Dated
<1>13. QED BY <1>5, <1>11, <1>12

\* A thread that only looks on.
LEMMA OpensMine ==
  ASSUME IInv, Rooted, Opens, NEW u \in Threads, Mine(u), Same(u)
  PROVE  Mine(u)'
<1>1. Place(u) /\ Fits(u) /\ Dated(u) /\ Heard(u) /\ Live
  BY DEF Mine, Opens
<1>2. Keeps(u)'
  BY OpensKeeps
<1>3. Place(u)'
  BY <1>1 DEF Same, Place, Called
<1>4. Fits(u)'
  BY <1>1 DEF Same, Fits, Passed, Called
<1>5. Dated(u)'
  BY <1>1, OpensDated DEF Same
<1>6. Pins(u)'
  <2>1. \A c \in Phasers : ~Entering(u, c)'
    BY DEF Same, Entering, Opens
  <2>2. QED BY <2>1 DEF Pins
<1>7. Heard(u)'
  <2>1. ~(op[u] \in ArriveOps /\ pc[u] \in Trying)
    BY OpensQuiet
  <2>2. /\ pc'[u] = pc[u] /\ op'[u] = op[u] /\ cur'[u] = cur[u]
        /\ caller'[u] = caller[u] /\ copy'[u] = copy[u] /\ out'[u] = out[u]
    BY DEF Same
  <2>3. QED BY <1>1, <2>1, <2>2 DEF Heard, Trying
<1>8. QED BY <1>2, <1>3, <1>4, <1>5, <1>6, <1>7 DEF Mine

(***************************************************************************)
(* The advance.                                                            *)
(***************************************************************************)
\* The last arriver's compare-and-swap fails: a termination was faster.
LEMMA AdvanceOvertaken ==
  ASSUME IInv, AdvanceOwned, Tree, TreeInv, NEW t \in Threads, AdvanceCas(t),
         state[Root] # snap[t][Root]
  PROVE  TreeInv' /\ UNCHANGED Flat!bvars
<1>1. PICK o : o = IF op[t] = "aaa" THEN make(state[Root]) ELSE out[t]
  OBVIOUS
<1>2. /\ pc[t] = "adv" /\ Goto(t, "ret", o)
      /\ UNCHANGED <<state, left, touched, lock, op, cur, caller, snap, copy, client, held>>
  BY <1>1 DEF AdvanceCas, Return
<1>3. /\ Mine(t) /\ Place(t) /\ Dated(t) /\ Keeps(t) /\ Rooted /\ LocalType
      /\ Root \in Phasers /\ state[Root] \in Word /\ Old(state[Root])
      /\ op[t] \in Ops /\ cur[t] = Root
  BY <1>2, TreeAssumption
  DEF TreeInv, Tree, IInv, SharedType, LocalInv, LocalType, Mine, Safe, Fit
<1>4. state[Root].term
  BY <1>2 DEF AdvanceOwned
<1>5. op[t] \in ArriveOps /\ role[t] = "in"
  BY <1>2, <1>3
  DEF Keeps, Rests, Joins, Arrives, ArrivesAndWaits, Awaits, Ops, ArriveOps,
      Trying, Entry
<1>6. \A u \in Threads : u # t => Same(u)
  BY <1>2, <1>3 DEF Goto, LocalType, Same, client
<1>7. /\ pc'[t] = "ret" /\ out'[t] = o /\ op'[t] = op[t] /\ role'[t] = role[t]
      /\ todo'[t] = todo[t] /\ seen'[t] = seen[t]
      /\ held'[t] = held[t] /\ left'[t] = left[t]
  BY <1>2, <1>3 DEF Goto, LocalType, client
<1>8. Move(t, "ret", o, copy[t], snap[t][cur[t]])
  BY <1>2, <1>3, <1>7 DEF Move
<1>9. Still
  BY <1>2 DEF Still, Now
<1>10. Old(o) /\ Old(copy[t]) /\ Old(snap[t][cur[t]])
  BY <1>1, <1>3, Made DEF Dated
<1>11. Keeps(t)'
  <2>1. CASE op[t] = "aaa"
    <3>1. o.cond = "normal" /\ o.term
      BY <1>1, <1>3, <1>4, <2>1, Made
    <3>2. ArrivesAndWaits(t)' /\ InPhase(t)'
      BY <1>5, <1>7, <3>1 DEF ArrivesAndWaits, ToldNext, InPhase, Trying
    <3>3. QED BY <1>7, <2>1, <3>2 DEF Keeps, ArriveOps
  <2>2. CASE op[t] # "aaa"
    <3>1. op[t] \in {"arrive", "dereg"} /\ o = out[t]
      BY <1>1, <1>5, <2>2 DEF ArriveOps
    <3>2. Arrives(t)
      BY <1>3, <3>1 DEF Keeps
    <3>3. Arrived(t) => Arrived(t)'
      BY <1>7, <1>9, Beliefs
    <3>4. Arrives(t)' /\ InPhase(t)'
      BY <1>2, <1>5, <1>7, <3>1, <3>2, <3>3 DEF Arrives, InPhase, Trying
    <3>5. QED BY <1>7, <3>1, <3>4 DEF Keeps, ArriveOps
  <2>3. QED BY <2>1, <2>2
<1>12. Mine(t)'
  BY <1>2, <1>3, <1>5, <1>8, <1>9, <1>10, <1>11, MoveMine DEF ArriveOps
<1>13. caller[t][cur[t]] = NoPhaser \/ "ret" \notin Trying
  BY DEF Trying
<1>14. /\ op[t] # "register" /\ pc[t] # "client"
       /\ op[t] \in ArriveOps /\ caller[t][cur[t]] # NoPhaser =>
            ("ret" \in Trying <=> pc[t] \in Trying)
  BY <1>2, <1>5 DEF Trying, ArriveOps
<1>15. QED
  BY <1>2, <1>3, <1>6, <1>8, <1>12, <1>14, IdleMove

\* The last arriver opens the next phase.
LEMMA AdvanceOpens ==
  ASSUME IInv, Tree, TreeInv, Live, NEW s \in Word, s = state[Root], s.pending = 0,
         state'[Root] = Advanced(s), held' = held, left' = held,
         state'[Root].phase >= state[Root].phase
  PROVE  Opens
<1>1. Advanced(s).phase = NextPhase(s.phase)
  BY AdvancedWord
<1>2. s.phase \in Phase /\ s.phase \in Nat /\ s.phase = Now
  BY WidthAssumption DEF Word, Phase, Now
<1>3. NextPhase(Now) = Now + 1
  <2>1. NextPhase(Now) = IF Now + 1 = PhaseSize THEN 0 ELSE Now + 1
    BY <1>2, NextPhaseValue
  <2>2. NextPhase(Now) >= Now
    BY <1>1, <1>2
  <2>3. Now + 1 = PhaseSize => Now > 0
    BY <1>2, WidthAssumption
  <2>4. QED BY <1>2, <2>1, <2>2, <2>3
<1>4. state'[Root].phase = Now + 1
  BY <1>1, <1>2, <1>3
<1>5. /\ \A u \in Threads : left[u] = 0
      /\ \A u \in Threads, c \in Phasers : ~ArrivesFor(u, c) /\ ~Entering(u, c)
  BY AllDone
<1>6. \A u \in Threads : held[u] \in Nat
  BY Counts, WidthAssumption
<1>7. QED BY <1>2, <1>3, <1>4, <1>5, <1>6 DEF Opens

\* The words after the advance.
LEMMA OpensWords ==
  ASSUME IInv, Tree, TreeInv, Opens, \A p \in Phasers : Due(p) = 0,
         \A q \in Phasers : q # Root => state'[q] = state[q],
         state'[Root].parties = state[Root].parties,
         state'[Root].term \/ state[Root].parties = 0
           \/ state'[Root].pending = state[Root].parties
  PROVE  /\ \A p \in Phasers : Old(state[p])'
         /\ Lags'
         /\ Live' => \A p \in Phasers : Due(p)' = state[p].parties
         /\ \A p \in Phasers : state'[p].parties = state[p].parties
<1>1. /\ Now \in Nat /\ Now' = Now + 1 /\ Live
      /\ \A p \in Phasers : state[p] \in Word /\ Old(state[p])
      /\ \A w \in Word : w.phase \in Nat
      /\ Lags
  BY WidthAssumption DEF Opens, Now, TreeInv, IInv, SharedType, Word, Phase
<1>2. \A p \in Phasers : state'[p].parties = state[p].parties
  OBVIOUS
<1>3. ASSUME NEW c \in Phasers, c # Root
      PROVE  /\ state'[c] = state[c] /\ state[c].phase # Now' /\ state[c].phase <= Now'
             /\ ~state[c].term
  BY <1>1, <1>3, OpensOld
<1>4. ASSUME NEW p \in Phasers PROVE Old(state[p])'
  <2>1. CASE p = Root
    <3>1. state'[p].phase = Now' /\ (state'[p].term => ~Live')
      BY <2>1 DEF Now, Live
    <3>2. Now' <= Now'
      BY <1>1
    <3>3. QED BY <3>1, <3>2 DEF Old
  <2>2. CASE p # Root
    BY <1>3, <2>2 DEF Old
  <2>3. QED BY <2>1, <2>2
<1>5. Lags'
  <2>1. ASSUME NEW c \in Phasers
        PROVE  \/ state'[c].phase = Now'
               \/ state'[c].parties = 0
               \/ state'[c].pending = 0 /\ Now' = state'[c].phase + 1
    <3>1. CASE c = Root
      BY <3>1 DEF Now
    <3>2. CASE c # Root
      <4>1. \/ state[c].phase = Now
            \/ state[c].parties = 0
            \/ state[c].pending = 0 /\ Now = state[c].phase + 1
        BY <1>1 DEF Lags
      <4>2. Due(c) = 0
        OBVIOUS
      <4>3. state[c].parties = 0 \/ (state[c].phase = Now /\ state[c].pending = 0)
        BY <1>1, <4>1, <4>2 DEF Due
      <4>4. QED BY <1>1, <1>3, <3>2, <4>3
    <3>3. QED BY <3>1, <3>2
  <2>2. QED BY <2>1 DEF Lags
<1>6. ASSUME Live', NEW p \in Phasers PROVE Due(p)' = state[p].parties
  <2>1. CASE p = Root
    <3>1. state'[p].phase = Now' /\ ~state'[p].term
      BY <1>6, <2>1 DEF Now, Live
    <3>2. QED BY <1>2, <2>1, <3>1 DEF Due
  <2>2. CASE p # Root
    BY <1>3, <2>2 DEF Due
  <2>3. QED BY <2>1, <2>2
<1>7. QED BY <1>2, <1>4, <1>5, <1>6

\* The books of the new phase.
LEMMA OpensBooks ==
  ASSUME IInv, Tree, TreeInv, Live, Regd = {p \in Phasers : state[p].parties # 0},
         \A p \in Phasers : Due(p)' = state[p].parties,
         \A p \in Phasers : state'[p].parties = state[p].parties,
         \A u \in Threads, c \in Phasers : ~ArrivesFor(u, c)' /\ ~Entering(u, c)',
         held' = held, left' = held
  PROVE  Books'
<1>1. Books
  BY DEF TreeInv, LiveInv
<1>2. Regd' = Regd
  BY DEF Regd
<1>3. Owing' = Regd
  BY DEF Owing
<1>4. ASSUME NEW p \in Phasers
      PROVE  state'[p].parties = Total(p, held', Regd')
             /\ Due(p)' = Total(p, left', Owing')
  <2>1. state[p].parties = Total(p, held, Regd)
    BY <1>1 DEF Books
  <2>2. QED BY <1>2, <1>3, <2>1
<1>5. QED BY <1>4 DEF Books, Total, PartiesOf, ChildrenIn

\* The thread in charge of the advance.
LEMMA OpensOwner ==
  ASSUME IInv, Rooted, Opens, NEW t \in Threads, Mine(t), pc[t] = "adv",
         op[t] \in ArriveOps, role[t] = "in", NEW o, Goto(t, "ret", o),
         o = IF op[t] = "aaa" THEN make(state'[Root]) ELSE out[t],
         state'[Root] \in Word,
         UNCHANGED <<op, cur, caller, snap, copy, client>>
  PROVE  Mine(t)'
<1>1. /\ pc'[t] = "ret" /\ out'[t] = o /\ op'[t] = op[t] /\ role'[t] = role[t]
      /\ todo'[t] = todo[t] /\ seen'[t] = seen[t] /\ cur'[t] = cur[t]
      /\ caller'[t] = caller[t] /\ snap'[t] = snap[t] /\ copy'[t] = copy[t]
  BY DEF Goto, IInv, LocalInv, LocalType, client
<1>2. Place(t) /\ Fits(t) /\ Dated(t) /\ Keeps(t) /\ Live
  BY DEF Mine, Opens
<1>3. PICK n : n = state'[Root]
  OBVIOUS
<1>4. /\ make(n).phase = n.phase /\ make(n).term = n.term /\ make(n).cond = "normal"
      /\ Now' = n.phase /\ (Live' <=> ~n.term) /\ n.phase \in Nat /\ n.phase = Now + 1
      /\ NextPhase(Now) = Now + 1
  BY <1>3, WidthAssumption DEF make, Now, Live, Word, Phase, Opens
<1>5. /\ Waiting(t) => Waiting(t)' /\ seen[t] = Now /\ Renewed(t)'
      /\ Arrived(t) => Arrived(t)'
  BY <1>1, OpensBelief
<1>6. Place(t)'
  BY <1>1, <1>2 DEF Place, Called
<1>7. Fits(t)'
  <2>1. \A c \in Phasers : Passed(t, c)' => Passed(t, c)
    BY <1>1 DEF Passed, Called
  <2>2. QED BY <1>1, <1>2, <2>1 DEF Fits, ArriveOps
<1>8. Dated(t)'
  <2>1. CASE op[t] = "aaa"
    <3>1. Old(out[t])'
      BY <1>1, <1>3, <1>4, <2>1 DEF Old
    <3>2. QED BY <1>1, <1>2, <3>1, OpensDated
  <2>2. CASE op[t] # "aaa"
    <3>1. out'[t] = out[t]
      BY <1>1, <2>2
    <3>2. QED BY <1>1, <1>2, <3>1, OpensDated
  <2>3. QED BY <2>1, <2>2
<1>9. Pins(t)' /\ Heard(t)'
  BY <1>1 DEF Pins, Heard, Entering, ArriveOps
<1>10. Keeps(t)'
  <2>1. CASE op[t] = "aaa"
    <3>1. Waiting(t)
      BY <1>2, <2>1 DEF Keeps, ArrivesAndWaits
    <3>2. out'[t].phase = NextPhase(seen'[t]) /\ out'[t].cond = "normal"
          /\ out'[t].phase = state'[Root].phase
      BY <1>1, <1>3, <1>4, <1>5, <2>1, <3>1
    <3>3. ToldNext(t)'
      BY <1>5, <3>1, <3>2 DEF ToldNext, Entered
    <3>4. ArrivesAndWaits(t)' /\ InPhase(t)'
      BY <1>1, <3>3 DEF ArrivesAndWaits, InPhase, Trying
    <3>5. QED BY <1>1, <2>1, <3>4 DEF Keeps, ArriveOps
  <2>2. CASE op[t] # "aaa"
    <3>1. op[t] \in {"arrive", "dereg"} /\ o = out[t]
      BY <2>2 DEF ArriveOps
    <3>2. Arrives(t)
      BY <1>2, <3>1 DEF Keeps
    <3>3. /\ out[t].cond = "normal"
          /\ ~out[t].term => Arrived(t)' /\ out[t].phase = seen[t]
      BY <1>5, <3>2 DEF Arrives
    <3>4. Arrives(t)' /\ InPhase(t)'
      BY <1>1, <3>1, <3>3 DEF Arrives, InPhase, Trying
    <3>5. QED BY <1>1, <3>1, <3>4 DEF Keeps, ArriveOps
  <2>3. QED BY <2>1, <2>2
<1>11. QED BY <1>6, <1>7, <1>8, <1>9, <1>10 DEF Mine

\* In a new phase nobody has finished anything.
LEMMA OpensLive ==
  ASSUME IInv, TreeInv, Opens, NEW t \in Threads, op'[t] = op[t], op[t] \in ArriveOps,
         pc'[t] = "ret", snap'[t] = snap[t],
         \A u \in Threads : u # t => Same(u),
         \A u \in Threads : \A q \in Phasers : snap[u][q].phase # Now',
         lock' = lock, \A q \in Phasers : q # Root => state'[q] = state[q]
  PROVE  Alone' /\ \A u \in Threads : Locks(u)' /\ Finish(u)'
<1>1. \A u \in Threads : snap'[u] = snap[u]
  BY DEF Same
<1>2. \A u \in Threads, q \in Phasers : snap'[u][q].phase # Now'
  BY <1>1
<1>3. \A u \in Threads, q \in Phasers : ~ArrivesFor(u, q)'
  <2>1. ASSUME NEW u \in Threads, NEW q \in Phasers PROVE ~ArrivesFor(u, q)'
    <3>1. CASE u = t
      BY <3>1 DEF ArrivesFor, Trying
    <3>2. CASE u # t
      <4>1. Same(u)
        BY <3>2
      <4>2. ~ArrivesFor(u, q)
        BY DEF Opens
      <4>3. QED BY <4>1, <4>2 DEF Same, ArrivesFor
    <3>3. QED BY <3>1, <3>2
  <2>2. QED BY <2>1
<1>4. Alone'
  BY <1>2 DEF Alone
<1>5. \A u \in Threads : Finish(u)'
  BY <1>2, <1>3 DEF Finish
<1>6. ASSUME NEW u \in Threads, NEW c \in Phasers, LockHeld(u, c)'
      PROVE  lock'[c] = u /\ state'[c].parties = 0 /\ state'[c].pending = 1
  <2>1. u # t
    BY <1>6 DEF LockHeld, ArriveOps
  <2>2. LockHeld(u, c)
    BY <1>6, <2>1 DEF Same, LockHeld, Called
  <2>3. c # Root
    BY <2>2, LockedBelow
  <2>4. Locks(u)
    BY DEF Opens, TreeInv, LiveInv
  <2>5. QED BY <2>2, <2>3, <2>4 DEF Locks
<1>7. \A u \in Threads : Locks(u)'
  BY <1>6 DEF Locks
<1>8. QED BY <1>4, <1>5, <1>7

\* The last arriver's compare-and-swap succeeds.
LEMMA AdvanceDone ==
  ASSUME IInv, Tree, TreeInv, NEW t \in Threads, AdvanceCas(t),
         state[Root] = snap[t][Root], state'[Root].phase >= state[Root].phase
  PROVE  TreeInv' /\ Flat!Advance
<1>1. PICK s : s = state[Root]
  OBVIOUS
<1>2. PICK w : w = Advanced(s)
  OBVIOUS
<1>3. PICK o : o = IF op[t] = "aaa" THEN make(state'[Root]) ELSE out[t]
  OBVIOUS
<1>4. /\ pc[t] = "adv" /\ Goto(t, "ret", o)
      /\ state' = [state EXCEPT ![Root] = w] /\ left' = held /\ touched' = FALSE
      /\ UNCHANGED <<lock, op, cur, caller, snap, copy, client, held>>
  BY <1>1, <1>2, <1>3 DEF AdvanceCas, Return
<1>5. /\ Mine(t) /\ Dated(t) /\ Keeps(t) /\ Rooted /\ LocalType
      /\ Root \in Phasers /\ s \in Word /\ state \in [Phasers -> Word]
      /\ op[t] \in Ops /\ cur[t] = Root /\ ~s.term /\ s.pending = 0
  BY <1>1, <1>4, TreeAssumption
  DEF TreeInv, Tree, IInv, SharedType, LocalInv, LocalType, Mine, Safe, Fit
<1>6. op[t] \in ArriveOps /\ role[t] = "in"
  BY <1>4, <1>5
  DEF Keeps, Rests, Joins, Arrives, ArrivesAndWaits, Awaits, Ops, ArriveOps,
      Trying, Entry
<1>7. /\ state'[Root] = w /\ \A q \in Phasers : q # Root => state'[q] = state[q]
      /\ Live /\ s.phase = Now
  BY <1>1, <1>4, <1>5 DEF Live, Now
<1>8. /\ touched
      /\ \A p \in Phasers : Due(p) = 0
      /\ \A u \in Threads : left[u] = 0
      /\ s.parties = 0 <=> \A u \in Threads : held[u] = 0
      /\ Regd = {p \in Phasers : state[p].parties # 0}
  BY <1>1, <1>5, <1>7, AllDone
<1>9. Opens
  BY <1>1, <1>2, <1>4, <1>5, <1>7, AdvanceOpens
<1>10. /\ w \in Word /\ w.phase = NextPhase(s.phase) /\ w.parties = s.parties
       /\ w.term = on_advance(s.parties) /\ (s.parties # 0 => w.pending = s.parties)
       /\ (~w.term => w.pending # 0)
  BY <1>2, <1>5, AdvancedWord, AdvancedCount, AdvancedPending
<1>11. \A u \in Threads : u # t => Same(u)
  BY <1>4, <1>5 DEF Goto, LocalType, Same, client
<1>12. ASSUME NEW u \in Threads PROVE Mine(u)'
  <2>1. Mine(u)
    BY DEF TreeInv
  <2>2. CASE u = t
    BY <1>3, <1>4, <1>5, <1>6, <1>7, <1>9, <1>10, <2>2, OpensOwner
  <2>3. CASE u # t
    BY <1>5, <1>9, <1>11, <2>1, <2>3, OpensMine
  <2>4. QED BY <2>2, <2>3
<1>13. /\ \A p \in Phasers : Old(state[p])'
       /\ Lags'
       /\ Live' => \A p \in Phasers : Due(p)' = state[p].parties
       /\ \A p \in Phasers : state'[p].parties = state[p].parties
  <2>1. /\ state'[Root].parties = state[Root].parties
        /\ \/ state'[Root].term \/ state[Root].parties = 0
           \/ state'[Root].pending = state[Root].parties
    BY <1>1, <1>7, <1>10
  <2>2. QED BY <1>7, <1>8, <1>9, <2>1, OpensWords
<1>14. ASSUME Live' PROVE LiveInv'
  <2>1. /\ op'[t] = op[t] /\ pc'[t] = "ret" /\ snap'[t] = snap[t]
    BY <1>4, <1>5 DEF Goto, LocalType
  <2>2. \A u \in Threads : \A q \in Phasers : snap[u][q].phase # Now'
    <3>1. ASSUME NEW u \in Threads, NEW q \in Phasers PROVE snap[u][q].phase # Now'
      <4>1. Old(snap[u][q])
        BY DEF TreeInv, Mine, Dated
      <4>2. snap[u][q].phase \in Nat
        BY <1>5, WidthAssumption DEF LocalType, Word, Phase
      <4>3. QED BY <1>9, <4>1, <4>2, OpensOld
    <3>2. QED BY <3>1
  <2>3. Alone' /\ \A u \in Threads : Locks(u)' /\ Finish(u)'
    BY <1>4, <1>6, <1>7, <1>9, <1>11, <2>1, <2>2, OpensLive
  <2>4. \A u \in Threads, c \in Phasers : ~ArrivesFor(u, c)' /\ ~Entering(u, c)'
    <3>1. ASSUME NEW u \in Threads, NEW c \in Phasers
          PROVE  ~ArrivesFor(u, c)' /\ ~Entering(u, c)'
      <4>1. CASE u = t
        BY <1>6, <2>1, <4>1 DEF ArrivesFor, Entering, Trying, ArriveOps
      <4>2. CASE u # t
        <5>1. ~ArrivesFor(u, c) /\ ~Entering(u, c)
          BY <1>9 DEF Opens
        <5>2. QED BY <1>11, <4>2, <5>1 DEF Same, ArrivesFor, Entering
      <4>3. QED BY <4>1, <4>2
    <3>2. QED BY <3>1
  <2>5. Books'
    BY <1>4, <1>7, <1>8, <1>13, <1>14, <2>4, OpensBooks
  <2>6. state'[Root].pending # 0
    BY <1>7, <1>10, <1>14 DEF Live
  <2>7. QED BY <2>3, <2>5, <2>6 DEF LiveInv
<1>15. TreeInv'
  BY <1>12, <1>13, <1>14 DEF TreeInv
<1>16. Flat!Advance
  <2>1. Flat!AllArrived
    BY <1>8 DEF Flat!AllArrived
  <2>2. state'[Root].phase = (state[Root].phase + 1) % PhaseSize
    BY <1>1, <1>7, <1>10 DEF NextPhase
  <2>3. state'[Root].term = (~NeverTerminate /\ \A u \in Threads : held[u] = 0)
    BY <1>7, <1>8, <1>10 DEF on_advance
  <2>4. QED BY <1>1, <1>4, <1>5, <2>1, <2>2, <2>3 DEF Flat!Advance
<1>17. QED BY <1>15, <1>16

(***************************************************************************)
(* Every step.                                                             *)
(***************************************************************************)
\* A compare-and-swap.
LEMMA TreeCas ==
  ASSUME IInv, Tree, TreeInv, NEW t \in Threads, Cas(t)
  PROVE  TreeInv' /\ (Flat!Next \/ UNCHANGED Flat!bvars)
<1>1. pc[t] = "cas" /\ UNCHANGED <<lock, op, client>>
  BY DEF Cas
<1>2. CASE state[cur[t]] = snap[t][cur[t]] /\ ArriveCas(t, cur[t], snap[t][cur[t]])
           /\ UNCHANGED copy
  <2>1. TreeInv' /\ ((\E d \in {0, 1} : Flat!Arrive(t, d)) \/ UNCHANGED Flat!bvars)
    BY <1>1, <1>2, TreeArrive
  <2>2. QED BY <2>1 DEF Flat!Next
<1>3. CASE state[cur[t]] = snap[t][cur[t]] /\ RegisterCas(t, cur[t], snap[t][cur[t]])
           /\ UNCHANGED copy
  <2>1. TreeInv' /\ (Flat!Register(t) \/ UNCHANGED Flat!bvars)
    BY <1>1, <1>3, TreeRegisterCas
  <2>2. QED BY <2>1 DEF Flat!Next
<1>4. CASE state[cur[t]] = snap[t][cur[t]] /\ TerminateCas(t, cur[t], snap[t][cur[t]])
           /\ UNCHANGED copy
  <2>1. TreeInv' /\ Flat!Terminate
    BY <1>1, <1>4, TreeTerminate
  <2>2. QED BY <2>1 DEF Flat!Next
<1>5. CASE RetryCas(t, cur[t])
  BY <1>1, <1>5, TreeRetry
<1>6. QED BY <1>2, <1>3, <1>4, <1>5 DEF Cas

\* The advance.
LEMMA TreeAdvance ==
  ASSUME IInv, AdvanceOwned, Tree, TreeInv, NEW t \in Threads, AdvanceCas(t),
         state'[Root].phase >= state[Root].phase
  PROVE  TreeInv' /\ (Flat!Next \/ UNCHANGED Flat!bvars)
<1>1. CASE state[Root] = snap[t][Root]
  BY <1>1, AdvanceDone DEF Flat!Next
<1>2. CASE state[Root] # snap[t][Root]
  BY <1>2, AdvanceOvertaken
<1>3. QED BY <1>1, <1>2

\* Nothing happens.
LEMMA TreeStutter ==
  ASSUME TreeInv, UNCHANGED vars
  PROVE  TreeInv' /\ UNCHANGED Flat!bvars
<1>1. UNCHANGED <<state, lock, held, left, touched>>
  BY DEF vars, shared, ghost
<1>2. \A u \in Threads : Same(u)
  BY DEF vars, local, client, Same
<1>3. Still /\ Now' = Now /\ (Live' <=> Live)
  BY <1>1 DEF Still, Now, Live
<1>4. \A u \in Threads : Mine(u)'
  BY <1>1, <1>2, <1>3, MineFrame DEF TreeInv
<1>5. (\A p \in Phasers : Old(state[p])') /\ Lags'
  BY <1>1, <1>3 DEF TreeInv, Old, Lags
<1>6. \A u \in Threads, c \in Phasers :
        /\ Passed(u, c)' <=> Passed(u, c)
        /\ ArrivesFor(u, c)' <=> ArrivesFor(u, c)
        /\ Entering(u, c)' <=> Entering(u, c)
        /\ LockHeld(u, c)' <=> LockHeld(u, c)
        /\ snap'[u][c] = snap[u][c]
  BY <1>2 DEF Same, Passed, ArrivesFor, Entering, LockHeld, Called
<1>7. ASSUME Live PROVE LiveInv'
  <2>1. LiveInv
    BY <1>7 DEF TreeInv
  <2>2. Alone'
    BY <1>3, <1>6, <2>1 DEF LiveInv, Alone
  <2>3. \A c \in Phasers : Due(c)' = Due(c)
    BY <1>1, <1>3 DEF Due
  <2>4. Regd' = Regd /\ Owing' = Owing
    BY <1>1, <1>6, <2>3 DEF Regd, Owing
  <2>5. Books'
    BY <1>1, <2>1, <2>3, <2>4 DEF LiveInv, Books, Total, PartiesOf, ChildrenIn
  <2>6. \A u \in Threads : Locks(u)'
    BY <1>1, <1>6, <2>1 DEF LiveInv, Locks
  <2>7. \A u \in Threads : Finish(u)'
    BY <1>1, <1>3, <1>6, <2>1 DEF LiveInv, Finish
  <2>8. QED BY <1>1, <2>1, <2>2, <2>5, <2>6, <2>7 DEF LiveInv
<1>8. QED BY <1>1, <1>3, <1>4, <1>5, <1>7 DEF TreeInv, Flat!bvars

\* Every step keeps the invariant and is a step of the barrier or none.
LEMMA TreeStep ==
  ASSUME IInv, AdvanceOwned, Tree, TreeInv, [Next]_vars,
         [state'[Root].phase >= state[Root].phase]_vars
  PROVE  TreeInv' /\ [Flat!Next]_(Flat!bvars)
<1>1. CASE UNCHANGED vars
  BY <1>1, TreeStutter
<1>2. ASSUME NEW t \in Threads, Run(t), state'[Root].phase >= state[Root].phase
      PROVE  TreeInv' /\ [Flat!Next]_(Flat!bvars)
  <2>1. CASE Load(t)
    BY <2>1, TreeLoad
  <2>2. CASE ReconcileLoad(t)
    BY <2>2, TreeReconcileLoad
  <2>3. CASE ReconcileCas(t)
    BY <2>3, TreeReconcileCas
  <2>4. CASE Cas(t)
    BY <2>4, TreeCas
  <2>5. CASE AdvanceCas(t)
    BY <1>2, <2>5, TreeAdvance
  <2>6. CASE Await(t)
    BY <2>6, TreeAwait
  <2>7. CASE Lock(t)
    BY <2>7, TreeLock
  <2>8. CASE Commit(t)
    BY <2>8, TreeCommit DEF Flat!Next
  <2>9. CASE CommitLoad(t)
    BY <2>9, TreeCommitLoad
  <2>10. CASE EmptyCas(t)
    BY <2>10, TreeEmptyCas
  <2>11. CASE Resume(t)
    BY <2>11, TreeResume
  <2>12. CASE Complete(t)
    BY <2>12, TreeComplete
  <2>13. QED
    BY <1>2, <2>1, <2>2, <2>3, <2>4, <2>5, <2>6, <2>7, <2>8, <2>9, <2>10, <2>11,
       <2>12 DEF Run
<1>3. ASSUME NEW t \in Threads, Participate(t) \/ Visit(t)
      PROVE  TreeInv' /\ [Flat!Next]_(Flat!bvars)
  BY <1>3, TreeBegin
<1>4. QED BY <1>1, <1>2, <1>3 DEF Next

\* The constructors establish the invariant.
LEMMA TreeInit ==
  ASSUME Tree, Init
  PROVE  TreeInv /\ Flat!Init
<1> DEFINE f == [t \in Threads |-> IF t \in Members THEN Weight[t] ELSE 0]
<1>1. PICK n \in [Phasers -> Count] :
        /\ \A p \in Phasers :
             n[p] = PartiesAt(p, todo, [c \in Phasers |-> n[c] > 0])
        /\ state = [p \in Phasers |->
             define_state(IF n[p] = 0 /\ p # Root THEN 0 ELSE InitPhase,
                          n[p], IF n[p] = 0 THEN 1 ELSE n[p])]
  BY DEF Init
<1>2. \A p \in Phasers :
        /\ state[p].term = FALSE
        /\ state[p].phase = IF n[p] = 0 /\ p # Root THEN 0 ELSE InitPhase
        /\ state[p].parties = n[p] /\ n[p] \in Nat
        /\ state[p].pending = IF n[p] = 0 THEN 1 ELSE n[p]
  BY <1>1, WidthAssumption DEF define_state, Count
<1>3. Now = InitPhase /\ Now \in Nat /\ Live /\ Root \in Phasers
  BY <1>2, WidthAssumption, TreeAssumption DEF Now, Live
<1>4. todo = f /\ held = f /\ left = f /\ touched = FALSE
  BY DEF Init
<1>5. \A t \in Threads : /\ f[t] \in {0, Weight[t]} /\ f[t] \in 0 .. Weight[t]
                         /\ f[t] \in 0 .. f[t] /\ (t \in Members => f[t] > 0)
  BY ClientAssumption, WidthAssumption
<1>6. \A t \in Threads :
        /\ pc[t] = "client" /\ op[t] = "none" /\ out[t] = NoOut /\ copy[t] = NoWord
        /\ \A q \in Phasers : caller[t][q] = NoPhaser /\ snap[t][q] = NoWord
        /\ role[t] = IF t \in Members THEN "in" ELSE "out"
        /\ seen[t] = InitPhase
  BY DEF Init
<1>7. Old(NoWord) /\ Old(NoOut)
  BY <1>3, WidthAssumption DEF Old, NoOut, make, NoWord, define_state
<1>8. \A p \in Phasers : Old(state[p])
  BY <1>2, <1>3, WidthAssumption DEF Old
<1>9. ASSUME NEW t \in Threads PROVE Mine(t)
  <2>1. Place(t)
    BY <1>6, TreeAssumption DEF Place, ArriveOps
  <2>2. Fits(t)
    BY <1>6 DEF Fits, Passed, ArriveOps
  <2>3. Dated(t)
    BY <1>3, <1>4, <1>5, <1>6, <1>7, WidthAssumption DEF Dated
  <2>4. Pins(t) /\ Heard(t)
    BY <1>6 DEF Pins, Heard, Entering
  <2>5. Keeps(t)
    <3>1. t \in Members => Unarrived(t)
      BY <1>2, <1>3, <1>4, <1>5, <1>6 DEF Unarrived, Now
    <3>2. t \notin Members => Outside(t)
      BY <1>4 DEF Outside
    <3>3. Rests(t)
      BY <1>6, <3>1, <3>2 DEF Rests
    <3>4. QED BY <1>6, <3>3 DEF Keeps, ArriveOps
  <2>6. QED BY <2>1, <2>2, <2>3, <2>4, <2>5 DEF Mine
<1>10. Lags
  BY <1>2, <1>3 DEF Lags
<1>11. \A t \in Threads, c \in Phasers :
         ~Passed(t, c) /\ ~ArrivesFor(t, c) /\ ~Entering(t, c) /\ ~LockHeld(t, c)
  BY <1>6, AtRest
<1>12. Books
  <2> DEFINE S == {c \in Phasers : n[c] > 0}
  <2>1. \A p \in Phasers : Due(p) = n[p]
    BY <1>2, <1>3 DEF Due
  <2>2. Regd = S
    BY <1>2, <1>11 DEF Regd
  <2>3. Owing = S
    BY <1>2, <1>11, <2>1 DEF Owing
  <2>4. [c \in Phasers |-> n[c] > 0] = [c \in Phasers |-> c \in S]
    OBVIOUS
  <2>5. ASSUME NEW p \in Phasers PROVE n[p] = Total(p, f, S)
    <3>1. S \in SUBSET Phasers
      OBVIOUS
    <3>2. n[p] = PartiesAt(p, f, [c \in Phasers |-> c \in S])
      BY <1>1, <1>4, <2>4
    <3>3. \A g, R : R \in SUBSET Phasers =>
            PartiesAt(p, g, [c \in Phasers |-> c \in R]) = Total(p, g, R)
      BY PartiesAtTotal
    <3>4. QED BY <3>1, <3>2, <3>3
  <2>6. QED BY <1>2, <1>4, <2>1, <2>2, <2>3, <2>5 DEF Books
<1>13. LiveInv
  <2>1. state[Root].pending # 0
    BY <1>2, <1>3
  <2>2. Alone /\ \A t \in Threads : Locks(t) /\ Finish(t)
    BY <1>11 DEF Alone, Locks, Finish
  <2>3. QED BY <1>12, <2>1, <2>2 DEF LiveInv
<1>14. TreeInv
  BY <1>8, <1>9, <1>10, <1>13 DEF TreeInv
<1>15. Flat!Init
  BY <1>2, <1>3, <1>4, <1>5, WidthAssumption DEF Flat!Init, Now
<1>16. QED BY <1>14, <1>15

(***************************************************************************)
(* What the invariant says of the properties.                              *)
(***************************************************************************)
\* A party that is due is one that reconcile_state would leave unarrived.
LEMMA DueCurrent ==
  ASSUME IInv, TreeInv, Live, NEW p \in Phasers
  PROVE  unarrived_of(Current(p)) = Due(p) /\ Due(p) \in Nat
<1>1. PICK w : w = state[p]
  OBVIOUS
<1>2. PICK r : r = state[Root]
  OBVIOUS
<1>3. /\ w \in Word /\ r \in Word /\ r.phase = Now /\ ~r.term
      /\ (~w.term <=> ~r.term) /\ w.term \in BOOLEAN /\ r.term \in BOOLEAN
  BY <1>1, <1>2, TreeAssumption
  DEF IInv, SharedType, TreeInv, Old, Now, Live, Word
<1>4. Due(p) = IF w.parties = 0 THEN 0 ELSE IF w.phase = Now THEN w.pending ELSE w.parties
  BY <1>1 DEF Due
<1>5. w.parties \in Count /\ w.pending \in Count /\ Count \subseteq Nat /\ 0 \in Count
  BY <1>3, WidthAssumption DEF Word, Count
<1>6. SamePhase(w, r) <=> w.phase = Now
  BY <1>3 DEF SamePhase
<1>7. CASE w.phase = Now
  <2>1. Current(p) = w
    BY <1>1, <1>2, <1>6, <1>7 DEF Current
  <2>2. QED BY <1>4, <1>5, <1>7, <2>1 DEF unarrived_of
<1>8. CASE w.phase # Now
  <2>1. Current(p) = Reconciled(w, r)
    BY <1>1, <1>2, <1>6, <1>8 DEF Current
  <2>2. w.parties % CountSize = w.parties /\ 0 % CountSize = 0
    BY <1>5, ModSmall, WidthAssumption DEF Count
  <2>3. CASE w.parties = 0
    <3>1. Current(p).parties = 0
      BY <1>3, <2>1, <2>2, <2>3 DEF Reconciled, to_state
    <3>2. QED BY <1>4, <2>3, <3>1 DEF unarrived_of
  <2>4. CASE w.parties # 0
    <3>1. Current(p).parties = w.parties /\ Current(p).pending = w.parties
      BY <1>3, <2>1, <2>2, <2>4 DEF Reconciled, to_state
    <3>2. QED BY <1>4, <1>5, <1>8, <2>4, <3>1 DEF unarrived_of
  <2>5. QED BY <2>3, <2>4
<1>9. QED BY <1>7, <1>8

\* Between operations the books are those of the words.
LEMMA TreeAccounts ==
  ASSUME IInv, TreeInv
  PROVE  Accounting
<1> SUFFICES ASSUME Quiescent, Live
             PROVE  \A p \in Phasers :
                      /\ state[p].parties =
                           PartiesAt(p, held, [c \in Phasers |-> state[c].parties > 0])
                      /\ unarrived_of(Current(p)) =
                           PartiesAt(p, left, [c \in Phasers |-> unarrived_of(Current(c)) > 0])
  BY DEF Accounting, Live
<1>1. \A t \in Threads : op[t] = "none"
  BY DEF Quiescent, TreeInv, Mine, Fits
<1>2. \A t \in Threads, c \in Phasers : ~ArrivesFor(t, c) /\ ~Entering(t, c)
  BY <1>1, AtRest
<1>3. \A c \in Phasers : unarrived_of(Current(c)) = Due(c) /\ Due(c) \in Nat
  BY DueCurrent
<1>4. \A c \in Phasers : state[c].parties \in Nat
  BY WidthAssumption DEF IInv, SharedType, Word, Count
<1>5. Regd = {c \in Phasers : state[c].parties > 0}
  BY <1>2, <1>4 DEF Regd
<1>6. Owing = {c \in Phasers : unarrived_of(Current(c)) > 0}
  BY <1>2, <1>3 DEF Owing
<1>7. /\ [c \in Phasers |-> state[c].parties > 0] = [c \in Phasers |-> c \in Regd]
      /\ [c \in Phasers |-> unarrived_of(Current(c)) > 0] = [c \in Phasers |-> c \in Owing]
  BY <1>5, <1>6
<1>8. Regd \in SUBSET Phasers /\ Owing \in SUBSET Phasers
  BY DEF Regd, Owing
<1>9. \A p \in Phasers : \A g, R : R \in SUBSET Phasers =>
        PartiesAt(p, g, [c \in Phasers |-> c \in R]) = Total(p, g, R)
  BY PartiesAtTotal
<1>10. Books
  BY DEF TreeInv, LiveInv
<1>11. ASSUME NEW p \in Phasers
       PROVE  /\ state[p].parties = PartiesAt(p, held, [c \in Phasers |-> c \in Regd])
              /\ Due(p) = PartiesAt(p, left, [c \in Phasers |-> c \in Owing])
  BY <1>8, <1>9, <1>10 DEF Books
<1>12. QED BY <1>3, <1>7, <1>11

\* The other properties of the words and of the results.
LEMMA TreeProperties ==
  ASSUME IInv, Rooted, TreeInv
  PROVE  ChildLag /\ PartyPinsPhase /\ ReturnedPhases
<1>1. ChildLag
  <2>1. ASSUME NEW c \in Phasers, Now = state[c].phase + 1
        PROVE  Now = NextPhase(state[c].phase)
    <3>1. state[c].phase \in Phase /\ Now \in Phase
      BY TreeAssumption DEF IInv, SharedType, Word, Now
    <3>2. state[c].phase + 1 # PhaseSize
      BY <2>1, <3>1, WidthAssumption DEF Phase
    <3>3. NextPhase(state[c].phase) = state[c].phase + 1
      BY <3>1, <3>2, NextPhaseValue
    <3>4. QED BY <2>1, <3>3
  <2>2. Lags
    BY DEF TreeInv
  <2>3. QED BY <2>1, <2>2 DEF Lags, ChildLag, Now
<1>2. PartyPinsPhase
  <2>1. ASSUME NEW t \in Threads, pc[t] = "client" PROVE Rests(t)
    BY <2>1 DEF TreeInv, Mine, Fits, Keeps
  <2>2. QED BY <2>1 DEF PartyPinsPhase, Rests, Unarrived, Waiting, Renewed
<1>3. ReturnedPhases
  <2> SUFFICES ASSUME NEW t \in Threads, pc[t] = "ret", ~out[t].term
               PROVE  /\ op[t] \in {"arrive", "dereg"} =>
                           out[t] = [term |-> FALSE, phase |-> seen[t],
                                     cond |-> "normal"]
                      /\ op[t] \in {"await", "aaa"} =>
                           out[t] = [term |-> FALSE, phase |-> NextPhase(seen[t]),
                                     cond |-> "normal"]
    BY DEF ReturnedPhases
  <2>1. Keeps(t) /\ out[t] \in PhaseType
    BY DEF TreeInv, Mine, IInv, LocalInv, LocalType
  <2>2. \A ph : out[t].cond = "normal" /\ out[t].phase = ph =>
          out[t] = [term |-> FALSE, phase |-> ph, cond |-> "normal"]
    BY <2>1 DEF PhaseType
  <2>3. QED
    BY <2>1, <2>2 DEF Keeps, Arrives, ArrivesAndWaits, Awaits, ToldNext
<1>4. QED BY <1>1, <1>2, <1>3

\* As long as the phase of the root has not wrapped round, the invariant
\* holds and every step is one of the barrier's.
LEMMA TreeInvariance ==
  ASSUME Tree
  PROVE  Spec /\ Unwrapped => /\ [](IInv /\ TreeInv)
                              /\ Flat!Init /\ [][Flat!Next]_(Flat!bvars)
<1>1. Init => IInv /\ AdvanceOwned /\ TreeInv /\ Flat!Init
  BY InitIInv, InitOwned, TreeInit
<1>2. IInv /\ AdvanceOwned /\ TreeInv /\ [Next]_vars
        /\ [state'[Root].phase >= state[Root].phase]_vars =>
        (IInv /\ AdvanceOwned /\ TreeInv)' /\ [Flat!Next]_(Flat!bvars)
  BY NextStep, NextOwned, TreeStep
<1>3. QED BY <1>1, <1>2, PTL DEF Spec, Unwrapped

\* In a tree of any shape, a child behind the root has nobody left to arrive
\* in the phase it shows, and one with parties is one phase behind: when
\* reconcile_state resets it, no arrival is lost.
THEOREM TreeLag ==
  ASSUME Tree
  PROVE  Spec /\ Unwrapped => []ChildLag
<1>1. IInv /\ TreeInv => ChildLag
  BY TreeProperties DEF Tree
<1>2. QED BY <1>1, TreeInvariance, PTL

\* In a tree of any shape, every phaser counts between operations exactly
\* its threads' parties and its non-empty children, and has pending exactly
\* those that have not arrived.
THEOREM TreeAccounting ==
  ASSUME Tree
  PROVE  Spec /\ Unwrapped => []Accounting
<1>1. IInv /\ TreeInv => Accounting
  BY TreeAccounts
<1>2. QED BY <1>1, TreeInvariance, PTL

\* A party at any phaser of the tree pins the root's phase until it arrives,
\* and the phase is then at most one ahead of it.
THEOREM TreePinsPhase ==
  ASSUME Tree
  PROVE  Spec /\ Unwrapped => []PartyPinsPhase
<1>1. IInv /\ TreeInv => PartyPinsPhase
  BY TreeProperties DEF Tree
<1>2. QED BY <1>1, TreeInvariance, PTL

\* Wherever in the tree it is made, an arrival returns the phase it arrived
\* in, a wait the next one, and neither is refused.
THEOREM TreeReturnedPhases ==
  ASSUME Tree
  PROVE  Spec /\ Unwrapped => []ReturnedPhases
<1>1. IInv /\ TreeInv => ReturnedPhases
  BY TreeProperties DEF Tree
<1>2. QED BY <1>1, TreeInvariance, PTL

\* A tree of phasers of any depth is one flat barrier: an arrival or a
\* registration is the barrier's at the thread's home and does not show
\* further up, and the root's advance is the barrier's.
THEOREM TreeIsBarrier ==
  ASSUME Tree
  PROVE  Spec /\ Unwrapped => ImplementsBarrier
  BY TreeInvariance, PTL DEF ImplementsBarrier, Flat!Spec
=============================================================================
