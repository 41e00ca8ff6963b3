------------------------------- MODULE Phaser -------------------------------
(***************************************************************************)
(* The tiered phaser of yesod/concurrent/phaser.hpp: a tree of phasers,    *)
(* each one 64-bit word updated by compare-and-swap, used by threads that  *)
(* register, arrive, wait and deregister at their own phaser of the tree.  *)
(*                                                                         *)
(* One action is one access to shared memory (a load or a compare-and-swap *)
(* of a state word, or taking self_lock) with the thread-local code that   *)
(* follows it, up to the next access.  pc[t] names that next access.  A    *)
(* local whose value is no longer used is reset.                           *)
(*                                                                         *)
(* wait_queue_base::await_advance is declared in this header and never     *)
(* defined; it is modelled by its contract (it returns the root's phase    *)
(* once that differs from the phase waited for).                           *)
(***************************************************************************)
EXTENDS Integers, FiniteSets

CONSTANTS
  Phasers,        \* the nodes of the tree
  Root,           \* the phaser without a parent
  NoPhaser,       \* nullptr
  Parent,         \* Parent[p]: the parent of p, NoPhaser for the root
  Threads,
  NoThread,
  Home,           \* Home[t]: the phaser t operates on
  Weight,         \* Weight[t]: the argument t gives to register_some
  Members,        \* threads whose parties the constructors registered
  PhaseSize,      \* 2^state_phase_bits
  CountSize,      \* 2^state_parties_bits
  InitPhase,      \* phase at the start of the run
  NeverTerminate, \* on_advance returns false always, or !registered_parties
  WeakCas,        \* compare_exchange_weak may fail spuriously
  Terminators,    \* threads that may call force_termination
  Watchers,       \* threads that may call get_unarrived_parties
  Fuel            \* bound: operations a thread may begin

ASSUME TreeAssumption ==
  /\ Root \in Phasers
  /\ NoPhaser \notin Phasers
  /\ Parent \in [Phasers -> Phasers \cup {NoPhaser}]
  /\ \A p \in Phasers : Parent[p] = NoPhaser <=> p = Root

ASSUME ClientAssumption ==
  /\ NoThread \notin Threads
  /\ Home \in [Threads -> Phasers]
  /\ Weight \in [Threads -> 1 .. CountSize - 1]
  /\ Members \subseteq Threads
  /\ Terminators \subseteq Threads
  /\ Watchers \subseteq Threads
  /\ Fuel \in [Threads -> Nat]

ASSUME WidthAssumption ==
  /\ PhaseSize \in Nat /\ PhaseSize > 1
  /\ CountSize \in Nat /\ CountSize > 1
  /\ InitPhase \in 0 .. PhaseSize - 1
  /\ NeverTerminate \in BOOLEAN
  /\ WeakCas \in BOOLEAN

VARIABLES
  state,   \* state[p]: the state word of phaser p
  lock,    \* lock[p]: the thread that owns self_lock of p
  pc,      \* pc[t]: the next shared access of t, "client" between operations
  op,      \* op[t]: the public operation t is executing
  cur,     \* cur[t]: the phaser whose member function t is in
  caller,  \* caller[t][p]: the child from which t called into p
  snap,    \* snap[t][p]: the local s of t's frame in p
  copy,    \* copy[t]: the s of t's frame in reconcile_state
  out,     \* out[t]: phase_out, or the root's phase loaded by reconcile_state
  role,    \* role[t]: client's view: "out", "in" (unarrived), "arrived"
  todo,    \* todo[t]: arrivals t has still to make in this phase
  seen,    \* seen[t]: phase of the last operation's result
  fuel,    \* fuel[t]: operations t may still begin
  held,    \* history: parties of t registered
  left,    \* history: parties of t unarrived in the current phase
  touched  \* history: a party has arrived in the current phase

shared == <<state, lock>>
local  == <<pc, op, cur, caller, snap, copy, out>>
client == <<role, todo, seen, fuel>>
ghost  == <<held, left, touched>>
vars   == <<shared, local, client, ghost>>

(***************************************************************************)
(* The state word.                                                         *)
(***************************************************************************)
Phase == 0 .. PhaseSize - 1
Count == 0 .. CountSize - 1
Word  == [term : BOOLEAN, phase : Phase, parties : Count, pending : Count]
Cond  == {"normal", "erroneous"}
PhaseType == [term : BOOLEAN, phase : Phase, cond : Cond]

define_state(ph, parties, pending) ==
  [term |-> FALSE, phase |-> ph, parties |-> parties, pending |-> pending]

\* to_state keeps phase and termination bit; its count_type arguments wrap.
to_state(o, parties, pending) ==
  [term |-> o.term, phase |-> o.phase,
   parties |-> parties % CountSize, pending |-> pending % CountSize]

make(w) == [term |-> w.term, phase |-> w.phase, cond |-> "normal"]
make_err(w) == [term |-> w.term, phase |-> w.phase, cond |-> "erroneous"]

unarrived_of(w) == IF w.parties = 0 THEN 0 ELSE w.pending

\* Mutant: the phase is not masked to its width.
NextPhase_Unmasked(ph) == ph + 1
NextPhase(ph) == (ph + 1) % PhaseSize

SamePhase(w, o) == w.term = o.term /\ w.phase = o.phase

NoWord == define_state(0, 0, 0)
NoOut  == make(NoWord)

\* s - adjust, adjust being (0, d, 1).
Adjusted(w, d) ==
  [term |-> w.term, phase |-> w.phase,
   parties |-> w.parties - d, pending |-> w.pending - 1]

\* The word reconcile_state wants to store in a child that lags behind o.
Reconciled(w, o) ==
  IF o.term THEN to_state(o, w.parties, w.pending)
  ELSE IF w.parties = 0 THEN to_state(o, 0, 1)
  ELSE to_state(o, w.parties, w.parties)

on_advance(parties) == ~NeverTerminate /\ parties = 0

\* Mutant: the phase is incremented twice.
Advanced_Twice(w) ==
  to_state([term |-> FALSE, phase |-> NextPhase(NextPhase(w.phase))],
           w.parties, IF w.parties = 0 THEN 1 ELSE w.parties)

\* The word the last arriver stores in the root.
Advanced(w) ==
  LET o == [term |-> on_advance(w.parties), phase |-> NextPhase(w.phase)]
  IN  IF o.term THEN to_state(o, w.parties, 0)
      ELSE IF w.parties = 0 THEN to_state(o, 0, 1)
      ELSE to_state(o, w.parties, w.parties)

\* Mutant: new parties are not pending in the current phase.
Enrolled_Arrived(w, n) ==
  IF w.parties = 0 THEN to_state(w, n, n)
  ELSE to_state(w, w.parties + n, w.pending)

\* Mutant: the empty phaser is not told from one with a party.
Enrolled_OnEmpty(w, n) == to_state(w, w.parties + n, w.pending + n)

\* The word do_register stores in a phaser that has parties, or in an
\* empty one.
Enrolled(w, n) ==
  IF w.parties = 0 THEN to_state(w, n, n)
  ELSE to_state(w, w.parties + n, w.pending + n)

\* s | phaser_terminated_mask.
Terminated(w) == [term |-> TRUE, phase |-> w.phase,
                  parties |-> w.parties, pending |-> w.pending]

\* Mutant: the sum is compared before it wraps.
Overflows_Never(w, n) == n + w.parties < w.parties

\* count_type(registrations + parties) < parties.
Overflows(w, n) == (n + w.parties) % CountSize < w.parties

(***************************************************************************)
(* Control.                                                                *)
(***************************************************************************)
Labels == {"client", "load", "rec", "recCas", "rec2", "rec2Cas", "cas",
           "adv", "lock", "commit", "commitLoad", "empty", "await", "ret"}
Ops == {"none", "register", "arrive", "dereg", "aaa", "await", "query", "term"}
ArriveOps == {"arrive", "dereg", "aaa"}

\* The parties that the threads at p contribute when t counts for f[t] of
\* them, and that p's children contribute when c counts iff b[c].
PartiesAt(p, f, b) ==
  Cardinality({x \in Threads \X (1 .. CountSize) :
                 Home[x[1]] = p /\ x[2] <= f[x[1]]})
  + Cardinality({c \in Phasers : Parent[c] = p /\ b[c]})

\* The constructors register the members' parties, and each child that has
\* any with its parent, at the phase that the root has reached; a child
\* without parties is empty, (0, 1), and its word says phase 0.
Init ==
  /\ todo = [t \in Threads |-> IF t \in Members THEN Weight[t] ELSE 0]
  /\ \E n \in [Phasers -> Count] :
       /\ \A p \in Phasers :
            n[p] = PartiesAt(p, todo, [c \in Phasers |-> n[c] > 0])
       /\ state = [p \in Phasers |->
            define_state(IF n[p] = 0 /\ p # Root THEN 0 ELSE InitPhase,
                         n[p], IF n[p] = 0 THEN 1 ELSE n[p])]
  /\ lock = [p \in Phasers |-> NoThread]
  /\ pc = [t \in Threads |-> "client"]
  /\ op = [t \in Threads |-> "none"]
  /\ cur = [t \in Threads |-> NoPhaser]
  /\ caller = [t \in Threads |-> [p \in Phasers |-> NoPhaser]]
  /\ snap = [t \in Threads |-> [p \in Phasers |-> NoWord]]
  /\ copy = [t \in Threads |-> NoWord]
  /\ out = [t \in Threads |-> NoOut]
  /\ role = [t \in Threads |-> IF t \in Members THEN "in" ELSE "out"]
  /\ seen = [t \in Threads |-> InitPhase]
  /\ fuel = Fuel
  /\ held = todo
  /\ left = todo
  /\ touched = FALSE

Goto(t, label, o) ==
  /\ pc' = [pc EXCEPT ![t] = label]
  /\ out' = [out EXCEPT ![t] = o]

Return(t, o) == Goto(t, "ret", o)

\* Mutant: a child left without parties only arrives at its parent.
Deregisters_HomeOnly(t, p) ==
  IF p = Home[t] /\ op[t] = "dereg" THEN 1 ELSE 0

\* The argument of do_register and the parties field of do_arrive's adjust:
\* a child registers with, and deregisters from, its parent as one party.
Registrations(t, p) == IF p = Home[t] THEN Weight[t] ELSE 1
Deregisters(t, p) ==
  IF \/ p = Home[t] /\ op[t] = "dereg"
     \/ p # Home[t] /\ op[t] # "aaa" /\ snap[t][caller[t][p]].parties = 0
  THEN 1 ELSE 0

\* Enter the same operation of the parent.
CallParent(t, p) ==
  /\ Goto(t, "load", NoOut)
  /\ cur' = [cur EXCEPT ![t] = Parent[p]]
  /\ caller' = [caller EXCEPT ![t][Parent[p]] = p]

\* Mutant: parties are added to a phase that is already complete.
WaitOrCas_NoWait(t, w) == Goto(t, "cas", NoOut)

\* do_register: wait for the advance under way, or try to add the parties.
WaitOrCas(t, w) ==
  IF w.pending = 0 THEN Goto(t, "await", make(w)) ELSE Goto(t, "cas", NoOut)

\* do_register, after s is up to date: give up, wait for the advance that
\* is under way, or try to add the parties.
ExamineRegister(t, p, w) ==
  \/ /\ Overflows(w, Registrations(t, p))
     /\ Return(t, make_err(w))
     /\ copy' = [copy EXCEPT ![t] = NoWord]
  \/ /\ ~Overflows(w, Registrations(t, p))
     /\ w.parties # 0 \/ w.pending = 0
     /\ \/ /\ p = Root
           /\ WaitOrCas(t, w)
           /\ copy' = [copy EXCEPT ![t] = NoWord]
        \/ /\ p # Root
           /\ Goto(t, "rec2", NoOut)
           /\ copy' = [copy EXCEPT ![t] = w]
  \/ /\ ~Overflows(w, Registrations(t, p))
     /\ w.parties = 0 /\ w.pending # 0
     /\ Goto(t, IF p = Root THEN "cas" ELSE "lock", NoOut)
     /\ copy' = [copy EXCEPT ![t] = NoWord]

\* What each operation does with its up-to-date local s = w.
Examine(t, p, w) ==
  /\ snap' = [snap EXCEPT ![t][p] = w]
  /\ \/ /\ op[t] # "register" \/ w.term
        /\ copy' = [copy EXCEPT ![t] = NoWord]
        /\ \/ (w.term \/ op[t] = "query") /\ Return(t, make(w))
           \/ /\ ~w.term /\ op[t] \in ArriveOps
              /\ \/ unarrived_of(w) = 0 /\ Return(t, make_err(w))
                 \/ unarrived_of(w) # 0 /\ Goto(t, "cas", NoOut)
           \/ /\ ~w.term /\ op[t] = "await"
              /\ IF w.phase = seen[t] THEN Goto(t, "await", make(w))
                                      ELSE Return(t, make(w))
           \/ ~w.term /\ op[t] = "term" /\ Goto(t, "cas", NoOut)
     \/ op[t] = "register" /\ ~w.term /\ ExamineRegister(t, p, w)

\* Mutant: no reconciliation with the root.
Loop_Unreconciled(t, p, w) == Examine(t, p, w)

\* The head of every retry loop: if (parent) s = reconcile_state(s).
Loop(t, p, w) ==
  \/ p = Root /\ Examine(t, p, w)
  \/ /\ p # Root
     /\ Goto(t, "rec", NoOut)
     /\ copy' = [copy EXCEPT ![t] = w]
     /\ snap' = [snap EXCEPT ![t][p] = NoWord]

\* reconcile_state returns w, at the loop head or at the second call inside
\* do_register, where the result is only compared with s.
ReconcileReturns(t, p, w) ==
  \/ pc[t] \in {"rec", "recCas"} /\ Examine(t, p, w)
  \/ /\ pc[t] \in {"rec2", "rec2Cas"}
     /\ IF w = snap[t][p]
        THEN WaitOrCas(t, w)
        ELSE Goto(t, "load", NoOut)
     /\ copy' = [copy EXCEPT ![t] = NoWord]
     /\ UNCHANGED snap

\* state.load() at the start of an operation or after a wait.
Load(t) ==
  /\ pc[t] = "load"
  /\ Loop(t, cur[t], state[cur[t]])
  /\ UNCHANGED <<shared, op, cur, caller, client, ghost>>

\* reconcile_state: compare with the root's phase.
ReconcileLoad(t) ==
  /\ pc[t] \in {"rec", "rec2"}
  /\ \/ /\ SamePhase(state[Root], copy[t])
        /\ ReconcileReturns(t, cur[t], copy[t])
     \/ /\ ~SamePhase(state[Root], copy[t])
        /\ Goto(t, IF pc[t] = "rec" THEN "recCas" ELSE "rec2Cas",
                make(state[Root]))
        /\ UNCHANGED <<snap, copy>>
  /\ UNCHANGED <<shared, op, cur, caller, client, ghost>>

\* reconcile_state: bring this phaser to the root's phase.
ReconcileCas(t) ==
  LET p == cur[t]
      w == Reconciled(copy[t], out[t])
  IN /\ pc[t] \in {"recCas", "rec2Cas"}
     /\ \/ /\ state[p] = copy[t]
           /\ state' = [state EXCEPT ![p] = w]
           /\ ReconcileReturns(t, p, w)
        \/ /\ state[p] # copy[t] \/ WeakCas
           /\ copy' = [copy EXCEPT ![t] = state[p]]
           /\ Goto(t, IF pc[t] = "recCas" THEN "rec" ELSE "rec2", NoOut)
           /\ UNCHANGED <<state, snap>>
     /\ UNCHANGED <<lock, op, cur, caller, client, ghost>>

\* The arrival's compare-and-swap succeeds: the last arriver goes on to the
\* root's advance or to the parent, the others wait or return.
ArriveCas(t, p, s) ==
  LET w == Adjusted(s, Deregisters(t, p))
  IN /\ op[t] \in ArriveOps
     /\ state' = [state EXCEPT ![p] = w]
     /\ snap' = [snap EXCEPT ![t][p] = w]
     /\ \/ /\ unarrived_of(s) # 1
           /\ IF op[t] = "aaa" THEN Goto(t, "await", make(s))
                               ELSE Return(t, make(w))
           /\ UNCHANGED <<cur, caller>>
        \/ /\ unarrived_of(s) = 1 /\ p = Root
           /\ Goto(t, "adv", make(w))
           /\ UNCHANGED <<cur, caller>>
        \/ /\ unarrived_of(s) = 1 /\ p # Root
           /\ CallParent(t, p)
     /\ IF p = Home[t]
        THEN /\ left' = [left EXCEPT ![t] = @ - 1]
             /\ held' = [held EXCEPT ![t] = @ - Deregisters(t, p)]
             /\ touched' = TRUE
        ELSE UNCHANGED ghost

\* The registration's compare-and-swap succeeds.
RegisterCas(t, p, s) ==
  /\ op[t] = "register"
  /\ state' = [state EXCEPT ![p] = Enrolled(s, Registrations(t, p))]
  /\ Return(t, make(s))
  /\ IF p = Home[t]
     THEN /\ held' = [held EXCEPT ![t] = Weight[t]]
          /\ left' = [left EXCEPT ![t] = Weight[t]]
          /\ UNCHANGED touched
     ELSE UNCHANGED ghost
  /\ UNCHANGED <<snap, cur, caller>>

\* force_termination sets the termination bit of the root.
TerminateCas(t, p, s) ==
  /\ op[t] = "term"
  /\ state' = [state EXCEPT ![p] = Terminated(s)]
  /\ Return(t, make(s))
  /\ UNCHANGED <<snap, cur, caller, ghost>>

\* Mutant: a failed compare-and-swap leaves s as it was.
RetryCas_NoReload(t, p) ==
  Loop(t, p, snap[t][p]) /\ UNCHANGED <<state, cur, caller, ghost>>

\* A failed compare-and-swap has reloaded s: back to the loop head, except
\* in force_termination, which only tries again.
RetryCas(t, p) ==
  /\ \/ op[t] = "term" /\ snap' = [snap EXCEPT ![t][p] = state[p]]
                       /\ UNCHANGED <<pc, out, copy>>
     \/ op[t] # "term" /\ Loop(t, p, state[p])
  /\ UNCHANGED <<state, cur, caller, ghost>>

Cas(t) ==
  LET p == cur[t]
      s == snap[t][p]
  IN /\ pc[t] = "cas"
     /\ \/ /\ state[p] = s
           /\ ArriveCas(t, p, s) \/ RegisterCas(t, p, s) \/ TerminateCas(t, p, s)
           /\ UNCHANGED copy
        \/ /\ state[p] # s \/ WeakCas
           /\ RetryCas(t, p)
     /\ UNCHANGED <<lock, op, client>>

\* Mutant: the last arriver stores the new word whatever the root holds.
AdvanceCas_Blind(t) ==
  LET s == snap[t][Root]
  IN /\ pc[t] = "adv"
     /\ state' = [state EXCEPT ![Root] = Advanced(s)]
     /\ left' = held
     /\ touched' = FALSE
     /\ Return(t, IF op[t] = "aaa" THEN make(state'[Root]) ELSE out[t])
     /\ UNCHANGED <<lock, op, cur, caller, snap, copy, client, held>>

\* The last arriver moves the root to the next phase.  Only a termination
\* can have changed the root meanwhile, and then the phase stays.
AdvanceCas(t) ==
  LET s == snap[t][Root]
  IN /\ pc[t] = "adv"
     /\ IF state[Root] = s
        THEN /\ state' = [state EXCEPT ![Root] = Advanced(s)]
             /\ left' = held
             /\ touched' = FALSE
        ELSE UNCHANGED <<state, left, touched>>
     /\ Return(t, IF op[t] = "aaa" THEN make(state'[Root]) ELSE out[t])
     /\ UNCHANGED <<lock, op, cur, caller, snap, copy, client, held>>

\* wait_queue->await_advance returns.
Await(t) ==
  /\ pc[t] = "await"
  /\ ~SamePhase(state[Root], out[t])
  /\ IF op[t] = "register" THEN Goto(t, "load", NoOut)
                           ELSE Return(t, make(state[Root]))
  /\ UNCHANGED <<shared, op, cur, caller, snap, copy, client, ghost>>

\* Mutant: first registrations with an empty child are not serialised.
Lock_Shared(t) ==
  LET p == cur[t]
  IN /\ pc[t] = "lock"
     /\ lock' = [lock EXCEPT ![p] = t]
     /\ CallParent(t, p)
     /\ UNCHANGED <<state, op, snap, copy, client, ghost>>

\* First registration with an empty child: under self_lock, if the word is
\* still the one examined, register the child with its parent.
Lock(t) ==
  LET p == cur[t]
  IN /\ pc[t] = "lock"
     /\ lock[p] = NoThread
     /\ \/ /\ state[p] = snap[t][p]
           /\ lock' = [lock EXCEPT ![p] = t]
           /\ CallParent(t, p)
           /\ UNCHANGED <<snap, copy>>
        \/ /\ state[p] # snap[t][p]
           /\ Loop(t, p, state[p])
           /\ UNCHANGED <<lock, cur, caller>>
     /\ UNCHANGED <<state, op, client, ghost>>

\* The child's own word, once the parent has counted the child.
Commit(t) ==
  LET p == cur[t]
      n == Registrations(t, p)
  IN /\ pc[t] = "commit"
     /\ \/ /\ state[p] = snap[t][p]
           /\ state' = [state EXCEPT ![p] = to_state(out[t], n, n)]
           /\ lock' = [lock EXCEPT ![p] = NoThread]
           /\ Return(t, out[t])
           /\ IF p = Home[t]
              THEN /\ held' = [held EXCEPT ![t] = n]
                   /\ left' = [left EXCEPT ![t] = n]
              ELSE UNCHANGED <<held, left>>
           /\ UNCHANGED snap
        \/ /\ state[p] # snap[t][p] \/ WeakCas
           /\ snap' = [snap EXCEPT ![t][p] = state[p]]
           /\ Goto(t, "commitLoad", NoOut)
           /\ UNCHANGED <<shared, held, left>>
     /\ UNCHANGED <<op, cur, caller, copy, client, touched>>

CommitLoad(t) ==
  /\ pc[t] = "commitLoad"
  /\ Goto(t, "commit", make(state[Root]))
  /\ UNCHANGED <<shared, op, cur, caller, snap, copy, client, ghost>>

\* A child left without parties becomes empty, unless somebody else already
\* moved it on.
EmptyCas(t) ==
  LET p == cur[t]
      s == snap[t][p]
  IN /\ pc[t] = "empty"
     /\ state' = IF state[p] = s
                 THEN [state EXCEPT ![p] = define_state(s.phase, 0, 1)]
                 ELSE state
     /\ Return(t, out[t])
     /\ UNCHANGED <<lock, op, cur, caller, snap, copy, client, ghost>>

\* A member function called by a child of p returns to the child.
Resume(t) ==
  LET p == cur[t]
      c == caller[t][p]
  IN /\ pc[t] = "ret"
     /\ c # NoPhaser
     /\ cur' = [cur EXCEPT ![t] = c]
     /\ caller' = [caller EXCEPT ![t][p] = NoPhaser]
     /\ snap' = [snap EXCEPT ![t][p] = NoWord]
     /\ \/ /\ op[t] = "register" /\ ~out[t].term
           /\ pc' = [pc EXCEPT ![t] = "commit"]
           /\ UNCHANGED lock
        \/ /\ op[t] = "register" /\ out[t].term
           /\ lock' = [lock EXCEPT ![c] = NoThread]
           /\ UNCHANGED pc
        \/ /\ op[t] \in ArriveOps
           /\ pc' = [pc EXCEPT ![t] =
                       IF op[t] # "aaa" /\ snap[t][c].parties = 0
                       THEN "empty" ELSE "ret"]
           /\ UNCHANGED lock
     /\ UNCHANGED <<state, op, copy, out, client, ghost>>

(***************************************************************************)
(* The clients.  A thread registers, arrives once per party and phase, and *)
(* leaves only by arriving; it stops when an operation tells it that the   *)
(* phaser is terminated.                                                   *)
(***************************************************************************)
Begin(t, o, p) ==
  /\ pc[t] = "client"
  /\ pc' = [pc EXCEPT ![t] = "load"]
  /\ op' = [op EXCEPT ![t] = o]
  /\ cur' = [cur EXCEPT ![t] = p]
  /\ UNCHANGED <<shared, caller, snap, copy, out, role, todo, seen, ghost>>

BeginPaid(t, o, p) ==
  /\ fuel[t] > 0
  /\ fuel' = [fuel EXCEPT ![t] = @ - 1]
  /\ Begin(t, o, p)

register_some(t) == role[t] = "out" /\ BeginPaid(t, "register", Home[t])
arrive(t) == role[t] = "in" /\ BeginPaid(t, "arrive", Home[t])
arrive_and_await_advance(t) ==
  role[t] = "in" /\ todo[t] = 1 /\ BeginPaid(t, "aaa", Home[t])
arrive_and_deregister(t) ==
  role[t] = "in" /\ Begin(t, "dereg", Home[t]) /\ UNCHANGED fuel
await_advance(t) ==
  role[t] = "arrived" /\ Begin(t, "await", Home[t]) /\ UNCHANGED fuel
get_unarrived_parties(t) == t \in Watchers /\ BeginPaid(t, "query", Home[t])
force_termination(t) == t \in Terminators /\ BeginPaid(t, "term", Root)

\* The client's bookkeeping when its operation returns.
Outcome(t) ==
  LET o == out[t]
      one == IF o.term THEN "out" ELSE
             IF held[t] = 0 THEN "out" ELSE
             IF todo[t] > 1 THEN "in" ELSE "arrived"
  IN \/ /\ op[t] \in {"query", "term"} \/ o.cond = "erroneous"
        /\ UNCHANGED <<role, todo, seen>>
     \/ /\ op[t] \in {"register", "await", "aaa"} /\ o.cond = "normal"
        /\ role' = [role EXCEPT ![t] = IF o.term THEN "out" ELSE "in"]
        /\ todo' = [todo EXCEPT ![t] = IF o.term THEN 0 ELSE held[t]]
        /\ seen' = [seen EXCEPT ![t] = o.phase]
     \/ /\ op[t] \in {"arrive", "dereg"} /\ o.cond = "normal"
        /\ role' = [role EXCEPT ![t] = one]
        /\ todo' = [todo EXCEPT ![t] = IF o.term THEN 0 ELSE @ - 1]
        /\ seen' = [seen EXCEPT ![t] = o.phase]

Complete(t) ==
  /\ pc[t] = "ret"
  /\ caller[t][cur[t]] = NoPhaser
  /\ pc' = [pc EXCEPT ![t] = "client"]
  /\ op' = [op EXCEPT ![t] = "none"]
  /\ cur' = [cur EXCEPT ![t] = NoPhaser]
  /\ snap' = [snap EXCEPT ![t] = [p \in Phasers |-> NoWord]]
  /\ out' = [out EXCEPT ![t] = NoOut]
  /\ Outcome(t)
  /\ UNCHANGED <<shared, caller, copy, fuel, ghost>>

\* A step inside an operation.
Run(t) ==
  \/ Load(t) \/ ReconcileLoad(t) \/ ReconcileCas(t) \/ Cas(t) \/ AdvanceCas(t)
  \/ Await(t) \/ Lock(t) \/ Commit(t) \/ CommitLoad(t) \/ EmptyCas(t)
  \/ Resume(t) \/ Complete(t)

\* A registered party goes on: it arrives, waits or leaves.
Participate(t) ==
  \/ arrive(t) \/ arrive_and_await_advance(t) \/ arrive_and_deregister(t)
  \/ await_advance(t)

Visit(t) == register_some(t) \/ get_unarrived_parties(t) \/ force_termination(t)

Finished == \A t \in Threads : pc[t] = "client" /\ role[t] = "out"

Next ==
  \/ \E t \in Threads : Run(t) \/ Participate(t) \/ Visit(t)
  \/ Finished /\ UNCHANGED vars

Spec == Init /\ [][Next]_vars

\* Every thread is scheduled, and a party does not abandon its phase.
FairSpec ==
  Spec /\ \A t \in Threads : WF_vars(Run(t)) /\ WF_vars(Participate(t))

(***************************************************************************)
(* Properties.                                                             *)
(***************************************************************************)

\* Every variable has its type: in particular no count field ever leaves
\* 0 .. 2^16 - 1, so no borrow or carry crosses into its neighbour.
TypeOK ==
  /\ state \in [Phasers -> Word]
  /\ lock \in [Phasers -> Threads \cup {NoThread}]
  /\ pc \in [Threads -> Labels]
  /\ op \in [Threads -> Ops]
  /\ cur \in [Threads -> Phasers \cup {NoPhaser}]
  /\ caller \in [Threads -> [Phasers -> Phasers \cup {NoPhaser}]]
  /\ snap \in [Threads -> [Phasers -> Word]]
  /\ copy \in [Threads -> Word]
  /\ out \in [Threads -> PhaseType]
  /\ role \in [Threads -> {"out", "in", "arrived"}]
  /\ todo \in [Threads -> Int]
  /\ held \in [Threads -> Int]
  /\ left \in [Threads -> Int]
  /\ seen \in [Threads -> Phase]
  /\ fuel \in [Threads -> Nat]
  /\ touched \in BOOLEAN

\* A word is a set of parties of which some are pending, or the empty
\* phaser (0, 1): do_arrive and do_register never leave any other shape,
\* whatever they race with.
Shaped(w) == w.pending <= w.parties \/ (w.parties = 0 /\ w.pending = 1)
WordShape == \A p \in Phasers : Shaped(state[p])

Quiescent == \A t \in Threads : pc[t] = "client"

\* What reconcile_state would make of a child's word now.
Current(p) ==
  IF SamePhase(state[p], state[Root]) THEN state[p]
  ELSE Reconciled(state[p], state[Root])

\* Between operations every phaser counts exactly the parties registered
\* at it plus its non-empty children, and has pending exactly those of them
\* that have not arrived in the root's phase, whatever order registrations,
\* arrivals and reconciliations took.
Accounting ==
  Quiescent /\ ~state[Root].term =>
    \A p \in Phasers :
      /\ state[p].parties =
           PartiesAt(p, held, [c \in Phasers |-> state[c].parties > 0])
      /\ unarrived_of(Current(p)) =
           PartiesAt(p, left, [c \in Phasers |-> unarrived_of(Current(c)) > 0])

\* A child behind the root has nobody left to arrive in the phase it shows,
\* and a child with parties is at most one phase behind: reconcile_state may
\* reset it without losing an arrival.
ChildLag ==
  ~state[Root].term =>
    \A c \in Phasers :
      \/ state[c].phase = state[Root].phase
      \/ state[c].parties = 0
      \/ state[c].pending = 0 /\ state[Root].phase = NextPhase(state[c].phase)

\* An unarrived party pins the phase it was told it is in; after arriving it
\* is at most one phase behind (phaser_3 and phaser_4 assert this).
PartyPinsPhase ==
  \A t \in Threads :
    ~state[Root].term /\ pc[t] = "client" =>
      /\ role[t] = "in" => state[Root].phase = seen[t]
      /\ role[t] = "arrived" =>
           state[Root].phase \in {seen[t], NextPhase(seen[t])}

\* What operations return to a client that follows the rules: an arrival
\* returns the phase it arrived in, a wait the next one, and neither is ever
\* refused; after termination they say so.
ReturnedPhases ==
  \A t \in Threads :
    pc[t] = "ret" /\ caller[t][cur[t]] = NoPhaser /\ ~out[t].term =>
      /\ op[t] \in {"arrive", "dereg"} =>
           out[t] = [term |-> FALSE, phase |-> seen[t], cond |-> "normal"]
      /\ op[t] \in {"await", "aaa"} =>
           out[t] = [term |-> FALSE, phase |-> NextPhase(seen[t]),
                     cond |-> "normal"]

\* A complete phase always has exactly one thread in charge of its advance,
\* whose compare-and-swap can only lose to a termination.  do_arrive ignores
\* the result of that compare-and-swap, so a registration or an arrival that
\* slipped in between would lose the advance for everybody.
AdvanceOwned ==
  ~state[Root].term =>
    /\ state[Root].pending = 0 => \E t \in Threads : pc[t] = "adv"
    /\ \A t \in Threads : pc[t] = "adv" =>
         /\ state[Root] = snap[t][Root]
         /\ \A u \in Threads : pc[u] = "adv" => u = t

\* Once terminated, the root never changes again: neither an advance under
\* way nor a late arrival or registration touches it.
TerminatedFrozen ==
  [][state[Root].term => state'[Root] = state[Root]]_vars

\* The root's phase moves by exactly one, from a word with nobody pending,
\* and never by a reconciliation.
PhaseSteps ==
  [][state'[Root].phase # state[Root].phase =>
       /\ state'[Root].phase = NextPhase(state[Root].phase)
       /\ state[Root].pending = 0]_vars

\* The tree of words implements one flat barrier.
Flat == INSTANCE Barrier WITH
  phase <- state[Root].phase, term <- state[Root].term
ImplementsBarrier == Flat!Spec

\* Every operation returns, as long as parties keep arriving: nobody waits
\* for an advance that does not come, nor for self_lock for ever.
OperationsReturn == \A t \in Threads : pc[t] # "client" ~> pc[t] = "client"
=============================================================================
