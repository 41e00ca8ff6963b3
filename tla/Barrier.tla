------------------------------ MODULE Barrier ------------------------------
(***************************************************************************)
(* What a (tiered) phaser promises its clients, whatever its tree looks    *)
(* like: a cyclic barrier with a changing set of parties.  Thread t holds  *)
(* held[t] parties, left[t] of which have not arrived in the current       *)
(* phase.  The phase moves on only when nobody is left, and then everybody *)
(* who is still registered is left to arrive again.                        *)
(***************************************************************************)
EXTENDS Naturals

CONSTANTS
  Threads,        \* the client threads
  Weight,         \* Weight[t]: how many parties t registers at once
  PhaseSize,      \* number of phase values, 2^31 in the code
  NeverTerminate  \* on_advance always returns false

VARIABLES
  phase,    \* current phase number, modulo PhaseSize
  term,     \* the phaser is terminated
  held,     \* held[t]: parties registered by t
  left,     \* left[t]: parties of t that have not arrived in this phase
  touched   \* some party has arrived in this phase

bvars == <<phase, term, held, left, touched>>

Init ==
  /\ phase \in 0 .. PhaseSize - 1
  /\ term = FALSE
  /\ \A t \in Threads : held[t] \in {0, Weight[t]}
  /\ left = held
  /\ touched = FALSE

\* New parties join the current phase, unarrived.
Register(t) ==
  /\ held[t] = 0
  /\ held' = [held EXCEPT ![t] = Weight[t]]
  /\ left' = [left EXCEPT ![t] = Weight[t]]
  /\ UNCHANGED <<phase, term, touched>>

\* One party arrives; when it deregisters it also leaves the phaser.
Arrive(t, d) ==
  /\ left[t] > 0
  /\ left' = [left EXCEPT ![t] = @ - 1]
  /\ held' = [held EXCEPT ![t] = @ - d]
  /\ touched' = TRUE
  /\ UNCHANGED <<phase, term>>

AllArrived == touched /\ \A t \in Threads : left[t] = 0

\* The phase advances by one when the last party has arrived; the phaser
\* terminates instead of going on when its policy says so.
Advance ==
  /\ ~term
  /\ AllArrived
  /\ phase' = (phase + 1) % PhaseSize
  /\ term' = (~NeverTerminate /\ \A t \in Threads : held[t] = 0)
  /\ left' = held
  /\ touched' = FALSE
  /\ UNCHANGED held

Terminate ==
  /\ term' = TRUE
  /\ UNCHANGED <<phase, held, left, touched>>

\* Operations racing with termination may still be counted.
Next ==
  \/ \E t \in Threads : Register(t)
  \/ \E t \in Threads, d \in {0, 1} : Arrive(t, d)
  \/ Advance
  \/ Terminate

Spec == Init /\ [][Next]_bvars
=============================================================================
