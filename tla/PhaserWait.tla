----------------------------- MODULE PhaserWait -----------------------------
(***************************************************************************)
(* The wait queues of the phaser in yesod/alternative: threads that wait   *)
(* for the root to leave a phase push a node on one of two stacks and park *)
(* themselves; whoever advances or terminates the phaser, and every thread *)
(* that starts or ends a wait, pops nodes and unparks their owners.        *)
(*                                                                         *)
(* Parking is what ThreadPark shows of it: the callback runs under the     *)
(* owner's park_lock, and an unpark takes that lock before it sets the     *)
(* flag and notifies.  The root's word is its phase and termination bit.   *)
(*                                                                         *)
(* An access to a destroyed node or to a thread handle that its owner has  *)
(* released, and a second push of a node that is still queued, set broken: *)
(* what the program does from there on is undefined, and the model stops.  *)
(***************************************************************************)
EXTENDS Integers, FiniteSets

CONSTANTS
  Waiters, Advancer,
  Kinds,       \* kinds of wait, among "default", "interruptibly" and "for"
  Nodes,       \* the addresses nodes may have
  MaxPhase,    \* bound: the last phase
  Waits,       \* bound: calls of await_advance
  Interrupts   \* bound: calls of interrupt

Threads == Waiters \cup {Advancer}
Null == "null"
Lock == "lock"   \* lock_value of the cooperative policy

VARIABLES
  policy,      \* RELEASE_POLICY
  phase, terminated,
  qhead,       \* qhead[i]: even_q_head, odd_q_head
  node,        \* node[n]: the fields of a node
  released, interrupted, held, asleep,  \* per waiter: flags, park_lock, park_cv
  v,           \* v[t]: locals
  waits, interrupts,
  broken, late \* history: late holds nodes popped before FLAG_QUEUED was set

park == <<released, interrupted, held, asleep>>
past == <<policy, waits, interrupts>>
vars == <<policy, phase, terminated, qhead, node, park, v, waits, interrupts, broken, late>>

Free  == [live |-> FALSE, in_use |-> FALSE, queued |-> FALSE, was_interrupted |-> FALSE,
          kind |-> "default", next |-> Null, waiter |-> Null, phase |-> 0]
Local == [pc |-> "idle", in |-> 0, kind |-> "default", node |-> Null, p |-> Null,
          q |-> 0, next |-> Null, who |-> Null, back |-> "idle"]

Init ==
  /\ policy \in {"WAKING_THREAD", "COOPERATIVE"}
  /\ phase = 0 /\ terminated = FALSE
  /\ qhead = [i \in 0 .. 1 |-> Null]
  /\ node = [n \in Nodes |-> Free]
  /\ released = [w \in Waiters |-> FALSE] /\ interrupted = released
  /\ held = released /\ asleep = released
  /\ v = [t \in Threads |-> Local]
  /\ waits = 0 /\ interrupts = 0
  /\ broken = FALSE /\ late = {}

At(t, label)   == v[t].pc = label /\ ~broken
Goto(t, label) == v' = [v EXCEPT ![t].pc = label]
Break(t)       == broken' = TRUE /\ v' = [x \in Threads |-> Local]
Same           == UNCHANGED broken

get_queue(ph) == ph % 2
\* Nodes reachable from a set of pointers: those of every set that holds
\* them and is closed under next.
Closed(S) == \A n \in S : node[n].next \in Nodes => node[n].next \in S
Reach(start) ==
  {n \in Nodes :
     \A S \in SUBSET Nodes : start \cap Nodes \subseteq S /\ Closed(S) => n \in S}

\* What thread t has taken off a stack and not released yet.
InHand(t) ==
  (CASE v[t].pc = "next" -> Reach({v[t].p})
     [] v[t].pc = "clear" -> {v[t].p}
     [] OTHER -> {})
  \cup (IF policy = "WAKING_THREAD" THEN Reach({v[t].next}) ELSE {})
Listed == Reach({qhead[0], qhead[1]}) \cup UNION {InHand(t) : t \in Threads}

(***************************************************************************)
(* release_waiters: at "release" the thread turns to queue v[t].q, and     *)
(* comes back to v[t].back.                                                *)
(***************************************************************************)
release_waiters(t, q, back) ==
  v' = [v EXCEPT ![t].pc = "release", ![t].q = q, ![t].back = back]

\* The local pointer becomes p: go on at the given label, or return.
GoOn(t, p, label) ==
  v' = [v EXCEPT ![t] = IF p = Null
                        THEN [@ EXCEPT !.pc = v[t].back, !.p = Null, !.next = Null, !.who = Null,
                                       !.q = 0, !.back = "idle"]
                        ELSE [@ EXCEPT !.pc = label, !.p = p, !.next = Null, !.who = Null]]

\* release_waiters_single takes the whole stack.
release_waiters_single(t) ==
  /\ At(t, "release") /\ policy = "WAKING_THREAD"
  /\ qhead' = [qhead EXCEPT ![v[t].q] = Null]
  /\ GoOn(t, qhead[v[t].q], "next")
  /\ UNCHANGED <<phase, terminated, node, park, past, broken, late>>

\* release_waiters_cooperative pops one node at a time, and locks the head
\* while it reads the successor.
release_waiters_cooperative(t) ==
  /\ At(t, "release") /\ policy = "COOPERATIVE"
  /\ qhead[v[t].q] # Lock
  /\ GoOn(t, qhead[v[t].q], "pop")
  /\ UNCHANGED <<phase, terminated, qhead, node, park, past, broken, late>>

LockHead(t) ==
  /\ At(t, "pop")
  /\ \/ /\ qhead[v[t].q] = v[t].p
        /\ qhead' = [qhead EXCEPT ![v[t].q] = Lock]
        /\ Goto(t, "next")
     \/ /\ qhead[v[t].q] # v[t].p
        /\ Goto(t, "release")
        /\ UNCHANGED qhead
  /\ UNCHANGED <<phase, terminated, node, park, past, broken, late>>

\* q = p->next; the cooperative policy stores it as the new head.
ReadNext(t) ==
  /\ At(t, "next")
  /\ IF node[v[t].p].live
     THEN /\ v' = [v EXCEPT ![t].next = node[v[t].p].next, ![t].pc = "clear"]
          /\ qhead' = IF policy = "COOPERATIVE" THEN [qhead EXCEPT ![v[t].q] = node[v[t].p].next] ELSE qhead
          /\ Same
     ELSE Break(t) /\ UNCHANGED qhead
  /\ UNCHANGED <<phase, terminated, node, park, past, late>>

\* p = q, and around again; the cooperative policy retries with the old q.
Advance(t, next) == GoOn(t, next, IF policy = "COOPERATIVE" THEN "pop" ELSE "next")

\* queue_release: clear FLAG_QUEUED; the last user destroys the node, the
\* first one goes on to unpark its owner.
queue_release(t) ==
  /\ At(t, "clear")
  /\ LET n == v[t].p
     IN IF ~node[n].live THEN Break(t) /\ UNCHANGED node
        ELSE /\ node' = [node EXCEPT ![n] = IF @.in_use THEN [@ EXCEPT !.queued = FALSE] ELSE Free]
             /\ IF node[n].in_use THEN Goto(t, "waiter") ELSE Advance(t, v[t].next)
             /\ Same
  /\ UNCHANGED <<phase, terminated, qhead, park, past, late>>

\* if (waiter) waiter.unpark(): two reads of a handle that its owner resets.
TestWaiter(t) ==
  /\ At(t, "waiter")
  /\ LET n == node[v[t].p]
     IN IF ~n.live THEN Break(t)
        ELSE /\ IF n.waiter = Null THEN Advance(t, v[t].next) ELSE Goto(t, "unpark")
             /\ Same
  /\ UNCHANGED <<phase, terminated, qhead, node, park, past, late>>

ReadWaiter(t) ==
  /\ At(t, "unpark")
  /\ LET n == node[v[t].p]
     IN IF n.waiter = Null THEN Break(t)
        ELSE v' = [v EXCEPT ![t].who = n.waiter, ![t].pc = "wake"] /\ Same
  /\ UNCHANGED <<phase, terminated, qhead, node, park, past, late>>

unpark(t) ==
  /\ At(t, "wake") /\ ~held[v[t].who]
  /\ released' = [released EXCEPT ![v[t].who] = TRUE]
  /\ asleep' = [asleep EXCEPT ![v[t].who] = FALSE]
  /\ Advance(t, v[t].next)
  /\ UNCHANGED <<phase, terminated, qhead, node, interrupted, held, past, broken, late>>

(***************************************************************************)
(* The thread that advances the root, or terminates it.                    *)
(***************************************************************************)

\* The last arrival: the state word, then the waiters of the old phase.
advance ==
  /\ At(Advancer, "idle") /\ phase < MaxPhase /\ ~terminated
  /\ phase' = phase + 1
  /\ release_waiters(Advancer, get_queue(phase), "idle")
  /\ UNCHANGED <<terminated, qhead, node, park, past, broken, late>>

force_termination ==
  /\ At(Advancer, "idle") /\ ~terminated
  /\ terminated' = TRUE
  /\ release_waiters(Advancer, 0, "odd")
  /\ UNCHANGED <<phase, qhead, node, park, past, broken, late>>

ReleaseOdd ==
  /\ At(Advancer, "odd")
  /\ release_waiters(Advancer, 1, "idle")
  /\ UNCHANGED <<phase, terminated, qhead, node, park, past, broken, late>>

(***************************************************************************)
(* A waiter: internal_await_advance.                                       *)
(***************************************************************************)
Changed(w) == terminated \/ phase # v[w].in

\* await_advance and its variants, once they have found the root in the phase.
await_advance(w, kind) ==
  /\ At(w, "idle") /\ ~terminated /\ waits < Waits
  /\ waits' = waits + 1
  /\ v' = [v EXCEPT ![w] = [Local EXCEPT !.in = phase, !.kind = kind, !.pc = "release",
                                         !.q = 1 - get_queue(phase), !.back = "loop"]]
  /\ UNCHANGED <<policy, phase, terminated, qhead, node, park, interrupts, broken, late>>

\* The head of the loop.  Without a node the thread spins, until it is
\* interrupted or has spun enough, and then makes one.
Loop(w) ==
  /\ At(w, "loop")
  /\ \/ /\ Changed(w)
        /\ Goto(w, IF v[w].node = Null THEN "last" ELSE "drop")
        /\ UNCHANGED <<node, interrupted>>
     \/ /\ ~Changed(w) /\ v[w].node # Null
        /\ Goto(w, "park")
        /\ UNCHANGED <<node, interrupted>>
     \/ /\ ~Changed(w) /\ v[w].node = Null
        /\ \E n \in Nodes :
             /\ ~node[n].live
             /\ node' = [node EXCEPT ![n] =
                  [live |-> TRUE, in_use |-> TRUE, queued |-> FALSE, kind |-> v[w].kind,
                   was_interrupted |-> interrupted[w] /\ v[w].kind # "for",
                   next |-> Null, waiter |-> w, phase |-> v[w].in]]
             /\ v' = [v EXCEPT ![w].node = n]
        /\ interrupted' = IF v[w].kind = "for" THEN interrupted ELSE [interrupted EXCEPT ![w] = FALSE]
  /\ UNCHANGED <<phase, terminated, qhead, released, held, asleep, past, broken, late>>

\* thread::park up to its callback: a release or an interrupt ends it at once.
Park(w) ==
  /\ At(w, "park")
  /\ \/ /\ released[w] \/ interrupted[w]
        /\ released' = [released EXCEPT ![w] = FALSE]
        /\ Goto(w, "again")
        /\ UNCHANGED held
     \/ /\ ~released[w] /\ ~interrupted[w]
        /\ held' = [held EXCEPT ![w] = TRUE]
        /\ Goto(w, "head")
        /\ UNCHANGED released
  /\ UNCHANGED <<phase, terminated, qhead, node, interrupted, asleep, past, broken, late>>

\* is_releasable of the own node: the handle is already reset, the phase has
\* changed, an interrupt ends the wait, or (timed nodes) the time is over.
is_releasable(w, yes, no) ==
  LET n   == v[w].node
      int == node[n].was_interrupted \/ interrupted[w]
      end == \/ Changed(w)
             \/ int /\ node[n].kind # "default"
  IN IF node[n].waiter = Null THEN yes /\ UNCHANGED <<node, interrupted>>
     ELSE \E over \in {end, end \/ node[n].kind = "for"} :
            /\ node' = [node EXCEPT ![n].was_interrupted = IF Changed(w) THEN @ ELSE int,
                                    ![n].waiter = IF over THEN Null ELSE @]
            /\ interrupted' = IF Changed(w) THEN interrupted ELSE [interrupted EXCEPT ![w] = FALSE]
            /\ IF over THEN yes ELSE no

\* The callback returns false: park clears the flag and releases park_lock.
Unparked(w) ==
  /\ held' = [held EXCEPT ![w] = FALSE]
  /\ released' = [released EXCEPT ![w] = FALSE]
  /\ v' = [v EXCEPT ![w].pc = "again", ![w].p = Null]

\* enqueue_and_block: the callback's loop.
LoadHead(w) ==
  /\ At(w, "head")
  /\ v' = [v EXCEPT ![w].p = qhead[get_queue(v[w].in)], ![w].pc = "test"]
  /\ UNCHANGED <<phase, terminated, qhead, node, park, past, broken, late>>

TestInvalid(w) ==
  /\ At(w, "test")
  /\ is_releasable(w, Unparked(w),
       UNCHANGED <<held, released>> /\ Goto(w, IF v[w].p = Lock THEN "head" ELSE "push"))
  /\ UNCHANGED <<phase, terminated, qhead, asleep, past, broken, late>>

Push(w) ==
  /\ At(w, "push")
  /\ LET q == get_queue(v[w].in)
         n == v[w].node
     IN IF n \in Listed THEN Break(w) /\ UNCHANGED <<qhead, node>>
        ELSE /\ node' = [node EXCEPT ![n].next = v[w].p]
             /\ \/ /\ qhead[q] = v[w].p
                   /\ qhead' = [qhead EXCEPT ![q] = n]
                   /\ v' = [v EXCEPT ![w].pc = "flag", ![w].p = Null]
                \/ /\ qhead[q] # v[w].p
                   /\ v' = [v EXCEPT ![w].p = qhead[q], ![w].pc = "test"]
                   /\ UNCHANGED qhead
             /\ Same
  /\ UNCHANGED <<phase, terminated, park, past, late>>

SetQueued(w) ==
  /\ At(w, "flag")
  /\ node' = [node EXCEPT ![v[w].node].queued = TRUE]
  /\ late' = IF v[w].node \in Listed THEN late ELSE late \cup {v[w].node}
  /\ Goto(w, "recheck")
  /\ UNCHANGED <<phase, terminated, qhead, park, past, broken>>

\* Mutant: the thread blocks without a second look at the phase.
Recheck_Blind(w) ==
  /\ At(w, "recheck")
  /\ held' = [held EXCEPT ![w] = FALSE]
  /\ asleep' = [asleep EXCEPT ![w] = TRUE]
  /\ Goto(w, "asleep")
  /\ UNCHANGED <<phase, terminated, qhead, node, released, interrupted, past, broken, late>>

\* return !is_releasable(): block on park_cv, or return from park.
Recheck(w) ==
  /\ At(w, "recheck")
  /\ is_releasable(w, Unparked(w) /\ UNCHANGED asleep,
       /\ held' = [held EXCEPT ![w] = FALSE]
       /\ asleep' = [asleep EXCEPT ![w] = TRUE]
       /\ Goto(w, "asleep") /\ UNCHANGED released)
  /\ UNCHANGED <<phase, terminated, qhead, past, broken, late>>

\* park_cv's wait ends: notified, timed out, or spuriously.
WakeUp(w) ==
  /\ At(w, "asleep") /\ ~asleep[w]
  /\ Unparked(w)
  /\ UNCHANGED <<phase, terminated, qhead, node, interrupted, asleep, past, broken, late>>

Spurious(w) ==
  /\ At(w, "asleep") /\ asleep[w]
  /\ asleep' = [asleep EXCEPT ![w] = FALSE]
  /\ UNCHANGED <<phase, terminated, qhead, node, released, interrupted, held, v, past, broken, late>>

Again(w) ==
  /\ At(w, "again")
  /\ is_releasable(w, Goto(w, "drop"), Goto(w, "loop"))
  /\ UNCHANGED <<phase, terminated, qhead, released, held, asleep, past, broken, late>>

\* waiter.release(), and a pending interrupt is raised again if the wait was
\* not interruptible.
DropWaiter(w) ==
  /\ At(w, "drop")
  /\ LET n   == v[w].node
         int == node[n].was_interrupted /\ node[n].kind = "default"
     IN /\ node' = [node EXCEPT ![n].waiter = Null]
        /\ interrupted' = [interrupted EXCEPT ![w] = @ \/ int]
        /\ released' = [released EXCEPT ![w] = @ \/ int]
  /\ Goto(w, "free")
  /\ UNCHANGED <<phase, terminated, qhead, held, asleep, past, broken, late>>

\* Mutant: the owner destroys its node while it is still on a stack.
ReleaseNode_Always(w) ==
  /\ At(w, "free")
  /\ node' = [node EXCEPT ![v[w].node] = Free]
  /\ v' = [v EXCEPT ![w].node = Null, ![w].pc = "last"]
  /\ UNCHANGED <<phase, terminated, qhead, park, past, broken, late>>

\* node->release(); a wait that ended normally releases its own queue too.
ReleaseNode(w) ==
  /\ At(w, "free")
  /\ node' = [node EXCEPT ![v[w].node] = IF @.queued THEN [@ EXCEPT !.in_use = FALSE] ELSE Free]
  /\ v' = [v EXCEPT ![w].node = Null, ![w].pc = "last"]
  /\ UNCHANGED <<phase, terminated, qhead, park, past, broken, late>>

Last(w) ==
  /\ At(w, "last")
  /\ IF Changed(w) THEN release_waiters(w, get_queue(v[w].in), "done") ELSE Goto(w, "done")
  /\ UNCHANGED <<phase, terminated, qhead, node, park, past, broken, late>>

Return(w) ==
  /\ At(w, "done")
  /\ v' = [v EXCEPT ![w] = Local]
  /\ UNCHANGED <<phase, terminated, qhead, node, park, past, broken, late>>

\* interrupt() by another thread: the flag, and an unpark.
interrupt(w) ==
  /\ ~broken /\ interrupts < Interrupts /\ v[w].pc # "idle" /\ ~held[w] /\ ~interrupted[w]
  /\ interrupts' = interrupts + 1
  /\ interrupted' = [interrupted EXCEPT ![w] = TRUE]
  /\ released' = [released EXCEPT ![w] = TRUE]
  /\ asleep' = [asleep EXCEPT ![w] = FALSE]
  /\ UNCHANGED <<policy, phase, terminated, qhead, node, held, v, waits, broken, late>>

Release(t) ==
  \/ release_waiters_single(t) \/ release_waiters_cooperative(t) \/ LockHead(t)
  \/ ReadNext(t) \/ queue_release(t) \/ TestWaiter(t) \/ ReadWaiter(t) \/ unpark(t)

Wait(w) ==
  \/ Loop(w) \/ Park(w) \/ LoadHead(w) \/ TestInvalid(w) \/ Push(w) \/ SetQueued(w)
  \/ Recheck(w) \/ WakeUp(w) \/ Again(w) \/ DropWaiter(w) \/ ReleaseNode(w)
  \/ Last(w) \/ Return(w)

Step(t) == Release(t) \/ (t \in Waiters /\ Wait(t)) \/ (t = Advancer /\ ReleaseOdd)

Next ==
  \/ \E t \in Threads : Step(t)
  \/ advance \/ force_termination
  \/ \E w \in Waiters : Spurious(w) \/ interrupt(w) \/ \E k \in Kinds : await_advance(w, k)

Spec == Init /\ [][Next]_vars

(***************************************************************************)
(* Properties.                                                             *)
(***************************************************************************)

\* Until an access goes wrong no stack reaches a destroyed node, and no node
\* is lost: one that its owner has left is on a stack, or in the hands of a
\* thread that releases it, unless FLAG_QUEUED was set after it was popped.
NodesOwned ==
  ~broken => /\ \A n \in Listed : node[n].live
             /\ \A n \in Nodes : node[n].live /\ ~node[n].in_use => n \in Listed \cup late

\* Thread t is on its way through queue q, or will be.
Visits(t, q) ==
  \/ v[t].q = q /\ v[t].pc \in {"release", "pop", "next", "clear", "waiter", "unpark", "wake"}
  \/ v[t].pc = "odd" \/ (v[t].back = "odd" /\ q = 1)

\* No waiter is left asleep in a phase that is over: its node is on the stack
\* of a thread that is releasing it, or an unpark is on its way.
NobodyStranded ==
  \A w \in Waiters :
    (~broken /\ asleep[w] /\ Changed(w)) =>
      \E t \in Threads :
        \/ v[t].pc = "wake" /\ v[t].who = w
        \/ v[t].pc \in {"waiter", "unpark"} /\ v[t].p = v[w].node
        \/ v[w].node \in InHand(t)
        \/ v[w].node \in Reach({qhead[get_queue(v[w].in)]}) /\ Visits(t, get_queue(v[w].in))
=============================================================================
